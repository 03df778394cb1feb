--------------------------- MODULE CeremonyProofs ---------------------------
(***************************************************************************)
(* A key ceremony of any size, with any phase, any lists of members, any    *)
(* starting times and any number of lost posts, crashes and interrupts: the *)
(* keystore, the room in the board's channels, and the deals in time.       *)
(***************************************************************************)
EXTENDS Ceremony, SequenceTheorems, FiniteSetTheorems, NaturalsInduction, TLAPS

Stages == {"off", "deal", "respond", "justify", "over", "closing", "saving", "writing",
           "written", "done", "failed", "crashed"}

Results == {"none", "share", "error"}

Files == [path : {"none", "old", "new"}, tmp : {"none", "half", "new"}]

KeyShape ==
  /\ stage \in [Operators -> Stages]
  /\ result \in [Operators -> Results]
  /\ disk \in [Operators -> Files]

(* A new keystore is in place only once the process is done, what it renames *)
(* is whole, and it gets that far only with a share. *)
KeyInv ==
  /\ KeyShape
  /\ \A p \in Operators :
       /\ stage[p] \in {"saving", "writing", "written", "done"} => result[p] = "share"
       /\ stage[p] = "written" => disk[p].tmp = "new"
       /\ disk[p].path = "new" => stage[p] = "done"
       /\ resharing /\ p \in OldMembers => disk[p].path # "none"

(* Before the ceremony an old member has its old share, and nobody a new one. *)
LEMMA KeyInit == CeremonyInit => KeyInv
<1> SUFFICES ASSUME CeremonyInit PROVE KeyInv
  OBVIOUS
<1>1. KeyShape
  BY DEF CeremonyInit, KeyShape, Stages, Results, Files
<1> QED
  BY <1>1 DEF CeremonyInit, KeyInv

(* A process goes on before it has anything to save; its result may be      *)
(* decided now. *)
LEMMA EarlyKeeps ==
  ASSUME KeyInv, NEW p \in Operators, NEW s \in Stages, NEW r \in Results,
         stage[p] \notin {"saving", "writing", "written", "done"},
         s \notin {"writing", "written", "done"}, s = "saving" => r = "share",
         stage' = [stage EXCEPT ![p] = s], result' = [result EXCEPT ![p] = r],
         UNCHANGED <<resharing, disk>>
  PROVE  KeyInv'
<1>1. KeyShape' /\ disk[p].path # "new"
  BY DEF KeyInv, KeyShape
<1>2. /\ stage'[p] = s /\ result'[p] = r
      /\ \A q \in Operators \ {p} : stage'[q] = stage[q] /\ result'[q] = result[q]
  BY DEF KeyInv, KeyShape
<1> QED
  BY <1>1, <1>2 DEF KeyInv

(* A process with a share writes it, or gives up. *)
LEMMA SavingKeeps ==
  ASSUME KeyInv, NEW p \in Operators, NEW s \in Stages, NEW d \in Files,
         stage[p] # "done",
         s \in {"saving", "writing", "written", "done"} => result[p] = "share",
         s = "written" => d.tmp = "new", d.path = "new" => s = "done",
         disk[p].path # "none" => d.path # "none",
         stage' = [stage EXCEPT ![p] = s], disk' = [disk EXCEPT ![p] = d],
         UNCHANGED <<resharing, result>>
  PROVE  KeyInv'
<1>1. KeyShape'
  BY DEF KeyInv, KeyShape
<1>2. /\ stage'[p] = s /\ disk'[p] = d
      /\ \A q \in Operators \ {p} : stage'[q] = stage[q] /\ disk'[q] = disk[q]
  BY DEF KeyInv, KeyShape
<1>3. resharing /\ p \in OldMembers => d.path # "none"
  BY DEF KeyInv
<1> QED
  BY <1>1, <1>2, <1>3 DEF KeyInv

(* Every step of every process. *)
LEMMA KeyStep == KeyInv /\ [CeremonyNext]_ceremonyVars => KeyInv'
<1> SUFFICES ASSUME KeyInv, [CeremonyNext]_ceremonyVars PROVE KeyInv'
  OBVIOUS
<1>1. ASSUME UNCHANGED <<resharing, stage, result, disk>> PROVE KeyInv'
  BY <1>1 DEF KeyInv, KeyShape
<1>2. ASSUME NEW d, deliver(d) PROVE KeyInv'
  BY <1>1, <1>2 DEF deliver, kyberVars
<1>3. ASSUME NEW p \in Operators, NEW k \in Kinds, Take(p, k) PROVE KeyInv'
  BY <1>1, <1>3 DEF Take
<1>4. ASSUME NEW p \in Operators, NEW s \in {"deal", "respond", "justify", "over", "closing", "failed"},
             stage[p] \notin {"saving", "writing", "written", "done"},
             stage' = [stage EXCEPT ![p] = s], UNCHANGED <<resharing, result, disk>>
      PROVE  KeyInv'
  <2>1. result' = [result EXCEPT ![p] = result[p]] /\ result[p] \in Results
    BY <1>4 DEF KeyInv, KeyShape
  <2> QED
    BY <1>4, <2>1, EarlyKeeps DEF Stages
<1>5. ASSUME NEW p \in Operators, Start(p) \/ Respond(p) PROVE KeyInv'
  BY <1>4, <1>5 DEF Start, Respond, kyberVars
<1>6. ASSUME NEW p \in Operators, Justify(p) PROVE KeyInv'
  <2>1. CASE Accused(p) = {}
    BY <1>6, <2>1, EarlyKeeps DEF Justify, Stages, Results
  <2>2. CASE Accused(p) # {}
    BY <1>4, <1>6, <2>2 DEF Justify
  <2> QED
    BY <2>1, <2>2
<1>7. ASSUME NEW p \in Operators, Finish(p) PROVE KeyInv'
  <2>1. PICK r \in Results : result' = [result EXCEPT ![p] = r]
    BY <1>7 DEF Finish, Results
  <2> QED
    BY <1>7, <2>1, EarlyKeeps DEF Finish, Stages
<1>8. ASSUME NEW p \in Operators, Interrupt(p) PROVE KeyInv'
  BY <1>8, EarlyKeeps DEF Interrupt, Running, Stages, Results
<1>9. ASSUME NEW p \in Operators, Close(p) PROVE KeyInv'
  BY <1>4, <1>9 DEF Close, kyberVars
<1>10. ASSUME NEW p \in Operators, NEW s \in Stages, NEW d \in Files,
              stage[p] # "done",
              s \in {"saving", "writing", "written", "done"} => result[p] = "share",
              s = "written" => d.tmp = "new", d.path = "new" => s = "done",
              disk[p].path # "none" => d.path # "none",
              stage' = [stage EXCEPT ![p] = s], disk' = [disk EXCEPT ![p] = d],
              UNCHANGED <<resharing, kyberVars>>
       PROVE  KeyInv'
  BY <1>10, SavingKeeps DEF kyberVars
<1>11. \A p \in Operators : /\ disk[p] \in Files /\ disk = [disk EXCEPT ![p] = disk[p]]
                            /\ stage[p] # "done" => disk[p].path # "new"
  BY DEF KeyInv, KeyShape
<1>12. ASSUME NEW p \in Operators, Waited(p) PROVE KeyInv'
  <2>1. CASE result[p] = "share"
    BY <1>10, <1>11, <1>12, <2>1 DEF Waited, Stages
  <2>2. CASE result[p] # "share"
    BY <1>10, <1>11, <1>12, <2>2 DEF Waited, Fail, Stages
  <2> QED
    BY <2>1, <2>2
<1>13. ASSUME NEW p \in Operators, WriteTmp(p) PROVE KeyInv'
  <2>1. stage[p] \in {"saving", "writing"} /\ UNCHANGED <<resharing, kyberVars>>
        /\ result[p] = "share" /\ disk[p].path # "new" /\ disk[p] \in Files
    BY <1>11, <1>13 DEF WriteTmp, KeyInv
  <2> DEFINE half == [path |-> disk[p].path, tmp |-> "half"]
             new == [path |-> disk[p].path, tmp |-> "new"]
  <2>2. /\ half \in Files /\ new \in Files
        /\ [disk[p] EXCEPT !.tmp = "half"] = half /\ [disk[p] EXCEPT !.tmp = "new"] = new
    BY <2>1 DEF Files
  <2>3. CASE disk' = [disk EXCEPT ![p].tmp = "half"] /\ stage' = [stage EXCEPT ![p] = "writing"]
    <3>1. disk' = [disk EXCEPT ![p] = [disk[p] EXCEPT !.tmp = "half"]]
      BY <2>1, <2>3 DEF KeyInv, KeyShape
    <3>2. disk' = [disk EXCEPT ![p] = half]
      BY <2>2, <3>1
    <3> QED
      BY <1>10, <2>1, <2>2, <2>3, <3>2 DEF Stages
  <2>4. CASE disk' = [disk EXCEPT ![p].tmp = "new"] /\ stage' = [stage EXCEPT ![p] = "written"]
    <3>1. disk' = [disk EXCEPT ![p] = [disk[p] EXCEPT !.tmp = "new"]]
      BY <2>1, <2>4 DEF KeyInv, KeyShape
    <3>2. disk' = [disk EXCEPT ![p] = new]
      BY <2>2, <3>1
    <3> QED
      BY <1>10, <2>1, <2>2, <2>4, <3>2 DEF Stages
  <2>5. CASE stage' = [stage EXCEPT ![p] = "failed"] /\ UNCHANGED disk
    BY <1>10, <1>11, <2>1, <2>5 DEF Stages
  <2> QED
    BY <1>13, <2>3, <2>4, <2>5 DEF WriteTmp, Fail
<1>14. ASSUME NEW p \in Operators, Rename(p) PROVE KeyInv'
  <2> DEFINE d == [path |-> disk[p].tmp, tmp |-> "none"]
  <2>1. stage[p] = "written" /\ disk[p].tmp = "new" /\ result[p] = "share"
    BY <1>14 DEF Rename, KeyInv
  <2>2. d \in Files /\ d.path = "new" /\ d.tmp = "none"
    BY <2>1 DEF Files
  <2>3. UNCHANGED <<resharing, kyberVars>>
    BY <1>14 DEF Rename
  <2>4. CASE disk' = [disk EXCEPT ![p] = d] /\ stage' = [stage EXCEPT ![p] = "done"]
    <3> HIDE DEF d
    <3> QED
      BY <1>10, <2>1, <2>2, <2>3, <2>4 DEF Stages
  <2>5. CASE stage' = [stage EXCEPT ![p] = "failed"] /\ UNCHANGED disk
    BY <1>10, <1>11, <2>1, <2>3, <2>5 DEF Stages
  <2> QED
    BY <1>14, <2>4, <2>5 DEF Rename, Fail
<1>15. ASSUME NEW p \in Operators, Crash(p) PROVE KeyInv'
  BY <1>10, <1>11, <1>15 DEF Crash, Listening, Running, Stages
<1>16. CASE Tick \/ UNCHANGED ceremonyVars
  BY <1>1, <1>16 DEF Tick, ceremonyVars, kyberVars
<1> QED
  BY <1>2, <1>3, <1>5, <1>6, <1>7, <1>8, <1>9, <1>12, <1>13, <1>14, <1>15, <1>16
  DEF CeremonyNext, Work

(* Whatever moment a crash, a full disk, an interrupt or a failed ceremony  *)
(* chooses, for any number of operators: the keystore is a whole share, an  *)
(* old one stays until a new one replaces it, and only a ceremony that      *)
(* succeeded replaces it (Save in keystore.go, main in vrfceremony).        *)
THEOREM KeystoreTheorem == CeremonySpec => []KeystoreWhole
<1>1. KeyInv => KeystoreWhole
  BY DEF KeyInv, KeyShape, Files, KeystoreWhole
<1> QED
  BY <1>1, KeyInit, KeyStep, PTL DEF CeremonySpec

-----------------------------------------------------------------------------
(* The session nonce. *)

(* A set that has 0 and with each number the next has all numbers. *)
LEMMA SetInduction ==
  ASSUME NEW S, 0 \in S, \A n \in Nat : n \in S => n + 1 \in S
  PROVE  \A n \in Nat : n \in S
<1> DEFINE R == {ss \in Nat \X Nat : ss[1] < ss[2]}
<1> SUFFICES ASSUME Nat \ S # {} PROVE FALSE
  OBVIOUS
<1>1. IsWellFoundedOn(R, Nat)
  BY NatLessThanWellFounded DEF OpToRel
<1> HIDE DEF R
<1>2. PICK n \in Nat \ S : \A m \in Nat \ S : ~(<<m, n>> \in R)
  BY <1>1, WFMin
<1>3. \A m \in Nat \ S : ~(m < n)
  BY <1>2 DEF R
<1>4. n # 0 /\ n - 1 \in Nat
  BY <1>2
<1>5. n - 1 \in S
  BY <1>3, <1>4
<1> QED
  BY <1>2, <1>4, <1>5

(* One round of union's loop adds one member, unless it is there. *)
LEMMA AddNewSet ==
  ASSUME NEW T, NEW list \in Seq(T), NEW q \in T
  PROVE  /\ AddNew(list, q) \in Seq(T)
         /\ ToSet(AddNew(list, q)) = ToSet(list) \cup {q}
<1>1. DOMAIN list = 1..Len(list) /\ Len(list) \in Nat
  BY LenProperties
<1>2. CASE Contains(list, q)
  BY <1>1, <1>2 DEF AddNew, Contains, ToSet
<1>3. CASE ~Contains(list, q)
  <2> DEFINE new == Append(list, q)
  <2>1. /\ new \in Seq(T) /\ Len(new) = Len(list) + 1
        /\ \A i \in 1..Len(list) : new[i] = list[i]
        /\ new[Len(list) + 1] = q
    BY AppendProperties
  <2>2. DOMAIN new = 1..Len(new)
    BY <2>1, LenProperties
  <2>3. AddNew(list, q) = new
    BY <1>3 DEF AddNew
  <2> HIDE DEF new
  <2>4. DOMAIN new = DOMAIN list \cup {Len(list) + 1}
    BY <1>1, <2>1, <2>2
  <2>5. ToSet(new) = ToSet(list) \cup {q}
    BY <1>1, <2>1, <2>4 DEF ToSet
  <2> QED
    BY <2>1, <2>3, <2>5
<1> QED
  BY <1>2, <1>3

(* The loop of union collects both lists. *)
LEMMA UnionSet ==
  ASSUME NEW T, NEW old \in Seq(T), NEW new \in Seq(T)
  PROVE  ToSet(union(old, new)) = ToSet(old) \cup ToSet(new)
<1> DEFINE N == Len(new)
           Def(G) == G = [n \in 0..N |-> IF n = 0 THEN old ELSE AddNew(G[n - 1], new[n])]
           F == CHOOSE G : Def(G)
           Follows(g, n) == g[0] = old /\ \A i \in 1..n : g[i] = AddNew(g[i - 1], new[i])
           S == {n \in Nat : n <= N => \E g \in [0..n -> Seq(T)] : Follows(g, n)}
<1>1. N \in Nat /\ \A i \in 1..N : new[i] \in T
  BY LenProperties, ElementOfSeq
<1> HIDE DEF N
<1>2. \A n \in Nat : n \in S
  <2>1. 0 \in S
    <3>1. [i \in 0..0 |-> old] \in [0..0 -> Seq(T)] /\ Follows([i \in 0..0 |-> old], 0)
      OBVIOUS
    <3> QED
      BY <3>1
  <2>2. ASSUME NEW n \in Nat, n \in S PROVE n + 1 \in S
    <3> SUFFICES ASSUME n + 1 <= N
                 PROVE  \E g \in [0..(n + 1) -> Seq(T)] : Follows(g, n + 1)
      <4> HIDE DEF Follows
      <4> QED
        OBVIOUS
    <3>1. PICK g \in [0..n -> Seq(T)] : Follows(g, n)
      <4> HIDE DEF Follows
      <4> QED
        BY <1>1, <2>2
    <3> DEFINE last == AddNew(g[n], new[n + 1])
               h == [i \in 0..(n + 1) |-> IF i = n + 1 THEN last ELSE g[i]]
    <3>2. last \in Seq(T)
      BY <1>1, AddNewSet
    <3> HIDE DEF last
    <3>3. h \in [0..(n + 1) -> Seq(T)]
      BY <3>2
    <3>4. h[0] = old
      BY <3>1
    <3>5. ASSUME NEW i \in 1..(n + 1) PROVE h[i] = AddNew(h[i - 1], new[i])
      <4>1. CASE i = n + 1
        BY <4>1 DEF last
      <4>2. CASE i \in 1..n
        BY <3>1, <4>2
      <4> QED
        BY <4>1, <4>2
    <3> HIDE DEF h
    <3> QED
      BY <3>3, <3>4, <3>5
  <2> HIDE DEF S
  <2> QED
    BY <2>1, <2>2, SetInduction
<1>3. \E G : Def(G)
  <2>1. PICK g \in [0..N -> Seq(T)] : Follows(g, N)
    <3> HIDE DEF Follows
    <3>1. N \in S
      <4> HIDE DEF S
      <4> QED
        BY <1>1, <1>2
    <3> QED
      BY <1>1, <3>1
  <2>2. \A n \in 0..N : g[n] = IF n = 0 THEN old ELSE AddNew(g[n - 1], new[n])
    BY <1>1, <2>1
  <2> QED
    BY <2>2
<1>4. Def(F)
  BY <1>3
<1>5. union(old, new) = F[N]
  BY DEF union, N
<1> HIDE DEF F
<1>6. F[0] = old /\ \A n \in 1..N : F[n] = AddNew(F[n - 1], new[n])
  BY <1>1, <1>4
<1> DEFINE U == {n \in Nat : n <= N =>
                   F[n] \in Seq(T) /\ ToSet(F[n]) = ToSet(old) \cup {new[i] : i \in 1..n}}
<1>7. \A n \in Nat : n \in U
  <2>1. 0 \in U
    BY <1>1, <1>6
  <2>2. ASSUME NEW n \in Nat, n \in U PROVE n + 1 \in U
    <3> SUFFICES ASSUME n + 1 <= N
                 PROVE  /\ F[n + 1] \in Seq(T)
                        /\ ToSet(F[n + 1]) = ToSet(old) \cup {new[i] : i \in 1..(n + 1)}
      OBVIOUS
    <3>1. F[n] \in Seq(T) /\ ToSet(F[n]) = ToSet(old) \cup {new[i] : i \in 1..n}
      BY <1>1, <2>2
    <3>2. F[n + 1] = AddNew(F[n], new[n + 1]) /\ new[n + 1] \in T
      BY <1>1, <1>6
    <3>3. F[n + 1] \in Seq(T) /\ ToSet(F[n + 1]) = ToSet(F[n]) \cup {new[n + 1]}
      <4> DEFINE f == F[n]
                 q == new[n + 1]
      <4>1. f \in Seq(T) /\ q \in T
        BY <3>1, <3>2
      <4> HIDE DEF f, q
      <4>2. AddNew(f, q) \in Seq(T) /\ ToSet(AddNew(f, q)) = ToSet(f) \cup {q}
        BY <4>1, AddNewSet
      <4> QED
        BY <3>2, <4>2 DEF f, q
    <3> QED
      BY <3>1, <3>3
  <2> HIDE DEF U
  <2> QED
    BY <2>1, <2>2, SetInduction
<1>8. ToSet(F[N]) = ToSet(old) \cup {new[i] : i \in 1..N}
  <2>1. N \in U
    <3> HIDE DEF U
    <3> QED
      BY <1>1, <1>7
  <2>2. N <= N
    BY <1>1
  <2> QED
    BY <2>1, <2>2
<1>9. ToSet(new) = {new[i] : i \in 1..N}
  BY LenProperties DEF ToSet, N
<1> QED
  BY <1>5, <1>8, <1>9

(* Every participant arrives at the same nonce, whatever the order in which *)
(* its files list the members. *)
LEMMA NonceIs ==
  ASSUME NEW p \in Operators
  PROVE  NonceOf(p) = Ascending(Members)
<1>1. /\ Listed[p].members \in Seq(Members) /\ ToSet(Listed[p].members) = Members
      /\ Listed[p].oldMembers \in Seq(OldMembers) /\ ToSet(Listed[p].oldMembers) = OldMembers
      /\ OldMembers \subseteq Members
  BY CeremonyAssumption
<1>2. Listed[p].oldMembers \in Seq(Members)
  BY <1>1
<1>3. ToSet(union(Listed[p].oldMembers, Listed[p].members)) = Members
  <2> DEFINE old == Listed[p].oldMembers
             new == Listed[p].members
  <2>1. /\ old \in Seq(Members) /\ new \in Seq(Members)
        /\ ToSet(old) \cup ToSet(new) = Members
    BY <1>1, <1>2
  <2> HIDE DEF old, new
  <2>2. ToSet(union(old, new)) = ToSet(old) \cup ToSet(new)
    BY <2>1, UnionSet
  <2> QED
    BY <2>1, <2>2 DEF old, new
<1> QED
  BY <1>1, <1>3 DEF NonceOf, SessionNonce
-----------------------------------------------------------------------------
(* Room in the channels, and time. *)

(* As many answers may be lost as the channels have room for copies. *)
Roomy == Cardinality(Operators) + MaxFaults <= Buffer

Bundles ==
  [kind : Kinds, from : Operators, nonce : {Ascending(Members)}, about : SUBSET Operators]

Deliveries ==
  [from : Operators, to : Operators, bundle : Bundles, due : Nat, deadline : Nat]

BoardShape ==
  /\ now \in Nat
  /\ resharing \in BOOLEAN
  /\ begin \in [Operators -> Nat \cup {Never}]
  /\ stage \in [Operators -> Stages]
  /\ result \in [Operators -> Results]
  /\ out \subseteq Deliveries
  /\ chans \in [Operators -> [Kinds -> Seq(Bundles)]]
  /\ mu \in [Operators -> Seq(Bundles)]
  /\ closed \in [Operators -> BOOLEAN]
  /\ heard \in [Operators -> SUBSET Bundles]
  /\ missing \in [Operators -> SUBSET Operators]
  /\ faults \in 0..MaxFaults

(* Stages in which a participant may still push its bundle of a kind. *)
Early(kind) ==
  CASE kind = "deals" -> {"off"}
    [] kind = "responses" -> {"off", "deal"}
    [] kind = "justifications" -> {"off", "deal", "respond"}

(* Those whose bundle of a kind may still come to p's channel. *)
Sources(p, kind) ==
  {q \in Operators : \/ stage[q] \in Early(kind)
                     \/ \E d \in out : d.from = q /\ d.to = p /\ d.bundle.kind = kind}

RoomOk(p, kind) ==
  Len(chans[p][kind]) + Cardinality(Sources(p, kind)) + faults
    <= Cardinality(Operators) + MaxFaults

(* A bundle is on its way to a peer at most once, and only once pushed. *)
OutOk ==
  /\ \A d \in out : /\ d.from # d.to /\ d.bundle.from = d.from
                    /\ stage[d.from] \notin Early(d.bundle.kind)
  /\ \A d, e \in out :
       d.from = e.from /\ d.to = e.to /\ d.bundle.kind = e.bundle.kind => d = e

RoomInv ==
  /\ BoardShape
  /\ PushNeverWaits
  /\ OutOk
  /\ \A p \in Operators : \A kind \in Kinds : RoomOk(p, kind)

(* What has to be done by now is done, and a board is closed behind a       *)
(* result, which takes two phases when it is a share. *)
StageOk(p) ==
  /\ stage[p] = "off" /\ begin[p] # Never => now <= begin[p]
  /\ stage[p] # "off" => begin[p] # Never
  /\ stage[p] \in {"off"} \cup Running => result[p] = "none" /\ ~closed[p]
  /\ stage[p] = "over" => result[p] # "none"
  /\ closed[p] => result[p] # "none"
  /\ result[p] = "share" => now >= begin[p] + 2 * Phase
  /\ stage[p] \in {"off", "deal"} => missing[p] = {}

Deal(q) == [kind |-> "deals", from |-> q, nonce |-> Ascending(Members), about |-> {}]

Spent == 1 + MaxFaults - faults

(* HeardInTime's condition. *)
InTime(p, q) ==
  /\ Sound(p) /\ Sound(q)
  /\ (IF begin[q] > begin[p] THEN begin[q] - begin[p] ELSE 0) + Spent < Phase
  /\ (IF begin[p] > begin[q] THEN begin[p] - begin[q] ELSE 0) + Spent <= Phase

(* The last moment at which q's deal can come to p. *)
Latest(p, q) == (IF begin[p] > begin[q] THEN begin[p] ELSE begin[q]) + Spent

OnItsWay(p, q) ==
  \E d \in out : /\ d.from = q /\ d.to = p /\ d.bundle = Deal(q)
                 /\ d.deadline = begin[q] + RetryWindow
                 /\ d.due <= Latest(p, q)

InChannel(p, q) ==
  /\ stage[p] = "deal"
  /\ now <= Latest(p, q)
  /\ \E i \in 1..Len(chans[p]["deals"]) : chans[p]["deals"][i] = Deal(q)

(* Where q's deal is, as seen by a participant that has yet to respond. *)
DealOk(p, q) ==
  \/ stage[q] = "off"
  \/ OnItsWay(p, q)
  \/ InChannel(p, q)
  \/ Deal(q) \in heard[p]

TimeInv ==
  /\ RoomInv
  /\ \A p \in Operators : StageOk(p)
  /\ \A d \in out : now <= d.due
  /\ \A p \in Operators, q \in Dealers :
       stage[p] \in {"off", "deal"} /\ InTime(p, q) => DealOk(p, q)
  /\ HeardInTime

(* What the constants give. *)
LEMMA ConstantFacts ==
  /\ Operators = Members /\ Dealers \subseteq Operators
  /\ IsFiniteSet(Operators) /\ Cardinality(Operators) \in Nat
  /\ Phase \in Nat /\ MaxFaults \in Nat /\ MaxLate \in Nat
  /\ RetryWindow \in Nat /\ RetryWindow >= Phase
  /\ Buffer \in Nat
  /\ \A p \in Operators : peerURLs(p) = Operators \ {p}
<1>1. Operators = Members
  BY CeremonyAssumption DEF Operators
<1>2. IsFiniteSet(Operators) /\ Cardinality(Operators) \in Nat /\ Cardinality(Members) \in Nat
  BY <1>1, CeremonyAssumption, FS_CardinalityType
<1>3. /\ Phase \in Nat /\ MaxFaults \in Nat /\ MaxLate \in Nat /\ DefaultRetryWindow \in Nat
      /\ MinBuffer \in Nat /\ BufferPerMember \in Nat /\ BufferSlack \in Nat
  BY CeremonyAssumption
<1>4. RetryWindow \in Nat /\ RetryWindow >= Phase
  BY <1>3 DEF RetryWindow
<1>5. Buffer \in Nat
  <2>1. BufferPerMember * Cardinality(Members) \in Nat
    BY <1>2, <1>3
  <2> QED
    BY <1>3, <2>1 DEF Buffer
<1>6. Dealers \subseteq Operators
  BY CeremonyAssumption DEF Dealers, Operators
<1>7. \A p \in Operators : peerURLs(p) = Operators \ {p}
  BY <1>1 DEF peerURLs
<1> QED
  BY <1>1, <1>2, <1>3, <1>4, <1>5, <1>6, <1>7

(* A bundle has its participant's nonce, which is everybody's. *)
LEMMA BundleIs ==
  ASSUME NEW p \in Operators, NEW kind \in Kinds, NEW about \in SUBSET Operators
  PROVE  /\ Bundle(p, kind, about)
              = [kind |-> kind, from |-> p, nonce |-> Ascending(Members), about |-> about]
         /\ Bundle(p, kind, about) \in Bundles
<1>1. NonceOf(p) = Ascending(Members)
  BY NonceIs
<1> QED
  BY <1>1 DEF Bundle, Bundles

(* While a bundle may still come, its channel has room. *)
LEMMA RoomThere ==
  ASSUME Roomy, RoomInv, NEW p \in Operators, NEW kind \in Kinds,
         NEW q \in Sources(p, kind)
  PROVE  Len(chans[p][kind]) < Buffer
<1> DEFINE S == Sources(p, kind)
           L == Len(chans[p][kind])
<1>1. IsFiniteSet(S)
  BY ConstantFacts, FS_Subset DEF Sources
<1>2. Cardinality(S) \in Nat /\ Cardinality(S) # 0
  BY <1>1, FS_CardinalityType, FS_EmptySet
<1>3. L + Cardinality(S) + faults <= Cardinality(Operators) + MaxFaults
  BY DEF RoomInv, RoomOk
<1>4. L \in Nat /\ faults \in Nat
  BY LenProperties DEF RoomInv, BoardShape
<1> HIDE DEF S, L
<1>5. L < Buffer
  BY <1>2, <1>3, <1>4, ConstantFacts DEF Roomy
<1> QED
  BY <1>5 DEF L

(* The count of one channel through a step in which no bundle comes, one    *)
(* comes for the last time, or one comes whose answer is lost. *)
LEMMA RoomStep ==
  ASSUME RoomInv, BoardShape', NEW p \in Operators, NEW kind \in Kinds,
         Sources(p, kind)' \subseteq Sources(p, kind),
         faults' <= faults,
         \/ Len(chans'[p][kind]) <= Len(chans[p][kind])
         \/ /\ Len(chans'[p][kind]) = Len(chans[p][kind]) + 1
            /\ \/ \E q \in Sources(p, kind) : q \notin Sources(p, kind)'
               \/ faults' = faults - 1
  PROVE  RoomOk(p, kind)'
<1> DEFINE S == Sources(p, kind)
           T == Sources(p, kind)'
           L == Len(chans[p][kind])
           M == Len(chans'[p][kind])
<1>1. IsFiniteSet(S)
  BY ConstantFacts, FS_Subset DEF Sources
<1>2. IsFiniteSet(T) /\ Cardinality(T) <= Cardinality(S)
  BY <1>1, FS_Subset
<1>3. Cardinality(S) \in Nat /\ Cardinality(T) \in Nat
  BY <1>1, <1>2, FS_CardinalityType
<1>4. ASSUME NEW q \in S, q \notin T PROVE Cardinality(T) <= Cardinality(S) - 1
  <2>1. IsFiniteSet(S \ {q}) /\ Cardinality(S \ {q}) = Cardinality(S) - 1
    BY <1>1, FS_RemoveElement
  <2>2. T \subseteq S \ {q}
    BY <1>4
  <2> QED
    BY <2>1, <2>2, FS_Subset
<1>5. L + Cardinality(S) + faults <= Cardinality(Operators) + MaxFaults
  BY DEF RoomInv, RoomOk
<1>6. L \in Nat /\ M \in Nat /\ faults \in Nat /\ faults' \in Nat
  BY LenProperties DEF RoomInv, BoardShape
<1>7. \/ M <= L
      \/ M = L + 1 /\ ((\E q \in S : q \notin T) \/ faults' = faults - 1)
  OBVIOUS
<1>8. faults' <= faults
  OBVIOUS
<1> HIDE DEF S, T, L, M
<1>9. M + Cardinality(T) + faults' <= Cardinality(Operators) + MaxFaults
  <2>1. CASE \E q \in S : q \notin T
    BY <1>3, <1>4, <1>5, <1>6, <1>7, <1>8, <2>1, ConstantFacts
  <2>2. CASE M <= L \/ faults' = faults - 1
    BY <1>2, <1>3, <1>5, <1>6, <1>7, <1>8, <2>2, ConstantFacts
  <2> QED
    BY <1>7, <2>1, <2>2
<1> QED
  BY <1>9 DEF RoomOk, M, T

(* A bundle that may still come is put into its channel. *)
LEMMA Pushed ==
  ASSUME Roomy, RoomInv, NEW p \in Operators, NEW b \in Bundles, push(p, b),
         NEW q \in Sources(p, b.kind)
  PROVE  /\ mu' = mu /\ chans' \in [Operators -> [Kinds -> Seq(Bundles)]]
         /\ chans'[p][b.kind] = Append(chans[p][b.kind], b)
         /\ Len(chans'[p][b.kind]) = Len(chans[p][b.kind]) + 1
         /\ \A x \in Operators, k \in Kinds :
              x # p \/ k # b.kind => chans'[x][k] = chans[x][k]
<1>1. b.kind \in Kinds
  BY DEF Bundles
<1>2. Len(chans[p][b.kind]) < Buffer
  BY <1>1, RoomThere
<1>3. chans \in [Operators -> [Kinds -> Seq(Bundles)]]
  BY DEF RoomInv, BoardShape
<1> DEFINE c == chans[p][b.kind]
<1>4. mu' = mu /\ chans' = [chans EXCEPT ![p][b.kind] = Append(c, b)]
  BY <1>1, <1>2, <1>3 DEF push
<1>5. c \in Seq(Bundles)
  BY <1>1, <1>3
<1> HIDE DEF c
<1>6. Append(c, b) \in Seq(Bundles) /\ Len(Append(c, b)) = Len(c) + 1
  BY <1>5, AppendProperties
<1> DEFINE a == Append(c, b)
<1>7. a \in Seq(Bundles) /\ chans' = [chans EXCEPT ![p][b.kind] = a]
  BY <1>4, <1>6
<1> HIDE DEF a
<1>8. chans'[p][b.kind] = a /\ chans' \in [Operators -> [Kinds -> Seq(Bundles)]]
  BY <1>1, <1>3, <1>7
<1>9. \A x \in Operators, k \in Kinds : x # p \/ k # b.kind => chans'[x][k] = chans[x][k]
  BY <1>1, <1>3, <1>7
<1> QED
  BY <1>4, <1>6, <1>8, <1>9 DEF a, c

(* The room through a step that pushes nothing. *)
LEMMA QuietRoom ==
  ASSUME RoomInv, BoardShape', mu' = mu, out' \subseteq out, faults' <= faults,
         \A q \in Operators, k \in Kinds : stage'[q] \in Early(k) => stage[q] \in Early(k),
         \A p \in Operators, k \in Kinds : Len(chans'[p][k]) <= Len(chans[p][k])
  PROVE  RoomInv'
<1>1. PushNeverWaits'
  BY DEF RoomInv, PushNeverWaits
<1>2. \A d \in out : d.from \in Operators /\ d.bundle.kind \in Kinds
  BY DEF RoomInv, BoardShape, Deliveries, Bundles
<1>3. OutOk'
  BY <1>2 DEF RoomInv, OutOk
<1>4. ASSUME NEW p \in Operators, NEW kind \in Kinds PROVE RoomOk(p, kind)'
  <2>1. Sources(p, kind)' \subseteq Sources(p, kind)
    BY DEF Sources
  <2> QED
    BY <2>1, RoomStep
<1> QED
  BY <1>1, <1>3, <1>4 DEF RoomInv

(* The room when a participant pushes its one bundle of a kind. *)
LEMMA PushRoom ==
  ASSUME Roomy, RoomInv, NEW p \in Operators, NEW b \in Bundles, b.from = p, Push(p, b),
         stage[p] \in Early(b.kind), NEW s \in Stages \ Early(b.kind),
         \A k \in Kinds : s \in Early(k) => stage[p] \in Early(k),
         stage' = [stage EXCEPT ![p] = s],
         result' \in [Operators -> Results], missing' \in [Operators -> SUBSET Operators],
         UNCHANGED <<now, resharing, begin, closed, heard, faults>>
  PROVE  RoomInv'
<1>1. b.kind \in Kinds /\ BoardShape /\ OutOk
  BY DEF Bundles, RoomInv
<1>2. p \in Sources(p, b.kind)
  BY DEF Sources
<1>3. push(p, b) /\ out' = out \cup Outgoing(p, b)
  BY DEF Push
<1>4. /\ mu' = mu /\ chans' \in [Operators -> [Kinds -> Seq(Bundles)]]
      /\ Len(chans'[p][b.kind]) = Len(chans[p][b.kind]) + 1
      /\ \A x \in Operators, k \in Kinds :
           x # p \/ k # b.kind => chans'[x][k] = chans[x][k]
  BY <1>2, <1>3, Pushed
<1>5. \A d \in Outgoing(p, b) :
        /\ d \in Deliveries /\ d.from = p /\ d.to \in Operators \ {p}
        /\ d.bundle = b /\ d.due = now /\ d.deadline = now + RetryWindow
        /\ d = [from |-> p, to |-> d.to, bundle |-> b, due |-> now,
                deadline |-> now + RetryWindow]
  BY <1>1, ConstantFacts DEF Outgoing, Deliveries, BoardShape
<1>6. BoardShape'
  BY <1>1, <1>3, <1>4, <1>5 DEF BoardShape
<1>7. PushNeverWaits'
  BY <1>4 DEF RoomInv, PushNeverWaits
<1>8. /\ stage'[p] = s
      /\ \A q \in Operators \ {p} : stage'[q] = stage[q]
  BY <1>1 DEF BoardShape
<1>9. \A d \in out : d.from \in Operators /\ d.bundle.kind \in Kinds
  BY <1>1 DEF BoardShape, Deliveries, Bundles
<1>10. OutOk'
  <2>1. ASSUME NEW d \in out'
        PROVE  /\ d.from # d.to /\ d.bundle.from = d.from
               /\ stage'[d.from] \notin Early(d.bundle.kind)
    <3>1. CASE d \in out
      BY <1>1, <1>8, <1>9, <3>1 DEF OutOk
    <3>2. CASE d \in Outgoing(p, b)
      BY <1>5, <1>8, <3>2
    <3> QED
      BY <1>3, <3>1, <3>2
  <2>2. ASSUME NEW d \in out', NEW e \in out',
               d.from = e.from, d.to = e.to, d.bundle.kind = e.bundle.kind
        PROVE  d = e
    <3>1. CASE d \in out /\ e \in out
      BY <1>1, <2>2, <3>1 DEF OutOk
    <3>2. CASE d \in Outgoing(p, b) /\ e \in Outgoing(p, b)
      BY <1>5, <2>2, <3>2
    <3>3. \A x \in out, y \in Outgoing(p, b) :
            x.from # y.from \/ x.bundle.kind # y.bundle.kind
      BY <1>1, <1>5 DEF OutOk
    <3> QED
      BY <1>3, <2>2, <3>1, <3>2, <3>3
  <2> QED
    BY <2>1, <2>2 DEF OutOk
<1>11. ASSUME NEW x \in Operators, NEW k \in Kinds PROVE RoomOk(x, k)'
  <2>1. ASSUME NEW q \in Sources(x, k)' PROVE q \in Sources(x, k)
    <3>1. q \in Operators
      BY <2>1 DEF Sources
    <3>2. CASE stage'[q] \in Early(k)
      BY <1>8, <3>1, <3>2 DEF Sources
    <3>3. CASE \E d \in out' : d.from = q /\ d.to = x /\ d.bundle.kind = k
      <4>1. PICK d \in out' : d.from = q /\ d.to = x /\ d.bundle.kind = k
        BY <3>3
      <4>2. CASE d \in out
        BY <3>1, <4>1, <4>2 DEF Sources
      <4>3. CASE d \in Outgoing(p, b)
        BY <1>5, <3>1, <4>1, <4>3 DEF Sources
      <4> QED
        BY <1>3, <4>2, <4>3
    <3> QED
      BY <2>1, <3>2, <3>3 DEF Sources
  <2>2. CASE x = p /\ k = b.kind
    <3>1. p \notin Sources(p, b.kind)'
      BY <1>8, <1>10 DEF Sources, OutOk
    <3>2. faults' <= faults
      BY <1>1, ConstantFacts DEF BoardShape
    <3>3. /\ Sources(x, k)' \subseteq Sources(x, k)
          /\ p \in Sources(x, k) /\ p \notin Sources(x, k)'
          /\ Len(chans'[x][k]) = Len(chans[x][k]) + 1
      BY <1>2, <1>4, <2>1, <2>2, <3>1
    <3> QED
      BY <1>6, <3>2, <3>3, RoomStep
  <2>3. CASE x # p \/ k # b.kind
    <3>1. chans'[x][k] = chans[x][k] /\ Len(chans[x][k]) \in Nat /\ faults \in Nat
      BY <1>1, <1>4, <2>3, LenProperties DEF BoardShape
    <3> QED
      BY <1>6, <2>1, <3>1, RoomStep
  <2> QED
    BY <2>2, <2>3
<1> QED
  BY <1>6, <1>7, <1>10, <1>11 DEF RoomInv

(* A post to be tried again is the same post, due later. *)
LEMMA RetryOut ==
  ASSUME BoardShape, NEW d \in out, NEW pause \in 0..1, Retry(d, pause)
  PROVE  LET e == [d EXCEPT !.due = now + pause] IN
           /\ out' = out \ {d} \/ out' = (out \ {d}) \cup {e}
           /\ ~(now + pause > d.deadline \/ closed[d.from]) => e \in out'
           /\ e \in Deliveries /\ e.from = d.from /\ e.to = d.to /\ e.bundle = d.bundle
           /\ e.due = now + pause /\ e.deadline = d.deadline
<1>1. d \in Deliveries /\ now + pause \in Nat
  BY DEF BoardShape
<1> QED
  BY <1>1 DEF Retry, Deliveries

(* The posts after one of them was tried. *)
LEMMA TriedOut ==
  ASSUME BoardShape, OutOk, NEW d \in out, stage' = stage, NEW e \in Deliveries,
         e.from = d.from, e.to = d.to, e.bundle = d.bundle,
         out' = out \ {d} \/ out' = (out \ {d}) \cup {e}
  PROVE  /\ out' \subseteq Deliveries /\ OutOk'
         /\ \A p \in Operators, k \in Kinds : Sources(p, k)' \subseteq Sources(p, k)
         /\ out' = out \ {d} => d.from \notin Sources(d.to, d.bundle.kind)'
<1>1. out \subseteq Deliveries
  BY DEF BoardShape
<1>2. \A x \in out' : \/ x \in out /\ x # d
                      \/ x = e
  OBVIOUS
<1>3. OutOk'
  <2>1. \A x \in out' : /\ x.from # x.to /\ x.bundle.from = x.from
                        /\ stage[x.from] \notin Early(x.bundle.kind)
    BY <1>2 DEF OutOk
  <2>2. ASSUME NEW x \in out', NEW y \in out',
               x.from = y.from, x.to = y.to, x.bundle.kind = y.bundle.kind
        PROVE  x = y
    BY <1>2, <2>2 DEF OutOk
  <2> QED
    BY <2>1, <2>2 DEF OutOk
<1>4. ASSUME NEW p \in Operators, NEW k \in Kinds PROVE Sources(p, k)' \subseteq Sources(p, k)
  BY <1>2 DEF Sources
<1>5. ASSUME out' = out \ {d} PROVE d.from \notin Sources(d.to, d.bundle.kind)'
  BY <1>5 DEF Sources, OutOk
<1> QED
  BY <1>1, <1>2, <1>3, <1>4, <1>5

(* The room when a post is tried. *)
LEMMA DeliverRoom ==
  ASSUME Roomy, RoomInv, NEW d \in out, deliver(d)
  PROVE  RoomInv'
<1>1. BoardShape /\ OutOk /\ PushNeverWaits
  BY DEF RoomInv
<1>2. /\ d \in Deliveries /\ d.from \in Operators /\ d.to \in Operators
      /\ d.bundle \in Bundles /\ d.bundle.kind \in Kinds
  BY <1>1 DEF BoardShape, Deliveries, Bundles
<1>3. /\ UNCHANGED <<now, resharing, begin, stage, closed, heard, missing, result>>
  BY DEF deliver, kyberVars
<1>4. d.from \in Sources(d.to, d.bundle.kind)
  BY <1>2 DEF Sources
<1>5. faults \in Nat /\ MaxFaults \in Nat
  BY <1>1, ConstantFacts DEF BoardShape
<1>6. ASSUME out' \subseteq Deliveries, chans' \in [Operators -> [Kinds -> Seq(Bundles)]],
             mu' = mu, faults' \in 0..MaxFaults
      PROVE  BoardShape' /\ PushNeverWaits'
  BY <1>1, <1>3, <1>6 DEF BoardShape, PushNeverWaits
<1>7. ASSUME push(d.to, d.bundle), NEW e \in Deliveries,
             e.from = d.from, e.to = d.to, e.bundle = d.bundle,
             \/ out' = out \ {d} /\ UNCHANGED faults
             \/ Fault /\ (out' = out \ {d} \/ out' = (out \ {d}) \cup {e})
      PROVE  RoomInv'
  <2>1. /\ mu' = mu /\ chans' \in [Operators -> [Kinds -> Seq(Bundles)]]
        /\ Len(chans'[d.to][d.bundle.kind]) = Len(chans[d.to][d.bundle.kind]) + 1
        /\ \A x \in Operators, k \in Kinds :
             x # d.to \/ k # d.bundle.kind => chans'[x][k] = chans[x][k]
    <3> DEFINE b == d.bundle
               p == d.to
    <3>1. p \in Operators /\ b \in Bundles /\ push(p, b) /\ d.from \in Sources(p, b.kind)
      BY <1>2, <1>4, <1>7
    <3> HIDE DEF b, p
    <3>2. /\ mu' = mu /\ chans' \in [Operators -> [Kinds -> Seq(Bundles)]]
          /\ Len(chans'[p][b.kind]) = Len(chans[p][b.kind]) + 1
          /\ \A x \in Operators, k \in Kinds :
               x # p \/ k # b.kind => chans'[x][k] = chans[x][k]
      BY <3>1, Pushed
    <3> QED
      BY <3>2 DEF b, p
  <2>2. /\ out' \subseteq Deliveries /\ OutOk'
        /\ \A p \in Operators, k \in Kinds : Sources(p, k)' \subseteq Sources(p, k)
        /\ out' = out \ {d} => d.from \notin Sources(d.to, d.bundle.kind)'
    BY <1>1, <1>3, <1>7, TriedOut
  <2>3. faults' \in 0..MaxFaults /\ faults' <= faults
    BY <1>1, <1>5, <1>7 DEF Fault, BoardShape
  <2>4. BoardShape' /\ PushNeverWaits'
    BY <1>6, <2>1, <2>2, <2>3
  <2>5. ASSUME NEW x \in Operators, NEW k \in Kinds PROVE RoomOk(x, k)'
    <3>1. CASE x = d.to /\ k = d.bundle.kind
      <4>1. faults' = faults - 1 \/ out' = out \ {d}
        BY <1>7 DEF Fault
      <4>2. \/ \E q \in Sources(x, k) : q \notin Sources(x, k)'
            \/ faults' = faults - 1
        BY <1>4, <2>2, <3>1, <4>1
      <4>3. /\ Sources(x, k)' \subseteq Sources(x, k)
            /\ Len(chans'[x][k]) = Len(chans[x][k]) + 1
        BY <2>1, <2>2, <3>1
      <4> QED
        BY <2>3, <2>4, <4>2, <4>3, RoomStep
    <3>2. CASE x # d.to \/ k # d.bundle.kind
      <4>1. chans'[x][k] = chans[x][k] /\ Len(chans[x][k]) \in Nat
        BY <1>1, <2>1, <3>2, LenProperties DEF BoardShape
      <4>2. Sources(x, k)' \subseteq Sources(x, k) /\ Len(chans'[x][k]) <= Len(chans[x][k])
        BY <2>2, <4>1
      <4> QED
        BY <2>3, <2>4, <4>2, RoomStep
    <3> QED
      BY <3>1, <3>2
  <2> QED
    BY <2>2, <2>4, <2>5 DEF RoomInv
<1>8. ASSUME UNCHANGED <<chans, mu>>, UNCHANGED faults \/ Fault,
             NEW e \in Deliveries, e.from = d.from, e.to = d.to, e.bundle = d.bundle,
             out' = out \ {d} \/ out' = (out \ {d}) \cup {e}
      PROVE  RoomInv'
  <2>1. /\ out' \subseteq Deliveries /\ OutOk'
        /\ \A p \in Operators, k \in Kinds : Sources(p, k)' \subseteq Sources(p, k)
    BY <1>1, <1>3, <1>8, TriedOut
  <2>2. faults' \in 0..MaxFaults /\ faults' <= faults
    BY <1>1, <1>5, <1>8 DEF Fault, BoardShape
  <2>3. BoardShape' /\ PushNeverWaits'
    BY <1>1, <1>6, <1>8, <2>1, <2>2 DEF BoardShape
  <2>4. ASSUME NEW x \in Operators, NEW k \in Kinds PROVE RoomOk(x, k)'
    <3>1. Len(chans'[x][k]) <= Len(chans[x][k])
      BY <1>1, <1>8, LenProperties DEF BoardShape
    <3>2. Sources(x, k)' \subseteq Sources(x, k)
      BY <2>1
    <3> QED
      BY <2>2, <2>3, <3>1, <3>2, RoomStep
  <2> QED
    BY <2>1, <2>3, <2>4 DEF RoomInv
<1>9. ASSUME NEW pause \in 0..1, Retry(d, pause)
      PROVE  \E e \in Deliveries :
               /\ e.from = d.from /\ e.to = d.to /\ e.bundle = d.bundle
               /\ out' = out \ {d} \/ out' = (out \ {d}) \cup {e}
  <2> DEFINE e == [d EXCEPT !.due = now + pause]
  <2>1. /\ out' = out \ {d} \/ out' = (out \ {d}) \cup {e}
        /\ e \in Deliveries /\ e.from = d.from /\ e.to = d.to /\ e.bundle = d.bundle
    BY <1>1, <1>9, RetryOut
  <2> HIDE DEF e
  <2> QED
    BY <2>1
<1>10. CASE push(d.to, d.bundle) /\ out' = out \ {d} /\ UNCHANGED faults
  BY <1>2, <1>7, <1>10
<1>11. CASE push(d.to, d.bundle) /\ Fault /\ \E pause \in 0..1 : Retry(d, pause)
  BY <1>7, <1>9, <1>11
<1>12. CASE Retry(d, 1) /\ UNCHANGED <<chans, mu, faults>>
  BY <1>8, <1>9, <1>12
<1>13. CASE Fault /\ (\E pause \in 0..1 : Retry(d, pause)) /\ UNCHANGED <<chans, mu>>
  BY <1>8, <1>9, <1>13
<1> QED
  BY <1>10, <1>11, <1>12, <1>13 DEF deliver

(* At first every bundle of every participant is still to come. *)
LEMMA RoomInit == CeremonyInit => RoomInv
<1> SUFFICES ASSUME CeremonyInit PROVE RoomInv
  OBVIOUS
<1>1. BoardShape
  <2>1. <<>> \in Seq(Bundles)
    BY EmptySeq
  <2> QED
    BY <2>1, ConstantFacts
    DEF CeremonyInit, BoardShape, Stages, Results, Free
<1>2. PushNeverWaits /\ OutOk
  BY DEF CeremonyInit, PushNeverWaits, OutOk
<1>3. ASSUME NEW p \in Operators, NEW kind \in Kinds PROVE RoomOk(p, kind)
  <2>1. Sources(p, kind) \subseteq Operators
    BY DEF Sources
  <2>2. Cardinality(Sources(p, kind)) \in Nat
        /\ Cardinality(Sources(p, kind)) <= Cardinality(Operators)
    BY <2>1, ConstantFacts, FS_Subset, FS_CardinalityType
  <2>3. Len(chans[p][kind]) = 0 /\ faults = MaxFaults
    BY EmptySeq DEF CeremonyInit
  <2> QED
    BY <2>2, <2>3, ConstantFacts DEF RoomOk
<1> QED
  BY <1>1, <1>2, <1>3 DEF RoomInv

(* A participant takes a bundle: the board's lock is free. *)
LEMMA TakeRoom ==
  ASSUME RoomInv, NEW p \in Operators, NEW kind \in Kinds, Take(p, kind)
  PROVE  /\ RoomInv'
         /\ chans'[p][kind] = Tail(chans[p][kind])
         /\ \A x \in Operators, k \in Kinds : x # p \/ k # kind => chans'[x][k] = chans[x][k]
         /\ heard' = [heard EXCEPT ![p] = @ \cup {chans[p][kind][1]}]
<1>1. BoardShape /\ mu[p] = Free
  BY DEF RoomInv, PushNeverWaits
<1> DEFINE c == chans[p][kind]
<1>2. c \in Seq(Bundles) /\ c # <<>>
  BY <1>1 DEF Take, BoardShape
<1>3. mu' = mu /\ chans' = [chans EXCEPT ![p][kind] = Tail(c)]
  BY <1>1 DEF Take, BoardShape
<1>4. heard' = IF c[1].nonce = NonceOf(p) THEN [heard EXCEPT ![p] = @ \cup {c[1]}] ELSE heard
  BY DEF Take
<1>5. UNCHANGED <<now, resharing, begin, stage, out, closed, missing, result, faults>>
  BY DEF Take
<1> HIDE DEF c
<1>6. Tail(c) \in Seq(Bundles) /\ Len(Tail(c)) = Len(c) - 1 /\ Len(c) \in Nat \ {0}
  BY <1>2, HeadTailProperties, EmptySeq, LenProperties
<1>7. c[1] \in Bundles
  BY <1>2, <1>6, ElementOfSeq
<1>8. heard' = [heard EXCEPT ![p] = @ \cup {c[1]}]
  BY <1>4, <1>7, NonceIs DEF Bundles
<1> DEFINE t == Tail(c)
<1>9. t \in Seq(Bundles) /\ chans' = [chans EXCEPT ![p][kind] = t]
  BY <1>3, <1>6
<1> HIDE DEF t
<1>10. /\ chans'[p][kind] = t /\ chans' \in [Operators -> [Kinds -> Seq(Bundles)]]
      /\ \A x \in Operators, k \in Kinds : x # p \/ k # kind => chans'[x][k] = chans[x][k]
  BY <1>1, <1>9 DEF BoardShape
<1>11. BoardShape'
  BY <1>1, <1>3, <1>5, <1>7, <1>8, <1>10 DEF BoardShape
<1>12. ASSUME NEW x \in Operators, NEW k \in Kinds
       PROVE  Len(chans'[x][k]) <= Len(chans[x][k])
  <2>1. CASE x = p /\ k = kind
    <3>1. chans'[x][k] = Tail(c) /\ chans[x][k] = c
      BY <1>10, <2>1 DEF c, t
    <3>2. Len(Tail(c)) <= Len(c)
      BY <1>6
    <3> QED
      BY <3>1, <3>2
  <2>2. CASE x # p \/ k # kind
    BY <1>1, <1>10, <2>2, LenProperties DEF BoardShape
  <2> QED
    BY <2>1, <2>2
<1>13. faults' <= faults
  BY <1>1, <1>5, ConstantFacts DEF BoardShape
<1>14. RoomInv'
  BY <1>3, <1>5, <1>11, <1>12, <1>13, QuietRoom
<1> QED
  BY <1>8, <1>10, <1>14 DEF c, t

(* The other steps, but for the pushes. *)
LEMMA ElseRoom ==
  ASSUME RoomInv, KeyShape', UNCHANGED <<resharing, begin, chans, mu, heard>>,
         now' \in Nat, out' \subseteq out, faults' \in 0..MaxFaults, faults' <= faults,
         closed' \in [Operators -> BOOLEAN], missing' \in [Operators -> SUBSET Operators],
         \A q \in Operators, k \in Kinds : stage'[q] \in Early(k) => stage[q] \in Early(k)
  PROVE  RoomInv'
<1>1. BoardShape
  BY DEF RoomInv
<1>2. BoardShape'
  BY <1>1 DEF BoardShape, KeyShape
<1>3. \A x \in Operators, k \in Kinds : Len(chans'[x][k]) <= Len(chans[x][k])
  BY <1>1, LenProperties DEF BoardShape
<1> QED
  BY <1>2, <1>3, QuietRoom

(* A process goes from stage to stage, and never back before a push. *)
LEMMA StageOrder ==
  ASSUME KeyShape, NEW p \in Operators, NEW s, stage' = [stage EXCEPT ![p] = s],
         \/ s \notin {"off", "deal", "respond"}
         \/ stage[p] = "off" /\ s = "deal"
         \/ stage[p] = "deal" /\ s = "respond"
  PROVE  \A q \in Operators, k \in Kinds : stage'[q] \in Early(k) => stage[q] \in Early(k)
<1>1. stage'[p] = s /\ \A q \in Operators \ {p} : stage'[q] = stage[q]
  BY DEF KeyShape
<1>2. ASSUME NEW k \in Kinds, s \in Early(k) PROVE stage[p] \in Early(k)
  BY <1>2 DEF Early, Kinds
<1> QED
  BY <1>1, <1>2

(* Every step leaves room for what may still come. *)
LEMMA RoomNext ==
  ASSUME Roomy, KeyInv, RoomInv, [CeremonyNext]_ceremonyVars
  PROVE  RoomInv'
<1>1. BoardShape /\ KeyShape /\ KeyShape'
  BY KeyStep DEF RoomInv, KeyInv
<1>2. faults \in Nat /\ MaxFaults \in Nat /\ faults <= MaxFaults
  BY <1>1, ConstantFacts DEF BoardShape
<1>3. Fault => faults' \in 0..MaxFaults /\ faults' <= faults
  BY <1>2 DEF Fault
<1>4. UNCHANGED faults => faults' \in 0..MaxFaults /\ faults' <= faults
  BY <1>2
<1>5. /\ now \in Nat /\ closed \in [Operators -> BOOLEAN]
      /\ missing \in [Operators -> SUBSET Operators]
  BY <1>1 DEF BoardShape
<1>6. ASSUME NEW p \in Operators, NEW s \in {"deal", "respond", "justify", "over"},
             NEW kind \in Kinds, NEW about \in SUBSET Operators,
             stage[p] \in Early(kind), s \notin Early(kind),
             \/ s \notin {"off", "deal", "respond"}
             \/ stage[p] = "off" /\ s = "deal"
             \/ stage[p] = "deal" /\ s = "respond",
             Push(p, Bundle(p, kind, about)),
             stage' = [stage EXCEPT ![p] = s],
             missing' \in [Operators -> SUBSET Operators],
             UNCHANGED <<now, resharing, begin, closed, heard, faults>>
      PROVE  RoomInv'
  <2> DEFINE b == Bundle(p, kind, about)
  <2>1. b \in Bundles /\ b.from = p /\ b.kind = kind /\ Push(p, b)
    BY <1>6, BundleIs
  <2> HIDE DEF b
  <2>2. \A k \in Kinds : s \in Early(k) => stage[p] \in Early(k)
    BY <1>1, <1>6, StageOrder DEF KeyShape
  <2>3. s \in Stages \ Early(b.kind) /\ stage[p] \in Early(b.kind)
    BY <1>6, <2>1 DEF Stages
  <2>4. result' \in [Operators -> Results]
    BY <1>1 DEF KeyShape
  <2> QED
    BY <1>6, <2>1, <2>2, <2>3, <2>4, PushRoom
<1>7. ASSUME NEW p \in Operators, NEW s,
             \/ s \notin {"off", "deal", "respond"}
             \/ stage[p] = "off" /\ s = "deal"
             \/ stage[p] = "deal" /\ s = "respond",
             stage' = [stage EXCEPT ![p] = s], out' \subseteq out,
             Fault \/ UNCHANGED faults,
             closed' \in [Operators -> BOOLEAN],
             missing' \in [Operators -> SUBSET Operators],
             UNCHANGED <<now, resharing, begin, chans, mu, heard>>
      PROVE  RoomInv'
  <2>1. \A q \in Operators, k \in Kinds : stage'[q] \in Early(k) => stage[q] \in Early(k)
    BY <1>1, <1>7, StageOrder
  <2>2. now' \in Nat /\ faults' \in 0..MaxFaults /\ faults' <= faults
    BY <1>3, <1>4, <1>5, <1>7
  <2> QED
    BY <1>1, <1>7, <2>1, <2>2, ElseRoom
<1>8. ASSUME NEW p \in Operators, Start(p) PROVE RoomInv'
  <2>1. stage[p] = "off" /\ stage' = [stage EXCEPT ![p] = "deal"]
        /\ UNCHANGED <<now, resharing, begin, closed, heard, missing, faults>>
    BY <1>8 DEF Start, kyberVars
  <2>2. CASE p \in Dealers
    <3>1. Push(p, Bundle(p, "deals", {}))
      BY <1>8, <2>2 DEF Start
    <3>2. /\ "deals" \in Kinds /\ {} \in SUBSET Operators
          /\ stage[p] \in Early("deals") /\ "deal" \notin Early("deals")
          /\ missing' \in [Operators -> SUBSET Operators]
      BY <1>5, <2>1 DEF Early, Kinds
    <3> QED
      BY <1>6, <2>1, <3>1, <3>2
  <2>3. CASE p \notin Dealers
    BY <1>5, <1>7, <1>8, <2>1, <2>3 DEF Start
  <2> QED
    BY <2>2, <2>3
<1>9. ASSUME NEW p \in Operators, Respond(p) PROVE RoomInv'
  <2> DEFINE none == Dealers \ From(p, "deals")
  <2>1. stage[p] = "deal" /\ stage' = [stage EXCEPT ![p] = "respond"]
        /\ UNCHANGED <<now, resharing, begin, closed, heard, faults>>
        /\ missing' = [missing EXCEPT ![p] = none]
        /\ IF none # {} THEN Push(p, Bundle(p, "responses", none))
           ELSE UNCHANGED <<out, chans, mu>>
    BY <1>9 DEF Respond
  <2>2. none \subseteq Operators
    BY ConstantFacts
  <2> HIDE DEF none
  <2>3. missing' \in [Operators -> SUBSET Operators]
    BY <1>5, <2>1, <2>2
  <2>4. CASE none # {}
    BY <1>6, <2>1, <2>2, <2>3, <2>4 DEF Early, Kinds
  <2>5. CASE none = {}
    BY <1>5, <1>7, <2>1, <2>3, <2>5
  <2> QED
    BY <2>4, <2>5
<1>10. ASSUME NEW p \in Operators, Justify(p) PROVE RoomInv'
  <2>1. stage[p] = "respond"
        /\ UNCHANGED <<now, resharing, begin, closed, heard, missing, faults>>
    BY <1>10 DEF Justify
  <2>2. CASE Push(p, Bundle(p, "justifications", {})) /\ stage' = [stage EXCEPT ![p] = "justify"]
    <3>1. /\ "justifications" \in Kinds /\ {} \in SUBSET Operators
          /\ stage[p] \in Early("justifications") /\ "justify" \notin Early("justifications")
          /\ missing' \in [Operators -> SUBSET Operators]
      BY <1>5, <2>1 DEF Early, Kinds
    <3> QED
      BY <1>6, <2>1, <2>2, <3>1
  <2>3. CASE UNCHANGED <<out, chans, mu>>
    <3>1. PICK s \in {"justify", "over"} : stage' = [stage EXCEPT ![p] = s]
      BY <1>10 DEF Justify
    <3> QED
      BY <1>5, <1>7, <2>1, <2>3, <3>1
  <2> QED
    BY <1>10, <2>2, <2>3 DEF Justify
<1>11. ASSUME NEW p \in Operators, Finish(p) \/ Interrupt(p) PROVE RoomInv'
  BY <1>5, <1>7, <1>11 DEF Finish, Interrupt, boardVars
<1>12. ASSUME NEW p \in Operators, Close(p) PROVE RoomInv'
  BY <1>5, <1>7, <1>12 DEF Close, kyberVars
<1>13. ASSUME NEW p \in Operators, Waited(p) \/ WriteTmp(p) \/ Rename(p) PROVE RoomInv'
  <2>1. PICK s \in {"saving", "writing", "written", "done", "failed"} :
          stage' = [stage EXCEPT ![p] = s]
    BY <1>13 DEF Waited, WriteTmp, Rename, Fail
  <2>2. UNCHANGED <<now, resharing, begin, boardVars, kyberVars>>
        /\ (Fault \/ UNCHANGED faults)
    BY <1>13 DEF Waited, WriteTmp, Rename
  <2> QED
    BY <1>5, <1>7, <2>1, <2>2 DEF boardVars, kyberVars
<1>14. ASSUME NEW p \in Operators, Crash(p) PROVE RoomInv'
  BY <1>5, <1>7, <1>14 DEF Crash, kyberVars
<1>15. CASE Tick \/ UNCHANGED ceremonyVars
  <2>1. UNCHANGED <<resharing, begin, stage, out, chans, mu, closed, heard, missing, faults>>
        /\ now' \in Nat
    BY <1>5, <1>15 DEF Tick, ceremonyVars, boardVars, kyberVars
  <2> QED
    BY <1>1, <1>4, <1>5, <2>1, ElseRoom
<1> QED
  BY <1>8, <1>9, <1>10, <1>11, <1>12, <1>13, <1>14, <1>15, DeliverRoom, TakeRoom
  DEF CeremonyNext, Work

(* As long as only participants post and no more answers are lost than there *)
(* is room for: the channels take every bundle at once, so no push ever      *)
(* holds the board's lock while it waits (push in board.go, the buffer that  *)
(* Run asks for). *)
THEOREM PushTheorem == ASSUME Roomy PROVE CeremonySpec => []PushNeverWaits
<1>1. CeremonyInit => KeyInv /\ RoomInv
  BY KeyInit, RoomInit
<1>2. KeyInv /\ RoomInv /\ [CeremonyNext]_ceremonyVars => (KeyInv /\ RoomInv)'
  BY KeyStep, RoomNext
<1>3. RoomInv => PushNeverWaits
  BY DEF RoomInv
<1> QED
  BY <1>1, <1>2, <1>3, PTL DEF CeremonySpec

-----------------------------------------------------------------------------
(* The deals come in time. *)

(* HeardInTime's condition in numbers: there is a phase for a deal to come  *)
(* in, and its dealer goes on trying for as long. *)
LEMMA InTimeFacts ==
  ASSUME BoardShape, NEW p \in Operators, NEW q \in Operators, InTime(p, q)
  PROVE  /\ begin[p] \in Nat /\ begin[q] \in Nat /\ now \in Nat
         /\ Spent \in Nat /\ 1 <= Spent
         /\ Latest(p, q) \in Nat
         /\ begin[p] + 1 <= Latest(p, q) /\ begin[q] + 1 <= Latest(p, q)
         /\ Latest(p, q) < begin[p] + Phase
         /\ Latest(p, q) <= begin[q] + Phase
         /\ Latest(p, q) <= begin[q] + RetryWindow
         /\ Latest(p, q) < begin[q] + 2 * Phase
<1>1. begin[p] \in Nat /\ begin[q] \in Nat /\ now \in Nat
  BY DEF BoardShape, InTime, Sound, Never
<1>2. faults \in Nat /\ MaxFaults \in Nat /\ faults <= MaxFaults
  BY ConstantFacts DEF BoardShape
<1>3. Spent \in Nat /\ 1 <= Spent
  BY <1>2 DEF Spent
<1> HIDE DEF Spent
<1>4. Phase \in Nat /\ RetryWindow \in Nat /\ RetryWindow >= Phase
  BY ConstantFacts
<1>5. /\ Latest(p, q) \in Nat
      /\ begin[p] + 1 <= Latest(p, q) /\ begin[q] + 1 <= Latest(p, q)
  BY <1>1, <1>3 DEF Latest
<1>6. Latest(p, q) < begin[p] + Phase /\ Latest(p, q) <= begin[q] + Phase
  BY <1>1, <1>3, <1>4 DEF Latest, InTime
<1>7. Phase > 0
  BY <1>1, <1>4, <1>5, <1>6
<1> HIDE DEF Latest
<1> QED
  BY <1>1, <1>3, <1>4, <1>5, <1>6, <1>7

(* How the last moment moves in a step: a fault costs a tick. *)
Extended(p, q) ==
  /\ InTime(p, q) /\ InTime(p, q)'
  /\ Latest(p, q) \in Nat /\ Latest(p, q)' \in Nat
  /\ Latest(p, q) <= Latest(p, q)'
  /\ faults' < faults => Latest(p, q) + 1 <= Latest(p, q)'
  /\ Latest(p, q)' <= begin[q] + RetryWindow

(* What is in time after a step was so before. *)
LEMMA InTimeBefore ==
  ASSUME BoardShape, BoardShape', NEW p \in Operators, NEW q \in Operators, InTime(p, q)',
         begin' = begin, faults' <= faults,
         Sound(p)' => Sound(p), Sound(q)' => Sound(q)
  PROVE  Extended(p, q)
<1>1. Sound(p) /\ Sound(q)
  BY DEF InTime
<1>2. begin[p] \in Nat /\ begin[q] \in Nat
  BY <1>1 DEF BoardShape, Sound, Never
<1>3. faults \in Nat /\ faults' \in Nat /\ MaxFaults \in Nat /\ Phase \in Nat
      /\ faults <= MaxFaults /\ faults' <= MaxFaults
  BY ConstantFacts DEF BoardShape
<1> DEFINE f == faults
           g == faults'
           m == 1 + MaxFaults - f
           n == 1 + MaxFaults - g
<1>4. Spent = m /\ Spent' = n
  BY DEF Spent
<1>5. f \in Nat /\ g \in Nat /\ MaxFaults \in Nat /\ f <= MaxFaults /\ g <= MaxFaults /\ g <= f
  BY <1>3
<1> HIDE DEF f, g
<1>6. m \in Nat /\ n \in Nat /\ m <= n /\ (g < f => m + 1 <= n)
  BY <1>5
<1>7. /\ Latest(p, q) \in Nat /\ Latest(p, q)' \in Nat
      /\ Latest(p, q) <= Latest(p, q)' /\ (faults' < faults => Latest(p, q) + 1 <= Latest(p, q)')
  BY <1>2, <1>4, <1>6 DEF Latest, f, g
<1>8. /\ (IF begin[q] > begin[p] THEN begin[q] - begin[p] ELSE 0) + Spent < Phase
      /\ (IF begin[p] > begin[q] THEN begin[p] - begin[q] ELSE 0) + Spent <= Phase
  BY <1>2, <1>3, <1>4, <1>6 DEF InTime
<1>9. Latest(p, q)' <= begin[q] + RetryWindow
  <2>1. /\ (IF begin[q] > begin[p] THEN begin[q] - begin[p] ELSE 0) + n < Phase
        /\ (IF begin[p] > begin[q] THEN begin[p] - begin[q] ELSE 0) + n <= Phase
    BY <1>4 DEF InTime
  <2>2. Latest(p, q)' = (IF begin[p] > begin[q] THEN begin[p] ELSE begin[q]) + n
    BY <1>4 DEF Latest
  <2>3. RetryWindow \in Nat /\ RetryWindow >= Phase
    BY ConstantFacts
  <2> HIDE DEF n
  <2> QED
    BY <1>2, <1>3, <1>6, <2>1, <2>2, <2>3
<1> QED
  BY <1>1, <1>7, <1>8, <1>9 DEF InTime, Extended

(* HeardInTime in these terms. *)
LEMMA HeardIs ==
  HeardInTime <=> \A p, q \in Operators : InTime(p, q) => q \notin missing[p]
<1>1. ASSUME NEW p \in Operators, NEW q \in Operators
      PROVE  InTime(p, q) <=>
               LET lost == 1 + MaxFaults - faults
                   late == IF begin[q] > begin[p] THEN begin[q] - begin[p] ELSE 0
                   wait == IF begin[p] > begin[q] THEN begin[p] - begin[q] ELSE 0
               IN Sound(p) /\ Sound(q) /\ late + lost < Phase /\ wait + lost <= Phase
  BY DEF InTime, Spent
<1> QED
  BY <1>1 DEF HeardInTime

(* No process goes back before a push, whatever the step. *)
LEMMA StageMono ==
  ASSUME KeyShape, [CeremonyNext]_ceremonyVars
  PROVE  \A q \in Operators, k \in Kinds : stage'[q] \in Early(k) => stage[q] \in Early(k)
<1> SUFFICES ASSUME NEW x \in Operators, NEW kind \in Kinds,
                    stage'[x] \in Early(kind), stage[x] \notin Early(kind)
             PROVE  FALSE
  OBVIOUS
<1>1. ASSUME NEW p \in Operators, NEW s, stage' = [stage EXCEPT ![p] = s],
             \/ s \notin {"off", "deal", "respond"}
             \/ stage[p] = "off" /\ s = "deal"
             \/ stage[p] = "deal" /\ s = "respond"
      PROVE  FALSE
  BY <1>1, StageOrder
<1>2. UNCHANGED stage => FALSE
  OBVIOUS
<1>3. ASSUME NEW d, deliver(d) PROVE FALSE
  BY <1>2, <1>3 DEF deliver
<1>4. ASSUME NEW p \in Operators, NEW k \in Kinds, Take(p, k) PROVE FALSE
  BY <1>2, <1>4 DEF Take
<1>5. ASSUME NEW p \in Operators, Start(p) \/ Respond(p) PROVE FALSE
  BY <1>1, <1>5 DEF Start, Respond
<1>6. ASSUME NEW p \in Operators,
             Justify(p) \/ Finish(p) \/ Interrupt(p) \/ Close(p) \/ Waited(p) \/ WriteTmp(p)
             \/ Rename(p) \/ Crash(p)
      PROVE  FALSE
  <2>1. PICK s \in {"justify", "over", "closing", "saving", "writing", "written", "done",
                    "failed", "crashed"} : stage' = [stage EXCEPT ![p] = s]
    BY <1>6 DEF Justify, Finish, Interrupt, Close, Waited, WriteTmp, Rename, Crash, Fail
  <2> QED
    BY <1>1, <2>1
<1>7. CASE Tick \/ UNCHANGED ceremonyVars
  BY <1>2, <1>7 DEF Tick, ceremonyVars
<1> QED
  BY <1>3, <1>4, <1>5, <1>6, <1>7 DEF CeremonyNext, Work

(* A participant that takes no part in a step. *)
LEMMA StageStays ==
  ASSUME NEW x \in Operators, StageOk(x), now' = now, begin' = begin,
         stage'[x] = stage[x], result'[x] = result[x], closed'[x] = closed[x],
         missing'[x] = missing[x]
  PROVE  StageOk(x)' /\ (Sound(x)' => Sound(x))
BY DEF StageOk, Sound

(* What has to be done by now is done, and who is in order was so before. *)
LEMMA StageNext ==
  ASSUME KeyInv, TimeInv, [CeremonyNext]_ceremonyVars,
         NEW x \in Operators
  PROVE  StageOk(x)' /\ (Sound(x)' => Sound(x))
<1>1. BoardShape /\ StageOk(x) /\ KeyShape
  BY DEF TimeInv, RoomInv, KeyInv
<1>2. /\ stage \in [Operators -> Stages] /\ result \in [Operators -> Results]
      /\ closed \in [Operators -> BOOLEAN] /\ missing \in [Operators -> SUBSET Operators]
      /\ now \in Nat /\ begin[x] \in Nat \cup {Never} /\ Phase \in Nat
  BY <1>1, ConstantFacts DEF BoardShape
<1>3. ASSUME UNCHANGED <<now, begin, stage, result, closed, missing>>
      PROVE  StageOk(x)' /\ (Sound(x)' => Sound(x))
  BY <1>1, <1>3, StageStays
<1>4. ASSUME NEW p \in Operators, x # p, NEW s, stage' = [stage EXCEPT ![p] = s],
             now' = now, begin' = begin, result'[x] = result[x], closed'[x] = closed[x],
             missing'[x] = missing[x]
      PROVE  StageOk(x)' /\ (Sound(x)' => Sound(x))
  <2>1. stage'[x] = stage[x]
    BY <1>2, <1>4
  <2> QED
    BY <1>1, <1>4, <2>1, StageStays
<1>5. ASSUME NEW d, deliver(d) PROVE StageOk(x)' /\ (Sound(x)' => Sound(x))
  BY <1>3, <1>5 DEF deliver, kyberVars
<1>6. ASSUME NEW p \in Operators, NEW k \in Kinds, Take(p, k)
      PROVE  StageOk(x)' /\ (Sound(x)' => Sound(x))
  BY <1>3, <1>6 DEF Take
<1>7. ASSUME NEW p \in Operators, Start(p) PROVE StageOk(x)' /\ (Sound(x)' => Sound(x))
  <2>1. /\ stage[p] = "off" /\ begin[p] # Never /\ stage' = [stage EXCEPT ![p] = "deal"]
        /\ UNCHANGED <<now, begin, closed, result, missing>>
    BY <1>7 DEF Start, kyberVars
  <2>2. CASE x = p
    <3>1. stage'[x] = "deal"
      BY <1>2, <2>1, <2>2
    <3> QED
      BY <1>1, <1>2, <2>1, <2>2, <3>1 DEF StageOk, Sound, Running
  <2> QED
    BY <1>4, <2>1, <2>2
<1>8. ASSUME NEW p \in Operators, Respond(p) PROVE StageOk(x)' /\ (Sound(x)' => Sound(x))
  <2>1. /\ stage[p] = "deal" /\ stage' = [stage EXCEPT ![p] = "respond"]
        /\ UNCHANGED <<now, begin, closed, result>>
    BY <1>8 DEF Respond
  <2>2. CASE x = p
    <3>1. stage'[x] = "respond"
      BY <1>2, <2>1, <2>2
    <3> QED
      BY <1>1, <1>2, <2>1, <2>2, <3>1 DEF StageOk, Sound, Running
  <2>3. CASE x # p
    <3>1. missing'[x] = missing[x]
      BY <1>2, <1>8, <2>3 DEF Respond
    <3> QED
      BY <1>4, <2>1, <2>3, <3>1
  <2> QED
    BY <2>2, <2>3
<1>9. ASSUME NEW p \in Operators, Justify(p) \/ Finish(p) \/ Interrupt(p)
      PROVE  StageOk(x)' /\ (Sound(x)' => Sound(x))
  <2>1. /\ stage[p] \in Running /\ UNCHANGED <<now, begin, closed, missing>>
    BY <1>9 DEF Justify, Finish, Interrupt, Running, boardVars
  <2>2. CASE stage' = [stage EXCEPT ![p] = "justify"] /\ UNCHANGED result
    <3>1. CASE x = p
      <4>1. stage'[x] = "justify"
        BY <1>2, <2>2, <3>1
      <4> QED
        BY <1>1, <1>2, <2>1, <2>2, <3>1, <4>1 DEF StageOk, Sound, Running
    <3> QED
      BY <1>4, <2>1, <2>2, <3>1
  <2>3. ASSUME NEW r \in {"share", "error"}, stage' = [stage EXCEPT ![p] = "over"],
               result' = [result EXCEPT ![p] = r], r = "share" => now >= begin[p] + 2 * Phase
        PROVE  StageOk(x)' /\ (Sound(x)' => Sound(x))
    <3>1. CASE x = p
      <4>1. stage'[x] = "over" /\ result'[x] = r
        BY <1>2, <2>3, <3>1
      <4>2. stage[x] # "off" /\ stage[x] # "crashed" /\ result[x] = "none" /\ begin[x] # Never
        BY <1>1, <2>1, <3>1 DEF StageOk, Running
      <4> QED
        BY <2>1, <2>3, <3>1, <4>1, <4>2 DEF StageOk, Sound, Running
    <3>2. CASE x # p
      BY <1>2, <1>4, <2>1, <2>3, <3>2
    <3> QED
      BY <3>1, <3>2
  <2>4. CASE Justify(p)
    BY <2>2, <2>3, <2>4 DEF Justify, Due
  <2>5. CASE Finish(p)
    <3>1. PICK r \in {"share", "error"} : result' = [result EXCEPT ![p] = r]
      BY <2>5 DEF Finish
    <3>2. now >= begin[p] + 2 * Phase
      <4>1. begin[p] \in Nat \cup {Never} /\ now >= begin[p] + 3 * Phase
        BY <1>1, <2>5 DEF Finish, Due, BoardShape
      <4> QED
        BY <1>2, <4>1 DEF Never
    <3> QED
      BY <2>3, <2>5, <3>1, <3>2 DEF Finish
  <2>6. CASE Interrupt(p)
    BY <2>3, <2>6 DEF Interrupt
  <2> QED
    BY <1>9, <2>4, <2>5, <2>6
<1>10. ASSUME NEW p \in Operators, Close(p) PROVE StageOk(x)' /\ (Sound(x)' => Sound(x))
  <2>1. /\ stage[p] = "over" /\ stage' = [stage EXCEPT ![p] = "closing"]
        /\ closed' = [closed EXCEPT ![p] = TRUE] /\ UNCHANGED <<now, begin, result, missing>>
    BY <1>10 DEF Close, kyberVars
  <2>2. CASE x = p
    <3>1. stage'[x] = "closing" /\ closed'[x] = TRUE
      BY <1>2, <2>1, <2>2
    <3> QED
      BY <1>1, <2>1, <2>2, <3>1 DEF StageOk, Sound, Running
  <2>3. CASE x # p
    BY <1>2, <1>4, <2>1, <2>3
  <2> QED
    BY <2>2, <2>3
<1>11. ASSUME NEW p \in Operators, Waited(p) \/ WriteTmp(p) \/ Rename(p) \/ Crash(p)
       PROVE  StageOk(x)' /\ (Sound(x)' => Sound(x))
  <2>1. PICK s \in {"saving", "writing", "written", "done", "failed", "crashed"} :
          stage' = [stage EXCEPT ![p] = s]
    BY <1>11 DEF Waited, WriteTmp, Rename, Crash, Fail
  <2>2. UNCHANGED <<now, begin, closed, result, missing>> /\ stage[p] # "off"
        /\ stage[p] # "crashed"
    BY <1>11 DEF Waited, WriteTmp, Rename, Crash, Listening, Running, boardVars, kyberVars
  <2>3. CASE x = p
    <3>1. stage'[x] = s
      BY <1>2, <2>1, <2>3
    <3> QED
      BY <1>1, <2>1, <2>2, <2>3, <3>1 DEF StageOk, Sound, Running
  <2> QED
    BY <1>4, <2>1, <2>2, <2>3
<1>12. CASE Tick
  <2>1. /\ UNCHANGED <<begin, stage, closed, result, missing>> /\ now' = now + 1
    BY <1>12 DEF Tick, boardVars, kyberVars
  <2>2. stage[x] = "off" /\ begin[x] # Never => ~Due(x, 0)
    BY <1>12 DEF Tick, Urgent
  <2>3. stage[x] = "off" /\ begin[x] # Never => now + 1 <= begin[x]
    BY <1>2, <2>2 DEF Due
  <2>4. result[x] = "share" => now + 1 >= begin[x] + 2 * Phase
    BY <1>1, <1>2 DEF StageOk, Never
  <2> QED
    BY <1>1, <2>1, <2>3, <2>4 DEF StageOk, Sound
<1>13. CASE UNCHANGED ceremonyVars
  BY <1>3, <1>13 DEF ceremonyVars, boardVars, kyberVars
<1> QED
  BY <1>5, <1>6, <1>7, <1>8, <1>9, <1>10, <1>11, <1>12, <1>13 DEF CeremonyNext, Work

(* No post is overdue. *)
LEMMA DueNext ==
  ASSUME TimeInv, [CeremonyNext]_ceremonyVars
  PROVE  \A d \in out' : now' <= d.due
<1>1. BoardShape /\ PushNeverWaits /\ \A d \in out : now <= d.due
  BY DEF TimeInv, RoomInv
<1>2. now \in Nat /\ \A d \in out : d \in Deliveries /\ d.due \in Nat
  BY <1>1 DEF BoardShape, Deliveries
<1> SUFFICES ASSUME NEW e \in out', ~(now' <= e.due) PROVE FALSE
  OBVIOUS
<1>3. now' = now /\ out' \subseteq out => FALSE
  BY <1>1
<1>4. ASSUME NEW d \in out, deliver(d) PROVE FALSE
  <2>1. now' = now
    BY <1>4 DEF deliver
  <2>2. ASSUME NEW pause \in 0..1, Retry(d, pause) PROVE FALSE
    <3> DEFINE f == [d EXCEPT !.due = now + pause]
    <3>1. /\ out' = out \ {d} \/ out' = (out \ {d}) \cup {f}
          /\ f.due = now + pause
      BY <1>1, <2>2, RetryOut
    <3> HIDE DEF f
    <3>2. e \in out \/ e = f
      BY <3>1
    <3> QED
      BY <1>1, <1>2, <2>1, <3>1, <3>2
  <2> QED
    BY <1>3, <1>4, <2>1, <2>2 DEF deliver
<1>5. ASSUME NEW p \in Operators, NEW b, Push(p, b), now' = now PROVE FALSE
  <2>1. e \in out \/ e \in Outgoing(p, b)
    BY <1>5 DEF Push
  <2>2. e \in Outgoing(p, b) => e.due = now
    BY DEF Outgoing
  <2> QED
    BY <1>1, <1>2, <1>5, <2>1, <2>2
<1>6. ASSUME NEW p \in Operators, NEW k \in Kinds, Take(p, k) PROVE FALSE
  BY <1>3, <1>6 DEF Take
<1>7. ASSUME NEW p \in Operators, Start(p) \/ Respond(p) \/ Justify(p) PROVE FALSE
  <2>1. now' = now /\ (out' = out \/ \E b : Push(p, b))
    BY <1>7 DEF Start, Respond, Justify
  <2> QED
    BY <1>3, <1>5, <2>1
<1>8. ASSUME NEW p \in Operators,
             Finish(p) \/ Interrupt(p) \/ Close(p) \/ Waited(p) \/ WriteTmp(p) \/ Rename(p)
             \/ Crash(p)
      PROVE  FALSE
  BY <1>3, <1>8 DEF Finish, Interrupt, Close, Waited, WriteTmp, Rename, Crash, boardVars
<1>9. CASE Tick
  <2>1. out' = out /\ now' = now + 1 /\ ~Urgent
    BY <1>9 DEF Tick, boardVars
  <2>2. mu[e.from] = Free
    BY <1>1, <1>2, <2>1 DEF PushNeverWaits, Deliveries
  <2>3. ~(e.due <= now)
    BY <2>1, <2>2 DEF Urgent
  <2> QED
    BY <1>2, <2>1, <2>3
<1>10. CASE UNCHANGED ceremonyVars
  BY <1>3, <1>10 DEF ceremonyVars, boardVars
<1> QED
  BY <1>4, <1>6, <1>7, <1>8, <1>9, <1>10 DEF CeremonyNext, Work

(* A deal on its way stays on it when its post is not the one tried. *)
LEMMA WayStays ==
  ASSUME BoardShape, NEW p \in Operators, NEW q \in Operators, begin' = begin,
         Extended(p, q), NEW d \in out, d \in out',
         d.from = q, d.to = p, d.bundle = Deal(q), d.deadline = begin[q] + RetryWindow,
         d.due <= Latest(p, q)
  PROVE  DealOk(p, q)'
<1>1. Deal(q)' = Deal(q) /\ d.due \in Nat
  BY DEF Deal, BoardShape, Deliveries
<1>2. d.due <= Latest(p, q)'
  BY <1>1 DEF Extended
<1>3. OnItsWay(p, q)'
  BY <1>1, <1>2 DEF OnItsWay
<1> QED
  BY <1>3 DEF DealOk

(* A deal in its channel or heard stays there when nobody takes it and time *)
(* stands still. *)
LEMMA DealStays ==
  ASSUME BoardShape, NEW p \in Operators, NEW q \in Operators, DealOk(p, q),
         now' = now, begin' = begin, Extended(p, q),
         stage[q] = "off" => DealOk(p, q)',
         stage[p] = "deal" => stage'[p] = "deal",
         OnItsWay(p, q) => DealOk(p, q)',
         \A i \in 1..Len(chans[p]["deals"]) :
           /\ i \in 1..Len(chans'[p]["deals"])
           /\ chans'[p]["deals"][i] = chans[p]["deals"][i],
         heard[p] \subseteq heard'[p]
  PROVE  DealOk(p, q)'
<1>1. now \in Nat /\ Deal(q)' = Deal(q)
  BY DEF BoardShape, Deal
<1>2. CASE InChannel(p, q)
  <2>1. stage'[p] = "deal" /\ now' <= Latest(p, q)'
    BY <1>1, <1>2 DEF InChannel, Extended
  <2>2. PICK i \in 1..Len(chans[p]["deals"]) : chans[p]["deals"][i] = Deal(q)
    BY <1>2 DEF InChannel
  <2>3. i \in 1..Len(chans'[p]["deals"]) /\ chans'[p]["deals"][i] = Deal(q)'
    BY <1>1, <2>2
  <2>4. InChannel(p, q)'
    BY <2>1, <2>3 DEF InChannel
  <2> QED
    BY <2>4 DEF DealOk
<1>3. CASE Deal(q) \in heard[p]
  BY <1>1, <1>3 DEF DealOk
<1> QED
  BY <1>2, <1>3 DEF DealOk

(* A push adds behind what is in the channels. *)
LEMMA PushGrows ==
  ASSUME BoardShape, NEW p \in Operators, NEW b \in Bundles, push(p, b),
         NEW x \in Operators, NEW k \in Kinds, NEW i \in 1..Len(chans[x][k])
  PROVE  i \in 1..Len(chans'[x][k]) /\ chans'[x][k][i] = chans[x][k][i]
<1>1. b.kind \in Kinds /\ chans \in [Operators -> [Kinds -> Seq(Bundles)]]
  BY DEF Bundles, BoardShape
<1>2. CASE UNCHANGED chans
  BY <1>2
<1>3. CASE chans' = [chans EXCEPT ![p][b.kind] = Append(@, b)]
  <2> DEFINE c == chans[x][k]
  <2>1. c \in Seq(Bundles)
    BY <1>1
  <2>2. chans'[x][k] = c \/ chans'[x][k] = Append(c, b)
    BY <1>1, <1>3
  <2>3. i \in 1..Len(c)
    OBVIOUS
  <2> HIDE DEF c
  <2>4. i \in 1..Len(Append(c, b)) /\ Append(c, b)[i] = c[i]
    BY <2>1, <2>3, AppendProperties, LenProperties
  <2> QED
    BY <2>2, <2>3, <2>4 DEF c
<1> QED
  BY <1>2, <1>3 DEF push

(* The dealer of a deal that can still come in time has not closed its      *)
(* board, which gives up the posts. *)
LEMMA DealerOpen ==
  ASSUME TimeInv, NEW p \in Operators, NEW q \in Operators, InTime(p, q),
         now <= Latest(p, q)
  PROVE  ~closed[q]
<1>1. BoardShape /\ StageOk(q)
  BY DEF TimeInv, RoomInv
<1>2. result[q] \in Results /\ result[q] # "error"
  BY <1>1 DEF BoardShape, InTime, Sound
<1>3. ~(now >= begin[q] + 2 * Phase)
  <2>1. /\ begin[q] \in Nat /\ now \in Nat /\ Latest(p, q) \in Nat
        /\ Latest(p, q) < begin[q] + 2 * Phase
    BY <1>1, InTimeFacts
  <2>2. Phase \in Nat
    BY ConstantFacts
  <2> HIDE DEF Latest
  <2> QED
    BY <2>1, <2>2
<1> QED
  BY <1>1, <1>2, <1>3 DEF StageOk, Results

(* The deal when its post is put off: it is not given up. *)
LEMMA DealRetried ==
  ASSUME TimeInv, NEW p \in Operators, NEW q \in Operators, NEW d \in out,
         NEW pause \in 0..1, Retry(d, pause), begin' = begin, Extended(p, q),
         d.from = q, d.to = p, d.bundle = Deal(q), d.deadline = begin[q] + RetryWindow,
         now <= Latest(p, q), now + pause <= Latest(p, q)'
  PROVE  DealOk(p, q)'
<1> DEFINE e == [d EXCEPT !.due = now + pause]
<1>1. BoardShape
  BY DEF TimeInv, RoomInv
<1>2. ~closed[q]
  BY DealerOpen DEF Extended
<1>3. begin[q] \in Nat /\ now \in Nat /\ RetryWindow \in Nat
  BY <1>1, InTimeFacts, ConstantFacts DEF Extended
<1>4. ~(now + pause > d.deadline)
  BY <1>3 DEF Extended
<1>5. /\ e \in out' /\ e.from = q /\ e.to = p /\ e.bundle = Deal(q)
      /\ e.due = now + pause /\ e.deadline = begin[q] + RetryWindow
  BY <1>1, <1>2, <1>4, RetryOut
<1> HIDE DEF e
<1>6. Deal(q)' = Deal(q)
  BY DEF Deal
<1>7. OnItsWay(p, q)'
  BY <1>5, <1>6 DEF OnItsWay
<1> QED
  BY <1>7 DEF DealOk

(* A post is tried. *)
LEMMA DealDeliver ==
  ASSUME Roomy, TimeInv, NEW p \in Operators, NEW q \in Operators,
         stage[p] \in {"off", "deal"}, DealOk(p, q), Extended(p, q),
         NEW d \in out, deliver(d)
  PROVE  DealOk(p, q)'
<1>1. RoomInv /\ BoardShape /\ PushNeverWaits /\ StageOk(p) /\ now <= d.due
  BY DEF TimeInv, RoomInv
<1>2. /\ d \in Deliveries /\ d.from \in Operators /\ d.to \in Operators
      /\ d.bundle \in Bundles /\ d.bundle.kind \in Kinds /\ d.due \in Nat
      /\ now \in Nat /\ d.due <= now
  BY <1>1 DEF BoardShape, Deliveries, Bundles, deliver
<1>3. UNCHANGED <<now, begin, stage, heard>>
  BY DEF deliver, kyberVars
<1>4. \A x \in out : x # d => x \in out'
  BY DEF deliver, Retry
<1>5. UNCHANGED chans \/ push(d.to, d.bundle)
  BY DEF deliver
<1>6. \A i \in 1..Len(chans[p]["deals"]) :
        /\ i \in 1..Len(chans'[p]["deals"])
        /\ chans'[p]["deals"][i] = chans[p]["deals"][i]
  <2> DEFINE b == d.bundle
             x == d.to
  <2>1. x \in Operators /\ b \in Bundles /\ (UNCHANGED chans \/ push(x, b))
    BY <1>2, <1>5
  <2> HIDE DEF b, x
  <2>2. "deals" \in Kinds
    BY DEF Kinds
  <2> QED
    BY <1>1, <2>1, <2>2, PushGrows
<1>7. ASSUME OnItsWay(p, q) PROVE DealOk(p, q)'
  <2>1. PICK w \in out : /\ w.from = q /\ w.to = p /\ w.bundle = Deal(q)
                         /\ w.deadline = begin[q] + RetryWindow
                         /\ w.due <= Latest(p, q)
    BY <1>7 DEF OnItsWay
  <2>2. CASE w # d
    BY <1>1, <1>3, <1>4, <2>1, <2>2, WayStays
  <2>3. CASE w = d
    <3>1. now <= Latest(p, q) /\ Latest(p, q) \in Nat /\ Latest(p, q)' \in Nat
          /\ Latest(p, q) <= Latest(p, q)'
      BY <1>1, <1>2, <2>1, <2>3 DEF Extended
    <3>2. CASE Listening(p) /\ push(p, Deal(q))
      <4>1. stage'[p] = "deal"
        BY <1>3, <3>2 DEF Listening, Running
      <4> DEFINE b == Deal(q)
                 c == chans[p]["deals"]
      <4>2. b \in Bundles /\ b.kind = "deals" /\ push(p, b)
        BY <1>2, <2>1, <2>3, <3>2 DEF Deal
      <4>3. q \in Sources(p, b.kind)
        BY <2>1, <4>2 DEF Sources
      <4>4. "deals" \in Kinds /\ c \in Seq(Bundles)
        BY <1>1 DEF Kinds, BoardShape
      <4> HIDE DEF b
      <4>5. chans'[p]["deals"] = Append(c, b)
        <5>1. chans'[p][b.kind] = Append(chans[p][b.kind], b)
          BY <1>1, <4>2, <4>3, Pushed
        <5> QED
          BY <4>2, <5>1
      <4> HIDE DEF c
      <4>6. Len(c) + 1 \in 1..Len(Append(c, b)) /\ Append(c, b)[Len(c) + 1] = b
        BY <4>2, <4>4, AppendProperties, LenProperties
      <4>7. b = Deal(q)'
        BY DEF b, Deal
      <4>8. now' <= Latest(p, q)'
        BY <1>2, <1>3, <3>1
      <4>9. InChannel(p, q)'
        BY <4>1, <4>5, <4>6, <4>7, <4>8 DEF InChannel
      <4> QED
        BY <4>9 DEF DealOk
    <3>3. CASE (~Listening(p) \/ closed[p] \/ mu[p] # Free) /\ Retry(d, 1)
      <4>1. ~closed[p] /\ mu[p] = Free
        BY <1>1 DEF StageOk, Running, PushNeverWaits
      <4>2. stage[p] = "off" /\ begin[p] # Never
        BY <3>3, <4>1 DEF Listening, Running, Extended, InTime, Sound
      <4>3. now <= begin[p]
        BY <1>1, <4>2 DEF StageOk
      <4>4. begin[p] \in Nat /\ begin[p] + 1 <= Latest(p, q)
        BY <1>1, InTimeFacts DEF Extended
      <4>5. now + 1 <= Latest(p, q)'
        BY <1>2, <3>1, <4>3, <4>4
      <4> QED
        BY <1>3, <2>1, <2>3, <3>1, <3>3, <4>5, DealRetried
    <3>4. CASE Fault /\ \E pause \in 0..1 : Retry(d, pause)
      <4>1. PICK pause \in 0..1 : Retry(d, pause)
        BY <3>4
      <4>2. faults' < faults
        BY <1>1, <3>4, ConstantFacts DEF Fault, BoardShape
      <4>3. Latest(p, q) + 1 <= Latest(p, q)'
        BY <4>2 DEF Extended
      <4>4. now + pause <= Latest(p, q)'
        BY <1>2, <3>1, <4>3
      <4> QED
        BY <1>3, <2>1, <2>3, <3>1, <4>1, <4>4, DealRetried
    <3> QED
      BY <2>1, <2>3, <3>2, <3>3, <3>4 DEF deliver
  <2> QED
    BY <2>2, <2>3
<1>8. stage[q] = "off" => DealOk(p, q)'
  BY <1>3 DEF DealOk
<1> QED
  BY <1>1, <1>3, <1>6, <1>7, <1>8, DealStays

(* A step that tries no post, takes no bundle and leaves the clock. *)
LEMMA DealElse ==
  ASSUME BoardShape, NEW p \in Operators, NEW q \in Operators, DealOk(p, q), Extended(p, q),
         UNCHANGED <<now, begin, heard>>,
         stage[q] = "off" => stage'[q] = "off", stage[p] = "deal" => stage'[p] = "deal",
         \A d \in out : d.from = q => d \in out',
         UNCHANGED chans \/ \E x \in Operators, b \in Bundles : push(x, b)
  PROVE  DealOk(p, q)'
<1>1. "deals" \in Kinds
  BY DEF Kinds
<1>2. \A i \in 1..Len(chans[p]["deals"]) :
        /\ i \in 1..Len(chans'[p]["deals"])
        /\ chans'[p]["deals"][i] = chans[p]["deals"][i]
  BY <1>1, PushGrows
<1>3. ASSUME OnItsWay(p, q) PROVE DealOk(p, q)'
  <2>1. PICK d \in out : /\ d.from = q /\ d.to = p /\ d.bundle = Deal(q)
                         /\ d.deadline = begin[q] + RetryWindow
                         /\ d.due <= Latest(p, q)
    BY <1>3 DEF OnItsWay
  <2> QED
    BY <2>1, WayStays
<1>4. stage[q] = "off" => DealOk(p, q)'
  BY DEF DealOk
<1> QED
  BY <1>2, <1>3, <1>4, DealStays

(* A bundle is taken: the deal itself, or one before it. *)
LEMMA DealTake ==
  ASSUME TimeInv, NEW p \in Operators, NEW q \in Operators, DealOk(p, q), Extended(p, q),
         NEW x \in Operators, NEW k \in Kinds, Take(x, k)
  PROVE  DealOk(p, q)'
<1>1. RoomInv /\ BoardShape
  BY DEF TimeInv, RoomInv
<1>2. /\ chans'[x][k] = Tail(chans[x][k])
      /\ \A y \in Operators, l \in Kinds : y # x \/ l # k => chans'[y][l] = chans[y][l]
      /\ heard' = [heard EXCEPT ![x] = @ \cup {chans[x][k][1]}]
  BY <1>1, TakeRoom
<1>3. UNCHANGED <<now, begin, stage, out>> /\ chans[x][k] # <<>>
  BY DEF Take
<1>4. "deals" \in Kinds /\ heard \in [Operators -> SUBSET Bundles]
      /\ chans \in [Operators -> [Kinds -> Seq(Bundles)]]
  BY <1>1 DEF Kinds, BoardShape
<1>5. heard[p] \subseteq heard'[p]
  BY <1>2, <1>4
<1>6. ASSUME OnItsWay(p, q) PROVE DealOk(p, q)'
  <2>1. PICK d \in out : /\ d.from = q /\ d.to = p /\ d.bundle = Deal(q)
                         /\ d.deadline = begin[q] + RetryWindow
                         /\ d.due <= Latest(p, q)
    BY <1>6 DEF OnItsWay
  <2> QED
    BY <1>1, <1>3, <2>1, WayStays
<1>7. stage[q] = "off" => DealOk(p, q)'
  BY <1>3 DEF DealOk
<1>8. CASE x # p \/ k # "deals"
  BY <1>1, <1>2, <1>3, <1>4, <1>5, <1>6, <1>7, <1>8, DealStays
<1>9. CASE x = p /\ k = "deals"
  <2> DEFINE c == chans[p]["deals"]
  <2>1. c \in Seq(Bundles) /\ c # <<>> /\ chans'[p]["deals"] = Tail(c) /\ c[1] \in heard'[p]
    BY <1>2, <1>3, <1>4, <1>9
  <2>2. CASE InChannel(p, q)
    <3>1. stage'[p] = "deal" /\ now' <= Latest(p, q)'
      BY <1>1, <1>3, <2>2 DEF InChannel, Extended, BoardShape
    <3>2. PICK i \in 1..Len(c) : c[i] = Deal(q)
      BY <2>2 DEF InChannel
    <3>3. Deal(q)' = Deal(q)
      BY DEF Deal
    <3> HIDE DEF c
    <3>4. CASE i = 1
      BY <2>1, <3>2, <3>3, <3>4 DEF DealOk
    <3>5. CASE i # 1
      <4>1. Len(c) \in Nat /\ Len(Tail(c)) = Len(c) - 1
            /\ \A j \in 1..Len(Tail(c)) : Tail(c)[j] = c[j + 1]
        BY <2>1, HeadTailProperties, LenProperties
      <4>2. i - 1 \in 1..Len(Tail(c)) /\ Tail(c)[i - 1] = c[i]
        BY <3>5, <4>1
      <4>3. InChannel(p, q)'
        BY <2>1, <3>1, <3>2, <3>3, <4>2 DEF InChannel
      <4> QED
        BY <4>3 DEF DealOk
    <3> QED
      BY <3>4, <3>5
  <2>3. CASE Deal(q) \in heard[p]
    BY <1>5, <2>3 DEF DealOk, Deal
  <2> QED
    BY <1>6, <1>7, <2>2, <2>3 DEF DealOk
<1> QED
  BY <1>8, <1>9

(* The dealer starts: its deal is in its own channel and on its way to all. *)
LEMMA DealStart ==
  ASSUME Roomy, TimeInv, NEW p \in Operators, NEW q \in Operators, q \in Dealers,
         Extended(p, q), Start(q)
  PROVE  DealOk(p, q)'
<1>1. RoomInv /\ BoardShape /\ StageOk(q)
  BY DEF TimeInv, RoomInv
<1>2. /\ stage[q] = "off" /\ begin[q] # Never /\ now >= begin[q] + 0 * Phase
      /\ stage' = [stage EXCEPT ![q] = "deal"] /\ UNCHANGED <<now, begin>>
      /\ Push(q, Bundle(q, "deals", {}))
  BY DEF Start, Due
<1>3. /\ begin[q] \in Nat /\ now \in Nat /\ Latest(p, q) \in Nat /\ Latest(p, q)' \in Nat
      /\ begin[q] + 1 <= Latest(p, q) /\ Latest(p, q) <= Latest(p, q)'
  BY <1>1, InTimeFacts DEF Extended
<1>4. now = begin[q]
  <2>1. now <= begin[q]
    BY <1>1, <1>2 DEF StageOk
  <2>2. Phase \in Nat
    BY ConstantFacts
  <2> QED
    BY <1>2, <1>3, <2>1, <2>2
<1>5. now' <= Latest(p, q)'
  BY <1>2, <1>3, <1>4
<1> DEFINE b == Deal(q)
<1>6. b = Bundle(q, "deals", {}) /\ b \in Bundles /\ b.kind = "deals" /\ b = Deal(q)'
  <2>1. "deals" \in Kinds /\ {} \in SUBSET Operators
    BY DEF Kinds
  <2>2. /\ Bundle(q, "deals", {})
             = [kind |-> "deals", from |-> q, nonce |-> Ascending(Members), about |-> {}]
        /\ Bundle(q, "deals", {}) \in Bundles
    BY <2>1, BundleIs
  <2> QED
    BY <2>2 DEF Deal
<1>7. push(q, b) /\ out' = out \cup Outgoing(q, b)
  BY <1>2, <1>6 DEF Push
<1>8. CASE p = q
  <2>1. q \in Sources(q, b.kind)
    BY <1>2, <1>6 DEF Sources, Early
  <2> DEFINE c == chans[q]["deals"]
  <2>2. c \in Seq(Bundles)
    BY <1>1 DEF BoardShape, Kinds
  <2> HIDE DEF b
  <2>3. chans'[q]["deals"] = Append(c, b)
    <3>1. b \in Bundles /\ b.kind = "deals" /\ push(q, b)
      BY <1>6, <1>7
    <3>2. chans'[q][b.kind] = Append(chans[q][b.kind], b)
      BY <1>1, <2>1, <3>1, Pushed
    <3> QED
      BY <3>1, <3>2
  <2> HIDE DEF c
  <2>4. Len(c) + 1 \in 1..Len(Append(c, b)) /\ Append(c, b)[Len(c) + 1] = b
    BY <1>6, <2>2, AppendProperties, LenProperties
  <2>5. stage'[p] = "deal"
    BY <1>1, <1>2, <1>8 DEF BoardShape
  <2>6. InChannel(p, q)'
    BY <1>5, <1>6, <1>8, <2>3, <2>4, <2>5 DEF InChannel
  <2> QED
    BY <2>6 DEF DealOk
<1>9. CASE p # q
  <2> DEFINE d == [from |-> q, to |-> p, bundle |-> b, due |-> now, deadline |-> now + RetryWindow]
  <2>1. d \in Outgoing(q, b)
    BY <1>9, ConstantFacts DEF Outgoing
  <2>2. /\ d \in out' /\ d.from = q /\ d.to = p /\ d.bundle = Deal(q)'
        /\ d.deadline = begin'[q] + RetryWindow /\ d.due <= Latest(p, q)'
    BY <1>2, <1>4, <1>5, <1>6, <1>7, <2>1
  <2> HIDE DEF d
  <2>3. OnItsWay(p, q)'
    BY <2>2 DEF OnItsWay
  <2> QED
    BY <2>3 DEF DealOk
<1> QED
  BY <1>8, <1>9

(* The clock moves: a deal in a channel would have been taken before. *)
LEMMA DealTick ==
  ASSUME TimeInv, NEW p \in Operators, NEW q \in Operators, DealOk(p, q), Extended(p, q), Tick
  PROVE  DealOk(p, q)'
<1>1. BoardShape /\ mu[p] = Free
  BY DEF TimeInv, RoomInv, PushNeverWaits
<1>2. UNCHANGED <<begin, stage, out, chans, mu, heard>> /\ ~Urgent
  BY DEF Tick, boardVars, kyberVars
<1>3. ~InChannel(p, q)
  <2> SUFFICES ASSUME InChannel(p, q) PROVE FALSE
    OBVIOUS
  <2>1. stage[p] \in Running /\ ~OwnPush(p) /\ "deals" \in Kinds
    BY <1>1 DEF InChannel, Running, OwnPush, Kinds
  <2>2. chans[p]["deals"] # <<>>
    BY EmptySeq DEF InChannel
  <2> QED
    BY <1>2, <2>1, <2>2 DEF Urgent
<1>4. CASE OnItsWay(p, q)
  <2>1. PICK d \in out : /\ d.from = q /\ d.to = p /\ d.bundle = Deal(q)
                         /\ d.deadline = begin[q] + RetryWindow
                         /\ d.due <= Latest(p, q)
    BY <1>4 DEF OnItsWay
  <2> QED
    BY <1>1, <1>2, <2>1, WayStays
<1> QED
  BY <1>2, <1>3, <1>4 DEF DealOk, Deal

(* What no step changes, or only in one direction. *)
LEMMA FixedNext ==
  ASSUME BoardShape, [CeremonyNext]_ceremonyVars
  PROVE  resharing' = resharing /\ begin' = begin /\ faults' <= faults
<1>1. faults \in Nat
  BY ConstantFacts DEF BoardShape
<1>2. Fault \/ UNCHANGED faults => faults' <= faults
  BY <1>1 DEF Fault
<1> HIDE DEF Fault
<1>3. ASSUME NEW d, deliver(d)
      PROVE  UNCHANGED <<resharing, begin>> /\ (Fault \/ UNCHANGED faults)
  BY <1>3 DEF deliver
<1>4. ASSUME NEW p \in Operators, NEW k \in Kinds, Take(p, k)
      PROVE  UNCHANGED <<resharing, begin>> /\ (Fault \/ UNCHANGED faults)
  BY <1>4 DEF Take
<1>5. ASSUME NEW p \in Operators,
             \/ Start(p) \/ Respond(p) \/ Justify(p) \/ Finish(p) \/ Close(p) \/ Waited(p)
             \/ WriteTmp(p) \/ Rename(p) \/ Interrupt(p) \/ Crash(p)
      PROVE  UNCHANGED <<resharing, begin>> /\ (Fault \/ UNCHANGED faults)
  BY <1>5 DEF Start, Respond, Justify, Finish, Close, Waited, WriteTmp, Rename, Interrupt, Crash
<1>6. CASE Tick \/ UNCHANGED ceremonyVars
  BY <1>2, <1>6 DEF Tick, ceremonyVars
<1> QED
  BY <1>2, <1>3, <1>4, <1>5, <1>6 DEF CeremonyNext, Work

(* Every step leaves the deals that can still come in time where they can. *)
LEMMA DealNext ==
  ASSUME Roomy, KeyInv, TimeInv, BoardShape', [CeremonyNext]_ceremonyVars,
         NEW p \in Operators, NEW q \in Operators, q \in Dealers',
         stage'[p] \in {"off", "deal"}, InTime(p, q)'
  PROVE  DealOk(p, q)'
<1>1. BoardShape /\ KeyShape
  BY DEF TimeInv, RoomInv, KeyInv
<1>2. resharing' = resharing /\ begin' = begin /\ faults' <= faults
  BY <1>1, FixedNext
<1>3. Extended(p, q)
  BY <1>1, <1>2, StageNext, InTimeBefore
<1>4. q \in Dealers
  BY <1>2 DEF Dealers
<1>5. stage[p] \in {"off", "deal"} /\ (stage[p] = "deal" => stage'[p] = "deal")
  <2>1. \A k \in Kinds : stage'[p] \in Early(k) => stage[p] \in Early(k)
    BY <1>1, StageMono
  <2> QED
    BY <2>1 DEF Early, Kinds
<1>6. DealOk(p, q)
  BY <1>3, <1>4, <1>5 DEF TimeInv, Extended
<1>7. stage'[q] # "crashed"
  BY DEF InTime, Sound
<1>8. ASSUME NEW x \in Operators, NEW s, stage' = [stage EXCEPT ![x] = s], stage[x] # "off" \/ x # q,
             UNCHANGED <<now, heard>>, \A d \in out : d.from = q => d \in out',
             UNCHANGED chans \/ \E b \in Bundles : push(x, b)
      PROVE  DealOk(p, q)'
  <2>1. stage[q] = "off" => stage'[q] = "off"
    BY <1>1, <1>8 DEF BoardShape
  <2> QED
    BY <1>1, <1>2, <1>3, <1>5, <1>6, <1>8, <2>1, DealElse
<1>9. ASSUME NEW x \in Operators, Start(x) PROVE DealOk(p, q)'
  <2>1. CASE x = q
    BY <1>3, <1>4, <1>9, <2>1, DealStart
  <2>2. CASE x # q
    <3>1. stage' = [stage EXCEPT ![x] = "deal"] /\ UNCHANGED <<now, heard>>
      BY <1>9 DEF Start, kyberVars
    <3>2. Bundle(x, "deals", {}) \in Bundles
      <4>1. "deals" \in Kinds /\ {} \in SUBSET Operators
        BY DEF Kinds
      <4> QED
        BY <4>1, BundleIs
    <3>3. out \subseteq out' /\ (UNCHANGED chans \/ push(x, Bundle(x, "deals", {})))
      BY <1>9 DEF Start, Push
    <3> QED
      BY <1>8, <2>2, <3>1, <3>2, <3>3
  <2> QED
    BY <2>1, <2>2
<1>10. ASSUME NEW x \in Operators, Respond(x) PROVE DealOk(p, q)'
  <2> DEFINE none == Dealers \ From(x, "deals")
  <2>1. stage[x] # "off" /\ stage' = [stage EXCEPT ![x] = "respond"] /\ UNCHANGED <<now, heard>>
    BY <1>10 DEF Respond
  <2>2. out \subseteq out' /\ (UNCHANGED chans \/ push(x, Bundle(x, "responses", none)))
    BY <1>10 DEF Respond, Push
  <2>3. none \in SUBSET Operators /\ "responses" \in Kinds
    BY ConstantFacts DEF Kinds
  <2> HIDE DEF none
  <2>4. Bundle(x, "responses", none) \in Bundles
    BY <2>3, BundleIs
  <2> QED
    BY <1>8, <2>1, <2>2, <2>4
<1>11. ASSUME NEW x \in Operators, Justify(x) PROVE DealOk(p, q)'
  <2>1. stage[x] # "off" /\ UNCHANGED <<now, heard>>
    BY <1>11 DEF Justify
  <2>2. PICK s \in {"over", "justify"} : stage' = [stage EXCEPT ![x] = s]
    BY <1>11 DEF Justify
  <2>3. out \subseteq out' /\ (UNCHANGED chans \/ push(x, Bundle(x, "justifications", {})))
    BY <1>11 DEF Justify, Push
  <2>4. Bundle(x, "justifications", {}) \in Bundles
    <3>1. "justifications" \in Kinds /\ {} \in SUBSET Operators
      BY DEF Kinds
    <3> QED
      BY <3>1, BundleIs
  <2> QED
    BY <1>8, <2>1, <2>2, <2>3, <2>4
<1>12. ASSUME NEW x \in Operators,
              Finish(x) \/ Interrupt(x) \/ Close(x) \/ Waited(x) \/ WriteTmp(x) \/ Rename(x)
       PROVE  DealOk(p, q)'
  <2>1. PICK s : stage' = [stage EXCEPT ![x] = s]
    BY <1>12 DEF Finish, Interrupt, Close, Waited, WriteTmp, Rename, Fail
  <2>2. UNCHANGED <<now, heard, out, chans>> /\ stage[x] # "off"
    BY <1>12 DEF Finish, Interrupt, Close, Waited, WriteTmp, Rename, boardVars, kyberVars, Running
  <2> QED
    BY <1>8, <2>1, <2>2
<1>13. ASSUME NEW x \in Operators, Crash(x) PROVE DealOk(p, q)'
  <2>1. /\ stage' = [stage EXCEPT ![x] = "crashed"] /\ out' = {d \in out : d.from # x}
        /\ UNCHANGED <<now, heard, chans>>
    BY <1>13 DEF Crash, kyberVars
  <2>2. x # q
    BY <1>1, <1>7, <2>1 DEF BoardShape
  <2> QED
    BY <1>8, <2>1, <2>2
<1>14. CASE UNCHANGED ceremonyVars
  <2>1. UNCHANGED <<now, heard, stage, out, chans>>
    BY <1>14 DEF ceremonyVars, boardVars, kyberVars
  <2> QED
    BY <1>1, <1>2, <1>3, <1>5, <1>6, <2>1, DealElse
<1>15. ASSUME NEW d \in out, deliver(d) PROVE DealOk(p, q)'
  BY <1>3, <1>5, <1>6, <1>15, DealDeliver
<1>16. ASSUME NEW x \in Operators, NEW k \in Kinds, Take(x, k) PROVE DealOk(p, q)'
  BY <1>3, <1>6, <1>16, DealTake
<1>17. CASE Tick
  BY <1>3, <1>6, <1>17, DealTick
<1> QED
  BY <1>9, <1>10, <1>11, <1>12, <1>13, <1>14, <1>15, <1>16, <1>17 DEF CeremonyNext, Work

(* A participant that responds has heard the deals that could come in time. *)
LEMMA RespondHeard ==
  ASSUME TimeInv, NEW p \in Operators, NEW q \in Dealers, InTime(p, q), Respond(p)
  PROVE  q \in From(p, "deals")
<1>1. BoardShape /\ q \in Operators /\ StageOk(q) /\ \A d \in out : now <= d.due
  BY ConstantFacts DEF TimeInv, RoomInv
<1>2. stage[p] = "deal" /\ now >= begin[p] + Phase
  <2>1. stage[p] = "deal" /\ now >= begin[p] + 1 * Phase
    BY DEF Respond, Due
  <2> QED
    BY <2>1, ConstantFacts
<1>3. /\ begin[p] \in Nat /\ begin[q] \in Nat /\ now \in Nat /\ Latest(p, q) \in Nat
      /\ begin[q] + 1 <= Latest(p, q) /\ Latest(p, q) < begin[p] + Phase
  BY <1>1, InTimeFacts
<1>4. ~(now <= Latest(p, q)) /\ ~(now <= begin[q])
  BY <1>2, <1>3, ConstantFacts
<1>5. DealOk(p, q)
  BY <1>2 DEF TimeInv
<1>6. ~OnItsWay(p, q)
  <2> SUFFICES ASSUME OnItsWay(p, q) PROVE FALSE
    OBVIOUS
  <2>1. PICK d \in out : d.due <= Latest(p, q)
    BY DEF OnItsWay
  <2>2. d.due \in Nat /\ now <= d.due
    BY <1>1 DEF BoardShape, Deliveries
  <2> QED
    BY <1>3, <1>4, <2>1, <2>2
<1>7. ~InChannel(p, q)
  BY <1>4 DEF InChannel
<1>8. stage[q] # "off"
  BY <1>1, <1>4 DEF StageOk, InTime, Sound
<1>9. Deal(q) \in heard[p]
  BY <1>5, <1>6, <1>7, <1>8 DEF DealOk
<1> QED
  BY <1>9 DEF From, Deal

(* Nobody complains about a deal that could come in time. *)
LEMMA HeardNext ==
  ASSUME KeyInv, TimeInv, BoardShape', [CeremonyNext]_ceremonyVars
  PROVE  HeardInTime'
<1>1. BoardShape /\ \A p, q \in Operators : InTime(p, q) => q \notin missing[p]
  BY HeardIs DEF TimeInv, RoomInv
<1>2. begin' = begin /\ faults' <= faults
  BY <1>1, FixedNext
<1>3. ASSUME NEW p \in Operators, NEW q \in Operators, InTime(p, q)'
      PROVE  q \notin missing'[p]
  <2>1. InTime(p, q)
    BY <1>1, <1>2, <1>3, StageNext, InTimeBefore DEF Extended
  <2>2. CASE missing'[p] = missing[p]
    BY <1>1, <2>1, <2>2
  <2>3. ASSUME NEW x \in Operators, Respond(x) PROVE q \notin missing'[p]
    <3>1. missing' = [missing EXCEPT ![x] = Dealers \ From(x, "deals")]
      BY <2>3 DEF Respond
    <3>2. CASE x # p
      BY <1>1, <2>2, <3>1, <3>2 DEF BoardShape
    <3>3. CASE x = p
      <4>1. missing'[p] = Dealers \ From(p, "deals")
        BY <1>1, <3>1, <3>3 DEF BoardShape
      <4> QED
        BY <2>1, <2>3, <3>3, <4>1, RespondHeard
    <3> QED
      BY <3>2, <3>3
  <2>4. ASSUME NEW d, deliver(d) PROVE UNCHANGED missing
    BY <2>4 DEF deliver, kyberVars
  <2>5. ASSUME NEW x \in Operators, NEW k \in Kinds, Take(x, k) PROVE UNCHANGED missing
    BY <2>5 DEF Take
  <2>6. ASSUME NEW x \in Operators,
               \/ Start(x) \/ Justify(x) \/ Finish(x) \/ Close(x) \/ Waited(x)
               \/ WriteTmp(x) \/ Rename(x) \/ Interrupt(x) \/ Crash(x)
        PROVE  UNCHANGED missing
    BY <2>6 DEF Start, Justify, Finish, Close, Waited, WriteTmp, Rename, Interrupt, Crash, kyberVars
  <2>7. CASE Tick \/ UNCHANGED ceremonyVars
    BY <2>2, <2>7 DEF Tick, ceremonyVars, kyberVars
  <2> QED
    BY <2>2, <2>3, <2>4, <2>5, <2>6, <2>7 DEF CeremonyNext, Work
<1>4. (\A p, q \in Operators : InTime(p, q) => q \notin missing[p])'
  BY <1>3
<1>5. HeardInTime' <=> (\A p, q \in Operators : InTime(p, q) => q \notin missing[p])'
  BY HeardIs, PTL
<1> QED
  BY <1>4, <1>5

(* At first nothing is late. *)
LEMMA TimeInit == CeremonyInit => TimeInv
<1> SUFFICES ASSUME CeremonyInit PROVE TimeInv
  OBVIOUS
<1>1. RoomInv /\ BoardShape
  BY RoomInit DEF RoomInv
<1>2. ASSUME NEW p \in Operators PROVE StageOk(p)
  BY <1>1 DEF CeremonyInit, StageOk, BoardShape, Never
<1>3. out = {} /\ \A q \in Operators : stage[q] = "off" /\ missing[q] = {}
  BY DEF CeremonyInit
<1>4. HeardInTime
  BY <1>3 DEF HeardInTime
<1>5. \A p \in Operators, q \in Dealers : DealOk(p, q)
  BY <1>3, ConstantFacts DEF DealOk
<1> QED
  BY <1>1, <1>2, <1>3, <1>4, <1>5 DEF TimeInv

(* Every step keeps it. *)
LEMMA TimeNext ==
  ASSUME Roomy, KeyInv, TimeInv, [CeremonyNext]_ceremonyVars
  PROVE  TimeInv'
<1>1. RoomInv' /\ BoardShape'
  BY RoomNext DEF TimeInv, RoomInv
<1>2. \A p \in Operators : StageOk(p)'
  BY StageNext
<1>3. \A d \in out' : now' <= d.due
  BY DueNext
<1>4. ASSUME NEW p \in Operators, NEW q \in Dealers', stage'[p] \in {"off", "deal"}, InTime(p, q)'
      PROVE  DealOk(p, q)'
  <2>1. q \in Operators
    BY ConstantFacts, FixedNext DEF TimeInv, RoomInv, Dealers
  <2> QED
    BY <1>1, <1>4, <2>1, DealNext
<1>5. HeardInTime'
  BY <1>1, HeardNext
<1> QED
  BY <1>1, <1>2, <1>3, <1>4, <1>5 DEF TimeInv

(* For any number of operators, any phase, any starting times and any order *)
(* of the lists: no participant complains about a dealer whose deal had a   *)
(* phase to come in and as long to find it listening, a tick being lost to  *)
(* each fault (deliver and its retries in board.go, SessionNonce). *)
THEOREM HeardTheorem == ASSUME Roomy PROVE CeremonySpec => []HeardInTime
<1>1. CeremonyInit => KeyInv /\ TimeInv
  BY KeyInit, TimeInit
<1>2. KeyInv /\ TimeInv /\ [CeremonyNext]_ceremonyVars => (KeyInv /\ TimeInv)'
  BY KeyStep, TimeNext
<1>3. TimeInv => HeardInTime
  BY DEF TimeInv
<1> QED
  BY <1>1, <1>2, <1>3, PTL DEF CeremonySpec
=============================================================================
