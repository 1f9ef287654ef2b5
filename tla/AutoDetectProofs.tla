--------------------------- MODULE AutoDetectProofs ---------------------------
(***************************************************************************)
(* For any devices, things and names, and any number of changes around the *)
(* program: a scan opens no port twice, and none that another program has  *)
(* been seen to have since its snapshot, and it implements the opening of  *)
(* module Session.                                                         *)
(***************************************************************************)
EXTENDS AutoDetect, FiniteSetTheorems, TLAPS

-----------------------------------------------------------------------------
(* Lists. *)

\* Names in order are a sequence without repetition.
LEMMA InOrder ==
    ASSUME NEW names, IsFiniteSet(names), names \subseteq Name, NEW s \in Orders(names)
    PROVE  /\ s \in Seq(names)
           /\ \A i, j \in 1..Len(s) : s[i] = s[j] => i = j
<1>1. Cardinality(names) \in Nat
  BY FS_CardinalityType
<1>2. s \in [1..Cardinality(names) -> names] /\ \A i, j \in DOMAIN s : i < j => Before(s[i], s[j])
  BY DEF Orders
<1>3. s \in Seq(names) /\ Len(s) = Cardinality(names) /\ DOMAIN s = 1..Len(s)
  BY <1>1, <1>2
<1>4. ASSUME NEW i \in 1..Len(s), NEW j \in 1..Len(s), s[i] = s[j], i < j PROVE FALSE
  <2>1. s[i] \in Name /\ Before(s[i], s[i])
    BY <1>2, <1>3, <1>4
  <2> QED BY <2>1 DEF Before, Name
<1>5. ASSUME NEW i \in 1..Len(s), NEW j \in 1..Len(s), s[i] = s[j] PROVE i = j
  BY <1>1, <1>3, <1>4, <1>5
<1> QED BY <1>3, <1>5

\* The devices of a list are those at its positions.
LEMMA ListDevices ==
    ASSUME NEW list \in Seq(Candidate)
    PROVE  /\ Devices(list) = {list[n].device : n \in 1..Len(list)}
           /\ Devices(list) \subseteq Device
<1>1. DOMAIN list = 1..Len(list) /\ \A n \in 1..Len(list) : list[n] \in Candidate
  OBVIOUS
<1> QED BY <1>1 DEF Devices, Candidate

\* A list whose head is taken off keeps its other candidates in order.
LEMMA ListTail ==
    ASSUME NEW list \in Seq(Candidate), list # <<>>
    PROVE  /\ Tail(list) \in Seq(Candidate) /\ Len(Tail(list)) = Len(list) - 1
           /\ Head(list) = list[1] /\ Head(list) \in Candidate /\ Len(list) \in Nat /\ 1 \in 1..Len(list)
           /\ \A i \in 1..Len(Tail(list)) : Tail(list)[i] = list[i + 1] /\ i + 1 \in 2..Len(list)
  OBVIOUS

-----------------------------------------------------------------------------
(* The listing. *)

\* The nodes of a stem join the list, none of them for the second time
\* (autodetect.rs:87-101).
LEMMA NodesListed ==
    ASSUME TypeOK, NEW stem, Nodes(stem),
           \A i, j \in 1..Len(todo) : todo[i].device = todo[j].device => i = j
    PROVE  /\ todo' \in Seq(Candidate)
           /\ \A i, j \in 1..Len(todo') : todo'[i].device = todo'[j].device => i = j
<1> DEFINE N == {d \in Device : /\ Present(d) /\ d.stem = stem /\ d.number >= 0
                                /\ d \notin Devices(todo)}
<1> PICK nodes \in Orders(N) :
          todo' = todo \o [n \in DOMAIN nodes |-> [device |-> nodes[n], alias |-> {}]]
  BY DEF Nodes
<1>1. IsFiniteSet(N) /\ N \subseteq Name
  BY FS_Subset, AutoDetectAssumption
<1>2. nodes \in Seq(N) /\ \A i, j \in 1..Len(nodes) : nodes[i] = nodes[j] => i = j
  <2> HIDE DEF N
  <2> QED BY <1>1, InOrder
<1> PICK more : more = [n \in DOMAIN nodes |-> [device |-> nodes[n], alias |-> {}]]
  OBVIOUS
<1>3. DOMAIN nodes = 1..Len(nodes) /\ Len(nodes) \in Nat /\ \A n \in 1..Len(nodes) : nodes[n] \in N
  <2> HIDE DEF N
  <2> QED BY <1>2
<1>4. /\ more \in Seq(Candidate) /\ Len(more) = Len(nodes)
      /\ \A n \in 1..Len(nodes) : more[n].device = nodes[n]
  <2>1. more = [n \in 1..Len(nodes) |-> [device |-> nodes[n], alias |-> {}]]
    BY <1>3
  <2>2. \A n \in 1..Len(nodes) : [device |-> nodes[n], alias |-> {}] \in Candidate
    BY <1>3 DEF Candidate
  <2> QED BY <1>3, <2>1, <2>2
<1> PICK a : a = Len(todo)
  OBVIOUS
<1> PICK b : b = Len(nodes)
  OBVIOUS
<1>5. /\ todo \in Seq(Candidate) /\ a \in Nat /\ b \in Nat
      /\ todo' = todo \o more /\ todo' \in Seq(Candidate) /\ Len(todo') = a + b
      /\ \A i \in 1..a : todo'[i] = todo[i]
      /\ \A i \in (a + 1)..(a + b) : todo'[i] = more[i - a]
  BY <1>3, <1>4 DEF TypeOK
<1>6. \A i \in 1..a : todo[i].device \in Devices(todo)
  BY <1>5, ListDevices
<1>7. \A i \in (a + 1)..(a + b) : /\ i - a \in 1..b
                                  /\ todo'[i].device = nodes[i - a]
                                  /\ todo'[i].device \notin Devices(todo)
  BY <1>3, <1>4, <1>5
<1>8. ASSUME NEW i \in 1..(a + b), NEW j \in 1..(a + b), todo'[i].device = todo'[j].device
      PROVE  i = j
  <2>1. CASE i \in 1..a /\ j \in 1..a
    BY <1>5, <1>8, <2>1
  <2>2. CASE i \in 1..a /\ j \in (a + 1)..(a + b)
    BY <1>5, <1>6, <1>7, <1>8, <2>2
  <2>3. CASE i \in (a + 1)..(a + b) /\ j \in 1..a
    BY <1>5, <1>6, <1>7, <1>8, <2>3
  <2>4. CASE i \in (a + 1)..(a + b) /\ j \in (a + 1)..(a + b)
    <3>1. i - a = j - a
      BY <1>2, <1>7, <1>8, <2>4
    <3> QED BY <1>5, <2>4, <3>1
  <2> QED BY <1>5, <2>1, <2>2, <2>3, <2>4
<1> QED BY <1>5, <1>8

\* The directory of links is read (autodetect.rs:76).
LEMMA ListLinksStep == ASSUME IInv, ListLinks PROVE IInv'
<1>0. TypeOK /\ TriedOnce /\ KnownBusy /\ SparesHeld
  BY DEF IInv
<1>1. /\ pc = "list" /\ pc' = "follow" /\ todo' = <<>> /\ opened' = {}
      /\ UNCHANGED <<busy, port, delay, worldVars, changes, keeps, losses>>
  BY DEF ListLinks
<1>2. entries' \in Seq(Thing)
  <2> DEFINE T == {t \in Thing : links[t] # Nowhere}
  <2>1. IsFiniteSet(T) /\ T \subseteq Name /\ T \subseteq Thing
    BY FS_Subset, AutoDetectAssumption
  <2>2. entries' \in Orders(T)
    BY DEF ListLinks
  <2> HIDE DEF T
  <2> QED BY <2>1, <2>2, InOrder
<1>3. TypeOK'
  BY <1>0, <1>1, <1>2 DEF TypeOK, Seen, worldVars
<1>4. TriedOnce' /\ KnownBusy' /\ SparesHeld'
  BY <1>0, <1>1 DEF TriedOnce, KnownBusy, SparesHeld
<1> QED BY <1>3, <1>4 DEF IInv

\* A link is followed (autodetect.rs:76-86).
LEMMA FollowLinkStep == ASSUME IInv, FollowLink PROVE IInv'
<1>0. TypeOK /\ TriedOnce /\ KnownBusy /\ SparesHeld
  BY DEF IInv
<1>1. /\ pc = "follow" /\ entries # <<>> /\ entries' = Tail(entries)
      /\ UNCHANGED <<pc, busy, port, delay, worldVars, historyVars>>
  BY DEF FollowLink
<1>2. entries \in Seq(Thing) /\ Head(entries) \in Thing /\ entries' \in Seq(Thing)
  BY <1>0, <1>1 DEF TypeOK
<1> PICK t : t = Head(entries)
  OBVIOUS
<1> PICK d : d = links[t]
  OBVIOUS
<1>3. /\ todo' \in Seq(Candidate)
      /\ \A i, j \in 1..Len(todo') : todo'[i].device = todo'[j].device => i = j
  <2>0. todo \in Seq(Candidate) /\ \A i, j \in 1..Len(todo) : todo[i].device = todo[j].device => i = j
    BY <1>0 DEF TypeOK, TriedOnce
  <2>1. CASE d # Nowhere /\ Present(d) /\ d \notin Devices(todo)
    <3> PICK c : c = [device |-> d, alias |-> {t}]
      OBVIOUS
    <3>1. todo' = Append(todo, c)
      BY <2>1 DEF FollowLink
    <3>2. d \in Device
      BY <1>0, <1>2, <2>1 DEF TypeOK
    <3>3. c \in Candidate /\ c.device = d
      BY <1>2, <3>2 DEF Candidate
    <3>4. \A i \in 1..Len(todo) : todo[i].device # d
      BY <2>0, <2>1, ListDevices
    <3> QED BY <2>0, <3>1, <3>3, <3>4
  <2>2. CASE ~(d # Nowhere /\ Present(d) /\ d \notin Devices(todo))
    <3>1. todo' = todo
      BY <2>2 DEF FollowLink
    <3> QED BY <2>0, <3>1
  <2> QED BY <2>1, <2>2
<1>4. TypeOK'
  BY <1>0, <1>1, <1>2, <1>3 DEF TypeOK, Seen, worldVars, historyVars
<1>5. TriedOnce' /\ KnownBusy' /\ SparesHeld'
  BY <1>0, <1>1, <1>3 DEF TriedOnce, KnownBusy, SparesHeld, historyVars
<1> QED BY <1>4, <1>5 DEF IInv

\* The nodes are listed (autodetect.rs:87-101).
LEMMA ListNodesStep == ASSUME IInv, ListAcm \/ ListUsb PROVE IInv'
<1>0. TypeOK /\ TriedOnce /\ KnownBusy /\ SparesHeld
  BY DEF IInv
<1>1. /\ pc \in {"follow", "usb"} /\ pc' \in {"usb", "snapshot"}
      /\ Nodes(AcmStem) \/ Nodes(UsbStem)
      /\ UNCHANGED <<entries, busy, port, delay, worldVars, historyVars>>
  BY DEF ListAcm, ListUsb
<1>2. /\ todo' \in Seq(Candidate)
      /\ \A i, j \in 1..Len(todo') : todo'[i].device = todo'[j].device => i = j
  BY <1>0, <1>1, NodesListed DEF TriedOnce
<1>3. TypeOK'
  BY <1>0, <1>1, <1>2 DEF TypeOK, Seen, worldVars, historyVars
<1>4. TriedOnce' /\ KnownBusy' /\ SparesHeld'
  BY <1>0, <1>1, <1>2 DEF TriedOnce, KnownBusy, SparesHeld, historyVars
<1> QED BY <1>3, <1>4 DEF IInv

-----------------------------------------------------------------------------
(* The scan. *)

\* The busy devices are noted (autodetect.rs:126-159).
LEMMA SnapshotStep == ASSUME IInv, Snapshot PROVE IInv'
<1>0. TypeOK /\ TriedOnce /\ KnownBusy /\ SparesHeld
  BY DEF IInv
<1>1. /\ pc = "snapshot" /\ pc' = "scan" /\ busy' = Seen \cap Devices(todo) /\ keeps' = Seen
      /\ UNCHANGED <<entries, todo, port, delay, worldVars, changes, opened, losses>>
  BY DEF Snapshot
<1>2. TypeOK' /\ port' = Nowhere
  BY <1>0, <1>1 DEF TypeOK, Seen, worldVars
<1>3. TriedOnce'
  BY <1>0, <1>1 DEF TriedOnce
<1>4. KnownBusy'
  BY <1>0, <1>1, ListDevices DEF TypeOK, KnownBusy
<1>5. SparesHeld'
  BY <1>2 DEF SparesHeld
<1> QED BY <1>2, <1>3, <1>4, <1>5 DEF IInv

\* A candidate is passed over (autodetect.rs:180-191).
LEMMA SkipStep == ASSUME IInv, SkipBusy \/ OpenError PROVE IInv'
<1>0. TypeOK /\ TriedOnce /\ KnownBusy /\ SparesHeld
  BY DEF IInv
<1>1. /\ pc = "scan" /\ pc' = "scan" /\ todo # <<>> /\ todo' = Tail(todo)
      /\ UNCHANGED <<entries, busy, port, delay, worldVars, opened, keeps, losses>>
      /\ changes' = changes \/ (changes < MaxChanges /\ changes' = changes + 1)
  BY DEF SkipBusy, OpenError, Turn, Change, historyVars
<1>2. /\ todo \in Seq(Candidate) /\ todo' \in Seq(Candidate) /\ Len(todo) \in Nat
      /\ \A i \in 1..Len(todo') : todo'[i] = todo[i + 1] /\ i + 1 \in 2..Len(todo)
  BY <1>0, <1>1, ListTail DEF TypeOK
<1>3. TypeOK'
  BY <1>0, <1>1, <1>2, AutoDetectAssumption DEF TypeOK, Seen, worldVars
<1>4. TriedOnce' /\ KnownBusy' /\ SparesHeld'
  BY <1>0, <1>1, <1>2 DEF TriedOnce, KnownBusy, SparesHeld
<1> QED BY <1>3, <1>4 DEF IInv

\* A port opens (autodetect.rs:184-186).
LEMMA OpenStep == ASSUME IInv, OpenPort PROVE IInv'
<1>0. TypeOK /\ TriedOnce /\ KnownBusy /\ SparesHeld
  BY DEF IInv
<1>1. /\ pc = "scan" /\ pc' = "probe" /\ todo # <<>> /\ todo' = todo
      /\ port' = Head(todo).device /\ opened' = opened \cup {port'}
      /\ Head(todo).device \notin busy
      /\ UNCHANGED <<entries, busy, delay, worldVars, changes, keeps, losses>>
  BY DEF OpenPort, Turn, Busy
<1>2. /\ todo \in Seq(Candidate) /\ Head(todo) = todo[1] /\ todo[1] \in Candidate
      /\ Len(todo) \in Nat /\ 1 \in 1..Len(todo)
  BY <1>0, <1>1, ListTail DEF TypeOK
<1>3. port' \in Device /\ port' # Nowhere
  BY <1>1, <1>2, AutoDetectAssumption DEF Candidate
<1>4. TypeOK'
  BY <1>0, <1>1, <1>3 DEF TypeOK, Seen, worldVars
<1>5. \A i \in 2..Len(todo) : todo[i].device # todo[1].device
  BY <1>0, <1>2 DEF TriedOnce
<1>6. TriedOnce'
  BY <1>0, <1>1, <1>2, <1>5 DEF TriedOnce
<1>7. KnownBusy' /\ SparesHeld'
  BY <1>0, <1>1, <1>2 DEF KnownBusy, SparesHeld
<1> QED BY <1>4, <1>6, <1>7 DEF IInv

\* The probe gives the configuration, or the port is closed (autodetect.rs:192-200).
LEMMA ProbeStep == ASSUME IInv, ProbeAnswers \/ ProbeFails PROVE IInv'
<1>0. TypeOK /\ TriedOnce /\ KnownBusy /\ SparesHeld
  BY DEF IInv
<1>1. CASE ProbeAnswers
  <2>1. /\ pc = "probe" /\ pc' = "found"
        /\ UNCHANGED <<entries, todo, busy, port, delay, worldVars, historyVars>>
    BY <1>1 DEF ProbeAnswers
  <2> QED BY <1>0, <2>1
          DEF IInv, TypeOK, Seen, TriedOnce, KnownBusy, SparesHeld, worldVars, historyVars
<1>2. CASE ProbeFails
  <2>1. /\ pc = "probe" /\ pc' = "scan" /\ port' = Nowhere /\ todo' = Tail(todo)
        /\ changes' = changes \/ (changes < MaxChanges /\ changes' = changes + 1)
        /\ UNCHANGED <<entries, busy, delay, worldVars, opened, keeps, losses>>
    BY <1>2 DEF ProbeFails, Change
  <2>2. /\ todo \in Seq(Candidate) /\ todo' \in Seq(Candidate) /\ Len(todo) \in Nat
        /\ \A i \in 1..Len(todo') : todo'[i] = todo[i + 1] /\ i + 1 \in 2..Len(todo)
    BY <1>0, <2>1, ListTail DEF TypeOK, TriedOnce
  <2>3. TypeOK'
    BY <1>0, <2>1, <2>2, AutoDetectAssumption DEF TypeOK, Seen, worldVars
  <2>4. TriedOnce'
    BY <1>0, <2>1, <2>2 DEF TriedOnce
  <2>5. KnownBusy' /\ SparesHeld'
    BY <1>0, <2>1, <2>2 DEF KnownBusy, SparesHeld
  <2> QED BY <2>3, <2>4, <2>5 DEF IInv
<1> QED BY <1>1, <1>2

\* open_serial waits, or main starts over (main.rs:112-124, 131-146).
LEMMA AgainStep == ASSUME IInv, NoneAnswered \/ Lost PROVE IInv'
<1>0. TypeOK /\ TriedOnce /\ KnownBusy /\ SparesHeld
  BY DEF IInv
<1>1. CASE NoneAnswered
  <2>1. /\ pc = "scan" /\ pc' = "list"
        /\ delay' = IF 2 * delay < MaxReopen THEN 2 * delay ELSE MaxReopen
        /\ UNCHANGED <<entries, todo, busy, port, worldVars, historyVars>>
    BY <1>1 DEF NoneAnswered
  <2>2. delay' \in Reconnect..MaxReopen
    BY <1>0, <2>1, AutoDetectAssumption DEF TypeOK
  <2>3. TypeOK'
    BY <1>0, <2>1, <2>2 DEF TypeOK, Seen, worldVars, historyVars
  <2> QED BY <1>0, <2>1, <2>3
          DEF IInv, TriedOnce, KnownBusy, SparesHeld, historyVars
<1>2. CASE Lost
  <2>1. /\ pc = "found" /\ pc' = "list" /\ port' = Nowhere /\ delay' = Reconnect
        /\ losses < MaxChanges /\ losses' = losses + 1
        /\ changes' = changes \/ (changes < MaxChanges /\ changes' = changes + 1)
        /\ UNCHANGED <<entries, todo, busy, worldVars, opened, keeps>>
    BY <1>2 DEF Lost, Change
  <2>2. TypeOK'
    BY <1>0, <2>1, AutoDetectAssumption DEF TypeOK, Seen, worldVars
  <2> QED BY <1>0, <2>1, <2>2 DEF IInv, TriedOnce, KnownBusy, SparesHeld
<1> QED BY <1>1, <1>2

\* What others do leaves the scan alone, and no one starts to keep a port
\* from the snapshot's point of view.
LEMMA OthersStep == ASSUME IInv, Surroundings PROVE IInv'
<1>0. TypeOK /\ TriedOnce /\ KnownBusy /\ SparesHeld
  BY DEF IInv
<1>1. /\ UNCHANGED <<scanVars, opened, losses>> /\ keeps' \subseteq keeps
      /\ changes' = changes \/ (changes < MaxChanges /\ changes' = changes + 1)
  BY DEF Surroundings, Moves, Links, Holds, Releases, Change, historyVars
<1>2. /\ place' \in [Thing -> Device \cup {Nowhere}] /\ links' \in [Thing -> Device \cup {Nowhere}]
      /\ held' \in SUBSET Device /\ hidden' \subseteq held' /\ keeps' \subseteq Seen'
  <2>0. /\ place \in [Thing -> Device \cup {Nowhere}] /\ links \in [Thing -> Device \cup {Nowhere}]
        /\ held \in SUBSET Device /\ hidden \subseteq held /\ keeps \subseteq Seen
    BY <1>0 DEF TypeOK
  <2>1. ASSUME NEW t \in Thing, Moves(t)
        PROVE  /\ place' \in [Thing -> Device \cup {Nowhere}] /\ links' = links
               /\ held' \in SUBSET Device /\ hidden' \subseteq held' /\ keeps' \subseteq Seen'
    BY <2>0, <2>1 DEF Moves, Seen
  <2>2. ASSUME NEW t \in Thing, Links(t)
        PROVE  links' \in [Thing -> Device \cup {Nowhere}] /\ UNCHANGED <<place, held, hidden, keeps>>
    BY <2>0, <2>2 DEF Links, historyVars
  <2>3. ASSUME NEW d \in Device, Holds(d) \/ Releases(d)
        PROVE  /\ UNCHANGED <<place, links>> /\ held' \in SUBSET Device
               /\ hidden' \subseteq held' /\ keeps' \subseteq Seen'
    <3>1. CASE Holds(d)
      BY <2>0, <3>1 DEF Holds, Seen
    <3>2. CASE Releases(d)
      BY <2>0, <3>2 DEF Releases, Seen
    <3> QED BY <2>3, <3>1, <3>2
  <2> QED BY <2>0, <2>1, <2>2, <2>3 DEF Surroundings, Seen
<1>3. TypeOK'
  BY <1>0, <1>1, <1>2, AutoDetectAssumption DEF TypeOK, scanVars
<1>4. TriedOnce' /\ KnownBusy' /\ SparesHeld'
  BY <1>0, <1>1 DEF TriedOnce, KnownBusy, SparesHeld, scanVars
<1> QED BY <1>3, <1>4 DEF IInv

-----------------------------------------------------------------------------
(* The theorems. *)

\* In every behaviour the list names each port once, and what was seen to be
\* busy at the snapshot and still is, is known to be (autodetect.rs:73-159).
THEOREM AlwaysIInv == Spec => []IInv
<1>1. Init => IInv
  BY AutoDetectAssumption DEF Init, IInv, TypeOK, Seen, TriedOnce, KnownBusy, SparesHeld
<1>2. IInv /\ [Next]_vars => IInv'
  <2> SUFFICES ASSUME IInv, [Next]_vars PROVE IInv'
    OBVIOUS
  <2>1. CASE Detect
    BY <2>1, ListLinksStep, FollowLinkStep, ListNodesStep, SnapshotStep, SkipStep, OpenStep,
       ProbeStep, AgainStep DEF Detect
  <2>2. CASE Lost
    BY <2>2, AgainStep
  <2>3. CASE Surroundings
    BY <2>3, OthersStep
  <2>4. CASE UNCHANGED vars
    BY <2>4 DEF vars, scanVars, worldVars, historyVars,
                IInv, TypeOK, Seen, TriedOnce, KnownBusy, SparesHeld
  <2> QED BY <2>1, <2>2, <2>3, <2>4 DEF Next, InSession
<1> QED BY <1>1, <1>2, PTL DEF Spec

\* No port is opened that another program, one whose open files can be read,
\* has had open since before the snapshot, whatever is plugged around and
\* whichever other programs hide theirs (autodetect.rs:133-151, 180-183).
THEOREM SparesWhatIsHeld == Spec => []SparesHeld
<1>1. IInv => SparesHeld
  BY DEF IInv
<1> QED BY <1>1, AlwaysIInv, PTL

\* No scan opens a port twice (autodetect.rs:73-103, 178-200).
THEOREM OpensEachOnce == Spec => OpensOnce
<1>1. IInv /\ [Next]_vars => [OpenPort => Head(todo).device \notin opened]_vars
  <2> SUFFICES ASSUME IInv, OpenPort PROVE Head(todo).device \notin opened
    OBVIOUS
  <2>1. pc = "scan" /\ todo # <<>> /\ todo \in Seq(Candidate)
    BY DEF OpenPort, Turn, IInv, TypeOK
  <2>2. Head(todo) = todo[1] /\ 1 \in 1..Len(todo)
    BY <2>1, ListTail
  <2> QED BY <2>1, <2>2 DEF IInv, TriedOnce
<1> QED BY <1>1, AlwaysIInv, PTL DEF Spec, OpensOnce

\* The scan is the opening of the port that module Session describes: it
\* ends with a radio's configuration or fails and waits longer (main.rs:131-147).
THEOREM Refinement == Spec => ImplementsOpening
<1>1. Init => Opening!Init
  BY AutoDetectAssumption
     DEF Init, Opening!Init, Opening!Settings, Plain
<1>2. [Next]_vars => [Opening!Next]_(Opening!vars)
  <2> SUFFICES ASSUME [Next]_vars PROVE [Opening!Next]_(Opening!vars)
    OBVIOUS
  <2>1. CASE ProbeAnswers
    <3>1. pc = "probe" /\ pc' = "found" /\ UNCHANGED <<delay, losses>>
      BY <2>1 DEF ProbeAnswers, historyVars
    <3>2. Opening!Detect
      BY <3>1 DEF Opening!Detect, Opening!Captured, Opening!Missing, Opening!radioVars
    <3> QED BY <3>2 DEF Opening!Next, Opening!Proceed
  <2>2. CASE NoneAnswered
    <3>1. /\ pc = "scan" /\ pc' = "list" /\ UNCHANGED losses
          /\ delay' = IF 2 * delay < MaxReopen THEN 2 * delay ELSE MaxReopen
      BY <2>2 DEF NoneAnswered, historyVars
    <3>2. Opening!OpenFails
      BY <3>1 DEF Opening!OpenFails, Opening!Longer, Opening!mainVars, Opening!radioVars
    <3> QED BY <3>2 DEF Opening!Next
  <2>3. CASE Lost
    <3>1. /\ pc = "found" /\ pc' = "list" /\ delay' = Reconnect
          /\ losses < MaxChanges /\ losses' = losses + 1
      BY <2>3 DEF Lost
    <3>2. Opening!PortLost
      BY <3>1 DEF Opening!PortLost, Opening!Reopen, Opening!Fault, Opening!mainVars
    <3> QED BY <3>2 DEF Opening!Next
  <2>4. CASE \/ ListLinks \/ FollowLink \/ ListAcm \/ ListUsb \/ Snapshot \/ SkipBusy
             \/ OpenPort \/ OpenError \/ ProbeFails
    <3>1. (pc = "found") = (pc' = "found") /\ UNCHANGED <<delay, losses>>
      BY <2>4 DEF ListLinks, FollowLink, ListAcm, ListUsb, Snapshot, SkipBusy, OpenPort,
                  OpenError, ProbeFails, Turn, historyVars
    <3> QED BY <3>1 DEF Opening!vars
  <2>5. CASE Surroundings
    <3>1. UNCHANGED <<pc, delay, losses>>
      BY <2>5 DEF Surroundings, Moves, Links, Holds, Releases, scanVars, historyVars
    <3> QED BY <3>1 DEF Opening!vars
  <2>6. CASE UNCHANGED vars
    <3>1. UNCHANGED <<pc, delay, losses>>
      BY <2>6 DEF vars, scanVars, historyVars
    <3> QED BY <3>1 DEF Opening!vars
  <2> QED BY <2>1, <2>2, <2>3, <2>4, <2>5, <2>6 DEF Next, Detect, InSession
<1> QED BY <1>1, <1>2, PTL DEF Spec, ImplementsOpening, Opening!Spec
=============================================================================
