------------------------------ MODULE AutoDetect ------------------------------
(***************************************************************************)
(* --port auto: open_serial of src/src/main.rs with detect, candidates,    *)
(* busy_devices and scan of src/src/autodetect.rs.  The list of candidates *)
(* is made one directory and one link at a time; then the busy devices are *)
(* noted, and both are used for the whole scan, while things are plugged   *)
(* in and out, the links in /dev/serial/by-id follow, and other programs   *)
(* open and close ports.  What a probe does is module Handshake, what      *)
(* happens with the port once it is found is module Session.               *)
(***************************************************************************)
EXTENDS Integers, Sequences, FiniteSets

CONSTANTS
    Device,         \* device nodes, with their names
    Thing,          \* what can be plugged in, with the name of its by-id link
    Radio,          \* the thing that is a radio
    AcmStem,        \* "ttyACM"
    UsbStem,        \* "ttyUSB"
    Nowhere,        \* not plugged in, no link
    Reconnect,      \* RECONNECT_DELAY
    MaxReopen,      \* MAX_REOPEN_DELAY
    MaxChanges      \* bound: changes around the program, and faults

\* A name is a stem, by its place in the alphabet, and the number behind it,
\* -1 without one.
Name == [stem : Nat, number : Int]

ASSUME AutoDetectAssumption ==
    /\ Device \subseteq Name /\ Thing \subseteq Name /\ Radio \in Thing
    /\ IsFiniteSet(Device) /\ IsFiniteSet(Thing) /\ Nowhere \notin Device
    /\ Reconnect \in Nat /\ MaxReopen \in Nat
    /\ 0 < Reconnect /\ Reconnect <= MaxReopen
    /\ MaxChanges \in Nat

VARIABLES
    pc,         \* where open_serial is; found: with the session
    entries,    \* by-id links still to be followed
    todo,       \* out of candidates; later those still to be tried
    busy,       \* busy
    port,       \* the device this program has open
    delay,      \* delay of open_serial
    place,      \* the device node of each thing
    links,      \* the device node its by-id link leads to
    held,       \* device nodes that another program has open
    hidden,     \* those of a program whose open files cannot be read
    changes,    \* changes and faults so far (history)
    opened,     \* devices opened in this scan (history)
    keeps,      \* devices held by others in the open since the snapshot (history)
    losses      \* ports lost after they were found (history)

scanVars == <<pc, entries, todo, busy, port, delay>>
worldVars == <<place, links, held, hidden>>
historyVars == <<changes, opened, keeps, losses>>
vars == <<scanVars, worldVars, historyVars>>

Init ==
    /\ pc = "list" /\ entries = <<>> /\ todo = <<>> /\ busy = {} /\ port = Nowhere /\ delay = Reconnect
    /\ place \in [Thing -> Device \cup {Nowhere}]
    /\ \A s, t \in Thing : place[s] = place[t] /\ place[s] # Nowhere => s = t
    /\ links \in {l \in [Thing -> Device \cup {Nowhere}] :
                      \A t \in Thing : l[t] \in {place[t], Nowhere}}
    /\ held = {} /\ hidden = {}
    /\ changes = 0 /\ opened = {} /\ keeps = {} /\ losses = 0

Change == changes < MaxChanges /\ changes' = changes + 1

Present(d) == \E t \in Thing : place[t] = d

-----------------------------------------------------------------------------
(* The list of candidates. *)

\* natural_key: by stem, then by number.
Before(a, b) == a.stem < b.stem \/ (a.stem = b.stem /\ a.number < b.number)

\* sorted_entries: the names in a directory, in this order.
Orders(names) ==
    {s \in [1..Cardinality(names) -> names] :
        \A i, j \in DOMAIN s : i < j => Before(s[i], s[j])}

Candidate == [device : Device, alias : SUBSET Thing]

Devices(list) == {list[n].device : n \in DOMAIN list}

\* The links in /dev/serial/by-id, also those that lead nowhere.
ListLinks ==
    /\ pc = "list"
    /\ pc' = "follow" /\ todo' = <<>> /\ opened' = {}
    /\ entries' \in Orders({t \in Thing : links[t] # Nowhere})
    /\ UNCHANGED <<busy, port, delay, worldVars, changes, keeps, losses>>

\* The next link: where it leads by now is a candidate if there is something
\* that is not on the list yet.
FollowLink ==
    /\ pc = "follow" /\ entries # <<>>
    /\ LET d == links[Head(entries)]
       IN  todo' = IF d # Nowhere /\ Present(d) /\ d \notin Devices(todo)
                   THEN Append(todo, [device |-> d, alias |-> {Head(entries)}])
                   ELSE todo
    /\ entries' = Tail(entries)
    /\ UNCHANGED <<pc, busy, port, delay, worldVars, historyVars>>

\* Variant: a node is listed although a link has led there.
NodesTwice(stem) ==
    \E nodes \in Orders({d \in Device : Present(d) /\ d.stem = stem /\ d.number >= 0}) :
        todo' = todo \o [n \in DOMAIN nodes |-> [device |-> nodes[n], alias |-> {}]]

\* The nodes with this stem and a number that are not on the list yet.  A
\* node that is gone when its path is resolved is listed all the same.
Nodes(stem) ==
    \E nodes \in Orders({d \in Device : /\ Present(d) /\ d.stem = stem /\ d.number >= 0
                                        /\ d \notin Devices(todo)}) :
        todo' = todo \o [n \in DOMAIN nodes |-> [device |-> nodes[n], alias |-> {}]]

ListAcm ==
    /\ pc = "follow" /\ entries = <<>>
    /\ pc' = "usb" /\ Nodes(AcmStem)
    /\ UNCHANGED <<entries, busy, port, delay, worldVars, historyVars>>

ListUsb ==
    /\ pc = "usb"
    /\ pc' = "snapshot" /\ Nodes(UsbStem)
    /\ UNCHANGED <<entries, busy, port, delay, worldVars, historyVars>>

-----------------------------------------------------------------------------
(* detect and scan. *)

\* What the fd links under /proc tell: a process whose directory or links cannot
\* be read, or no /proc at all, is passed over without an error.
Seen == held \ hidden

\* Variant: what was busy once stays on the list.
SnapshotAdds ==
    /\ pc = "snapshot"
    /\ pc' = "scan" /\ busy' = busy \cup (Seen \cap Devices(todo)) /\ keeps' = Seen
    /\ UNCHANGED <<entries, todo, port, delay, worldVars, changes, opened, losses>>

\* busy_devices.
Snapshot ==
    /\ pc = "snapshot"
    /\ pc' = "scan" /\ busy' = Seen \cap Devices(todo) /\ keeps' = Seen
    /\ UNCHANGED <<entries, todo, port, delay, worldVars, changes, opened, losses>>

\* Variant: a device that is listed by its link is not recognized.
BusyByPath(c) == c.device \in busy /\ c.alias = {}

Busy(c) == c.device \in busy

\* The next candidate; the last one may have been tried.
Turn == pc = "scan" /\ todo # <<>>

SkipBusy ==
    /\ Turn /\ Busy(Head(todo))
    /\ todo' = Tail(todo)
    /\ UNCHANGED <<pc, entries, busy, port, delay, worldVars, historyVars>>

\* The port opens, also when another program has it open by now.
OpenPort ==
    /\ Turn /\ ~Busy(Head(todo)) /\ Present(Head(todo).device)
    /\ port' = Head(todo).device /\ pc' = "probe"
    /\ opened' = opened \cup {port'}
    /\ UNCHANGED <<entries, todo, busy, delay, worldVars, changes, keeps, losses>>

\* It does not: it is gone, or the other program has it for itself alone.
OpenError ==
    /\ Turn /\ ~Busy(Head(todo))
    /\ \/ ~Present(Head(todo).device) /\ UNCHANGED changes
       \/ Head(todo).device \in held /\ UNCHANGED changes
       \/ Change
    /\ todo' = Tail(todo)
    /\ UNCHANGED <<pc, entries, busy, port, delay, worldVars, opened, keeps, losses>>

\* The probe gives the radio's configuration.
ProbeAnswers ==
    /\ pc = "probe" /\ place[Radio] = port
    /\ pc' = "found"
    /\ UNCHANGED <<entries, todo, busy, port, delay, worldVars, historyVars>>

\* It gives nothing in time, or fails, and the port is closed.
ProbeFails ==
    /\ pc = "probe"
    /\ \/ place[Radio] # port /\ UNCHANGED changes
       \/ Change
    /\ pc' = "scan" /\ port' = Nowhere /\ todo' = Tail(todo)
    /\ UNCHANGED <<entries, busy, delay, worldVars, opened, keeps, losses>>

\* Variant: the delay is not limited.
NoneAnsweredUnlimited ==
    /\ pc = "scan" /\ todo = <<>>
    /\ pc' = "list" /\ delay' = 2 * delay
    /\ UNCHANGED <<entries, todo, busy, port, worldVars, historyVars>>

\* open_serial waits and looks again.
NoneAnswered ==
    /\ pc = "scan" /\ todo = <<>>
    /\ pc' = "list" /\ delay' = IF 2 * delay < MaxReopen THEN 2 * delay ELSE MaxReopen
    /\ UNCHANGED <<entries, todo, busy, port, worldVars, historyVars>>

\* The session loses the port, and main looks for a radio again.
Lost ==
    /\ pc = "found" /\ losses < MaxChanges
    /\ \/ place[Radio] # port /\ UNCHANGED changes
       \/ Change
    /\ pc' = "list" /\ port' = Nowhere /\ delay' = Reconnect /\ losses' = losses + 1
    /\ UNCHANGED <<entries, todo, busy, worldVars, opened, keeps>>

-----------------------------------------------------------------------------
(* The surroundings (external). *)

\* A thing is plugged in where there is room, or pulled out; its link stays
\* as it is for now.  A program that had it open holds a deleted node.
Moves(t) ==
    /\ Change
    /\ IF place[t] = Nowhere
       THEN \E d \in Device : ~Present(d) /\ place' = [place EXCEPT ![t] = d]
       ELSE place' = [place EXCEPT ![t] = Nowhere]
    /\ held' = held \ {place[t]} /\ hidden' = hidden \ {place[t]} /\ keeps' = keeps \ {place[t]}
    /\ UNCHANGED <<scanVars, links, opened, losses>>

\* The link follows.
Links(t) ==
    /\ links[t] # place[t]
    /\ links' = [links EXCEPT ![t] = place[t]]
    /\ UNCHANGED <<scanVars, place, held, hidden, historyVars>>

\* Another program opens a port, one that can be looked into or not.  This one
\* has its own for itself.
Holds(d) ==
    /\ Change
    /\ Present(d) /\ d \notin held /\ d # port
    /\ held' = held \cup {d} /\ hidden' \in {hidden, hidden \cup {d}}
    /\ UNCHANGED <<scanVars, place, links, opened, keeps, losses>>

Releases(d) ==
    /\ d \in held
    /\ held' = held \ {d} /\ hidden' = hidden \ {d} /\ keeps' = keeps \ {d}
    /\ UNCHANGED <<scanVars, place, links, changes, opened, losses>>

-----------------------------------------------------------------------------
Detect ==
    \/ ListLinks \/ FollowLink \/ ListAcm \/ ListUsb
    \/ Snapshot \/ SkipBusy \/ OpenPort \/ OpenError
    \/ ProbeAnswers \/ ProbeFails \/ NoneAnswered

Surroundings ==
    \/ \E t \in Thing : Moves(t) \/ Links(t)
    \/ \E d \in Device : Holds(d) \/ Releases(d)

\* The session goes on.
InSession == pc = "found" /\ UNCHANGED vars

Next == Detect \/ Lost \/ Surroundings \/ InSession

Spec == Init /\ [][Next]_vars

\* The scan goes on, since every probe ends (Returns of Handshake), a session
\* notices that its port is gone, and the links follow.
FairSpec ==
    /\ Spec
    /\ WF_vars(Detect)
    /\ WF_vars(Lost)
    /\ \A t \in Thing : WF_vars(Links(t))

-----------------------------------------------------------------------------
(* Properties. *)

TypeOK ==
    /\ pc \in {"list", "follow", "usb", "snapshot", "scan", "probe", "found"}
    /\ entries \in Seq(Thing)
    /\ todo \in Seq(Candidate)
    /\ busy \in SUBSET Device /\ port \in Device \cup {Nowhere}
    /\ (port # Nowhere) = (pc \in {"probe", "found"})
    /\ delay \in Reconnect..MaxReopen
    /\ place \in [Thing -> Device \cup {Nowhere}] /\ links \in [Thing -> Device \cup {Nowhere}]
    /\ held \in SUBSET Device /\ hidden \subseteq held /\ keeps \subseteq Seen /\ opened \in SUBSET Device
    /\ changes \in 0..MaxChanges /\ losses \in 0..MaxChanges

\* A scan opens no port twice, whatever paths lead to it and however things
\* are plugged around meanwhile, also between two steps of the listing:
\* opening a port may reset the board behind it (autodetect.rs:73-103,
\* README.md:33).
OpensOnce == [][OpenPort => Head(todo).device \notin opened]_vars

\* A port that another program had open before the snapshot and has open still
\* is not opened, if that program's open files can be read. README.md:33 makes
\* no such exception, but what cannot be read is ignored (autodetect.rs:133-151,
\* 180-183).
SparesHeld == port # Nowhere => port \notin keeps

\* A port is on the list once, and what was tried is not on it any more.
TriedOnce ==
    /\ \A i, j \in 1..Len(todo) : todo[i].device = todo[j].device => i = j
    /\ pc \in {"follow", "usb", "snapshot"} => opened = {}
    /\ pc = "scan" => \A i \in 1..Len(todo) : todo[i].device \notin opened
    /\ pc = "probe" => todo # <<>> /\ \A i \in 2..Len(todo) : todo[i].device \notin opened

\* What was seen to be busy at the snapshot and still is, is known to be busy.
KnownBusy ==
    pc \in {"scan", "probe"} => \A i \in 1..Len(todo) : todo[i].device \in keeps => todo[i].device \in busy

\* The inductive invariant behind OpensOnce and SparesHeld (autodetect.rs:73-103, 180-183).
IInv == TypeOK /\ TriedOnce /\ KnownBusy /\ SparesHeld

\* What the radio needs to be found: a port that is listed and free.
Findable ==
    /\ place[Radio] # Nowhere /\ place[Radio] \notin held
    /\ \/ place[Radio].stem \in {AcmStem, UsbStem} /\ place[Radio].number >= 0
       \/ \E t \in Thing : links[t] = place[Radio]

\* A radio that stays where it can be found is found, for good, whatever was
\* listed or busy at the start of the scan it came into (main.rs:133-146).
FindsRadio == <>[]Findable => <>[](pc = "found" /\ port = place[Radio])

\* All a session sees of it: attempts that fail, at growing intervals, one
\* that gives the port with the radio's configuration, and the loss of it.
Plain == [proxy |-> FALSE, downlink |-> {}]

Opening == INSTANCE Session WITH
    Channel <- {}, CliIngress <- "Phone", MaxFaults <- MaxChanges,
    auto <- TRUE, at <- IF pc = "found" THEN "install" ELSE "open",
    info <- Plain, radio <- Plain, toInstall <- {}, ingress <- "Phone",
    attempted <- FALSE, hasMqtt <- FALSE, due <- FALSE, said <- FALSE,
    configured <- FALSE, slow <- FALSE, faults <- losses

\* The scan implements the opening of the port in Session (main.rs:131-147).
ImplementsOpening == Opening!Spec
=============================================================================
