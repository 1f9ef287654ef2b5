------------------------- MODULE ChannelSetupProofs -------------------------
(***************************************************************************)
(* For any number of slots, any channels of the radio, any files of        *)
(* Raven's and any number of sessions: the bridge and the radio agree,     *)
(* Raven's channels count, and no channel is doubled or moved.             *)
(***************************************************************************)
EXTENDS ChannelSetup, FiniteSetTheorems, TLAPS

Channel == [index : Nat, settings : Settings]
ChannelKey == [index : Nat, name : Names, key : {Expand(psk) : psk \in Psks}]

TypeOK ==
    /\ ingress \in {"MqttProxy", "Phone"}
    /\ files \in [base : File, over : File] /\ raven \in Seq(RavenChannels)
    /\ at \in {"handshake", "merge", "install", "bridge"}
    /\ radio \in [Slot -> Settings \cup {Disabled}]
    /\ first \in [Slot -> Settings \cup {Disabled}] /\ first[0] # Disabled
    /\ info \in Seq(Channel) /\ todo \in Seq(RavenChannels)
    /\ channels \in Seq(ChannelKey) /\ maxIndex \in Nat
    /\ toInstall \in Seq(Channel) /\ blank \in BOOLEAN

\* A session is on the way: its lists say what it has made of the channels.
Active == at # "handshake"

\* The entries for one index have one name, and those for two have two, but
\* for what NoTwins allows.
WellNamed ==
    /\ \A m, n \in DOMAIN channels :
           channels[m].index = channels[n].index => channels[m].name = channels[n].name
    /\ \A n \in DOMAIN channels : channels[n].index <= maxIndex
    /\ \A n \in DOMAIN channels : channels[n].name = Unnamed => blank
    /\ \A m, n \in DOMAIN channels :
           /\ channels[m].index # channels[n].index
           /\ DisplayName(channels[m].name) = DisplayName(channels[n].name)
           => MayShare(channels[m].index, channels[n].index, DisplayName(channels[m].name))

\* A slot of the radio, and a channel on the list, has its place in the table,
\* with the name that is shown of it.
Placed(index, name) ==
    \E n \in DOMAIN channels : channels[n].index = index /\ DisplayName(channels[n].name) = name

AllPlaced ==
    /\ \A i \in InUse(radio) : Placed(i, DisplayName(radio[i].name))
    /\ \A m \in DOMAIN toInstall : Placed(toInstall[m].index, DisplayName(toInstall[m].settings.name))

\* The settings fit channel c, and once the list is complete they have the
\* downlink a proxy needs.
Fits(settings, c) ==
    /\ Expand(settings.psk) = c.key
    /\ at # "merge" /\ ingress = "MqttProxy" => settings.downlink

\* What the radio will have for a channel when the list is installed: the last
\* entry for its slot, or what it has.
Pending(i) == {m \in DOMAIN toInstall : toInstall[m].index = i}

WillFit(c) ==
    IF Pending(c.index) = {} THEN radio[c.index] # Disabled /\ Fits(radio[c.index], c)
    ELSE \E m \in Pending(c.index) :
             (\A k \in Pending(c.index) : k <= m) /\ Fits(toInstall[m].settings, c)

Agrees ==
    \A n \in DOMAIN channels :
        FirstFor(channels, n) /\ channels[n].index \in Slot => WillFit(channels[n])

\* Until the list is complete, info is what the radio has.
Captured ==
    /\ \A m \in DOMAIN info :
           info[m].index \in InUse(radio) /\ radio[info[m].index] = info[m].settings
    /\ \A i \in InUse(radio) : \E m \in DOMAIN info : info[m].index = i

\* How far the merge is: Raven's channels up to Done are in the table.
Done == Len(raven) - Len(todo)

Had == {Key(ch.index, DisplayName(ch.settings.name), ch.settings.psk) : ch \in ToSet(info)}

\* Raven's channel m is the last one of its name that is merged.
LastOf(m, name) ==
    /\ m \in 1..Done /\ raven[m].name = name
    /\ \A k \in 1..Done : raven[k].name = name => k <= m

\* Entry n is the first with its name, the one that Raven's channels change.
Counts(n) == \A m \in 1..(n - 1) : channels[m].name # channels[n].name

FromRavenOrRadio(c) ==
    \/ \E m \in 1..Done : LastOf(m, c.name) /\ c.key = Expand(raven[m].psk)
    \/ c \in Had /\ \A m \in 1..Done : raven[m].name # c.name

Merging ==
    /\ Len(todo) <= Len(raven) /\ \A m \in DOMAIN todo : todo[m] = raven[Done + m]
    /\ at # "merge" => todo = <<>>
    /\ at = "bridge" => toInstall = <<>>
    /\ at = "merge" => Captured
    /\ \A n \in DOMAIN channels :
           IF Counts(n) THEN FromRavenOrRadio(channels[n]) ELSE channels[n] \in Had
    /\ \A c \in Had : \E n \in DOMAIN channels : channels[n].name = c.name
    /\ \A m \in 1..Done : \E n \in DOMAIN channels : channels[n].name = raven[m].name

IInv ==
    /\ TypeOK /\ raven = Load(files)
    /\ (\E rc \in ToSet(raven) : rc.name = Unnamed) => blank
    /\ NoTwins /\ KeepsPlaces
    /\ Active => WellNamed /\ AllPlaced /\ Agrees /\ Merging

-----------------------------------------------------------------------------
(* The operators of the model. *)

LEMMA DisabledIsNone == Disabled \notin Settings
<1>1. "psk" \notin DOMAIN Disabled
  BY DEF Disabled
<1>2. \A s \in Settings : "psk" \in DOMAIN s
  BY DEF Settings
<1> QED BY <1>1, <1>2

\* A slot in use has settings.
LEMMA UsedSettings ==
    ASSUME radio \in [Slot -> Settings \cup {Disabled}]
    PROVE  /\ InUse(radio) \subseteq Slot
           /\ \A i \in InUse(radio) : radio[i] \in Settings
  BY DEF InUse

\* A channel's own name is what is shown of it (crypto.rs:36-47).
LEMMA ShownNames ==
    /\ \A name \in Names : DisplayName(name) \in Names
    /\ \A name \in Names \ {Unnamed} : DisplayName(name) = name
    /\ \A name \in Names : DisplayName(name) # Unnamed
    /\ \A name \in Names : DisplayName(DisplayName(name)) = DisplayName(name)
  BY ChannelSetupAssumption DEF DisplayName

LEMMA TableFields ==
    ASSUME channels \in Seq(ChannelKey), NEW n \in DOMAIN channels
    PROVE  channels[n] \in ChannelKey /\ channels[n].index \in Nat /\ channels[n].name \in Names
<1>1. channels[n] \in ChannelKey
  OBVIOUS
<1> QED BY <1>1 DEF ChannelKey

LEMMA ListFields ==
    ASSUME NEW list \in Seq(Channel), NEW m \in DOMAIN list
    PROVE  /\ list[m] \in Channel /\ list[m].index \in Nat /\ list[m].settings \in Settings
           /\ list[m].settings.name \in Names
<1>1. list[m] \in Channel
  OBVIOUS
<1>2. list[m].index \in Nat /\ list[m].settings \in Settings
  BY <1>1 DEF Channel
<1> QED BY <1>1, <1>2 DEF Settings

\* A set of numbers that is not empty has a least one.
LEMMA HasMin ==
    ASSUME NEW S \in SUBSET Nat, S # {}
    PROVE  Min(S) \in S /\ \A y \in S : Min(S) <= y
<1>1. PICK x \in S : \A y \in S : <<y, x>> \notin OpToRel(<, Nat)
  BY NatLessThanWellFounded, WFMin
<1>2. ASSUME NEW y \in S, y < x PROVE FALSE
  <2>1. <<y, x>> \in Nat \X Nat /\ <<y, x>>[1] < <<y, x>>[2]
    BY <1>2
  <2>2. <<y, x>> \in {ss \in Nat \X Nat : ss[1] < ss[2]}
    BY <2>1, Zenon
  <2> QED BY <1>1, <2>2, Zenon DEF OpToRel
<1>3. \A y \in S : x <= y
  BY <1>2
<1> QED BY <1>3 DEF Min

\* Two entries are not both the first for one index, or with one name.
LEMMA OneIsFirst ==
    ASSUME NEW list, NEW m \in Nat \ {0}, NEW n \in Nat \ {0}, m # n,
           FirstFor(list, m), FirstFor(list, n)
    PROVE  list[m].index # list[n].index
<1>1. m \in 1..(n - 1) \/ n \in 1..(m - 1)
  OBVIOUS
<1> QED BY <1>1 DEF FirstFor

LEMMA OneCounts ==
    ASSUME NEW m \in Nat \ {0}, NEW n \in Nat \ {0}, m # n, Counts(m), Counts(n)
    PROVE  channels[m].name # channels[n].name
<1>1. m \in 1..(n - 1) \/ n \in 1..(m - 1)
  OBVIOUS
<1> QED BY <1>1 DEF Counts

\* What merge_channels finds for a name: the first entry with it, if there is
\* one, which is then also the first for its index (raven.rs:152-160).
LEMMA ExistingFinds ==
    ASSUME WellNamed, channels \in Seq(ChannelKey), NEW rc
    PROVE  IF Existing(rc) = 0 THEN \A n \in DOMAIN channels : channels[n].name # rc.name
           ELSE /\ Existing(rc) \in DOMAIN channels /\ channels[Existing(rc)].name = rc.name
                /\ FirstFor(channels, Existing(rc)) /\ Counts(Existing(rc))
<1> DEFINE I == {n \in 1..Len(channels) : channels[n].name = rc.name}
<1>1. Existing(rc) = IF I # {} THEN Min(I) ELSE 0
  BY DEF Existing, SelectInSeq
<1>2. CASE I = {}
  BY <1>1, <1>2
<1>3. CASE I # {}
  <2> PICK n : n = Existing(rc)
    OBVIOUS
  <2>1. I \in SUBSET Nat
    OBVIOUS
  <2>2. n \in I /\ \A y \in I : n <= y
    <3> HIDE DEF I
    <3> QED BY <1>1, <1>3, <2>1, HasMin
  <2>3. n \in DOMAIN channels /\ n \in Nat /\ n # 0 /\ channels[n].name = rc.name
    BY <2>2
  <2>4. ASSUME NEW m \in 1..(n - 1) PROVE m \in DOMAIN channels /\ channels[m].name # rc.name
    <3>1. m \in 1..Len(channels) /\ ~(n <= m)
      BY <2>2
    <3> QED BY <2>2, <3>1
  <2>5. FirstFor(channels, n) /\ Counts(n)
    BY <2>3, <2>4 DEF WellNamed, FirstFor, Counts
  <2> QED BY <2>3, <2>5
<1> QED BY <1>2, <1>3

\* What the two files give is what is in force (raven.rs:27-106).
LEMMA LoadsInForce ==
    ASSUME files \in [base : File, over : File]
    PROVE  /\ Load(files) = InForce
           /\ InForce \in Seq(RavenChannels)
<1> DEFINE b == files.base
           o == files.over
<1>1. /\ b \in File /\ o \in File
      /\ b.channels.list \in Seq(RavenChannels) /\ o.channels.list \in Seq(RavenChannels)
      /\ <<>> \in Seq(RavenChannels)
  BY DEF File
<1>2. /\ o.state # "object" => o.channels.kind = "absent"
      /\ o.channels.kind # "list" => o.channels.list = <<>>
  BY <1>1 DEF File
<1>3. Value("absent").list = <<>>
  BY DEF Value
<1> QED BY <1>1, <1>2, <1>3 DEF Load, Merged, InForce

\* The elements of a finite set in order.
LEMMA OrderedList ==
    ASSUME NEW S, IsFiniteSet(S), NEW s \in InOrder(S)
    PROVE  /\ s \in Seq(S) /\ Len(s) = Cardinality(S) /\ DOMAIN s = 1..Len(s)
           /\ \A m, n \in DOMAIN s : m < n => s[m] < s[n]
           /\ \A i \in S : \E n \in DOMAIN s : s[n] = i
<1>1. Cardinality(S) \in Nat
  BY FS_CardinalityType
<1> QED BY <1>1 DEF InOrder

LEMMA SlotsAreFinite == IsFiniteSet(InUse(radio))
<1>1. IsFiniteSet(Slot)
  BY ChannelSetupAssumption, FS_Interval DEF Slot
<1> QED BY <1>1, FS_Subset DEF InUse

-----------------------------------------------------------------------------
(* The steps. *)

THEOREM InitIInv == Init => IInv
<1> SUFFICES ASSUME Init PROVE IInv
  OBVIOUS
<1>1. Missing \in File /\ Load(files) = <<>>
  BY DEF Init, Missing, Value, File, Load, Merged
<1>2. TypeOK
  <2>1. blank \in BOOLEAN
    BY DEF Init
  <2> QED BY <1>1, <2>1, ChannelSetupAssumption DEF Init, TypeOK
<1>3. NoTwins /\ KeepsPlaces
  BY DEF Init, NoTwins, MayShare, KeepsPlaces
<1>4. ToSet(raven) = {}
  BY DEF Init, ToSet
<1> QED BY <1>1, <1>2, <1>3, <1>4 DEF Init, IInv, Active

\* The list has the elements of S, each at least once.
Lists(list, S) ==
    /\ list \in Seq(S) /\ DOMAIN list = 1..Len(list) /\ Len(list) \in Nat
    /\ \A n \in DOMAIN list : list[n] \in S
    /\ \A i \in S : \E n \in DOMAIN list : list[n] = i

\* The slots a handshake hears of are those in use, each of them at least once
\* (serial.rs:254-257).
LEMMA SlotsHeard ==
    ASSUME NEW used \in InOrder(InUse(radio)), NEW end \in 1..(Len(used) + 1),
           NEW begin \in 0..(Len(used) - 1)
    PROVE  Lists(Heard(used, end, begin), InUse(radio))
<1> DEFINE S == InUse(radio)
           slots == Heard(used, end, begin)
           left == SubSeq(used, end, Len(used)) \o SubSeq(used, 1, begin)
<1>0. used \in InOrder(S) /\ IsFiniteSet(S)
  BY SlotsAreFinite
<1>1. slots = left \o used
  BY DEF Heard
<1> HIDE DEF S, slots
<1>2. /\ used \in Seq(S) /\ Len(used) \in Nat /\ DOMAIN used = 1..Len(used)
      /\ \A i \in S : \E n \in DOMAIN used : used[n] = i
  <2>1. used \in Seq(S) /\ DOMAIN used = 1..Len(used) /\ \A i \in S : \E n \in DOMAIN used : used[n] = i
    BY <1>0, OrderedList
  <2> QED BY <2>1
<1>3. left \in Seq(S)
  <2>1. SubSeq(used, end, Len(used)) \in Seq(S) /\ SubSeq(used, 1, begin) \in Seq(S)
    BY <1>2
  <2>2. \A a, b \in Seq(S) : a \o b \in Seq(S)
    OBVIOUS
  <2> QED BY <2>1, <2>2
<1> HIDE DEF left
<1>4. /\ slots \in Seq(S) /\ Len(slots) = Len(left) + Len(used) /\ Len(left) \in Nat
      /\ \A n \in 1..Len(used) : slots[Len(left) + n] = used[n]
  BY <1>1, <1>2, <1>3
<1>5. DOMAIN slots = 1..Len(slots) /\ Len(slots) \in Nat /\ \A n \in DOMAIN slots : slots[n] \in S
  BY <1>4
<1>6. ASSUME NEW i \in S PROVE \E n \in DOMAIN slots : slots[n] = i
  <2>1. PICK n \in 1..Len(used) : used[n] = i
    BY <1>2
  <2>2. Len(left) + n \in DOMAIN slots
    BY <1>2, <1>4, <1>5
  <2> QED BY <1>4, <2>1, <2>2
<1>7. Lists(slots, S)
  BY <1>4, <1>5, <1>6 DEF Lists
<1> QED BY <1>7 DEF S, slots

\* The slots in use have a highest one, max_index (raven.rs:146).
LEMMA HighestSlot ==
    ASSUME NEW used \in InOrder(InUse(radio)), InUse(radio) \subseteq Nat, InUse(radio) # {}
    PROVE  Max(InUse(radio)) \in InUse(radio) /\ \A i \in InUse(radio) : i <= Max(InUse(radio))
<1> DEFINE S == InUse(radio)
           last == used[Len(used)]
<1>0. used \in InOrder(S) /\ IsFiniteSet(S) /\ S \subseteq Nat /\ S # {}
  BY SlotsAreFinite
<1> HIDE DEF S
<1>1. /\ used \in Seq(S) /\ Len(used) \in Nat /\ DOMAIN used = 1..Len(used)
      /\ \A m, n \in DOMAIN used : m < n => used[m] < used[n]
      /\ \A i \in S : \E n \in DOMAIN used : used[n] = i
  <2>1. /\ used \in Seq(S) /\ DOMAIN used = 1..Len(used)
        /\ \A m, n \in DOMAIN used : m < n => used[m] < used[n]
        /\ \A i \in S : \E n \in DOMAIN used : used[n] = i
    BY <1>0, OrderedList
  <2> QED BY <2>1
<1>2. S \subseteq Nat /\ S # {}
  BY <1>0
<1>3. /\ Len(used) \in DOMAIN used /\ \A n \in DOMAIN used : used[n] \in S
      /\ last \in S /\ last \in Nat
  <2>1. PICK i \in S : TRUE
    BY <1>2
  <2>2. PICK n \in DOMAIN used : used[n] = i
    BY <1>1, <2>1
  <2>3. Len(used) \in DOMAIN used /\ \A k \in DOMAIN used : used[k] \in S
    BY <1>1, <2>2
  <2> QED BY <1>2, <2>3
<1>4. ASSUME NEW i \in S PROVE i <= last
  <2>1. PICK n \in DOMAIN used : used[n] = i
    BY <1>1
  <2>2. n < Len(used) \/ n = Len(used)
    BY <1>1, <2>1
  <2>3. CASE n < Len(used)
    <3>1. i < last
      BY <1>1, <1>3, <2>1, <2>3, Zenon
    <3> QED BY <1>2, <1>3, <3>1
  <2>4. CASE n = Len(used)
    BY <1>2, <1>3, <2>1, <2>4
  <2> QED BY <2>2, <2>3, <2>4
<1>5. Max(S) \in S /\ \A i \in S : Max(S) >= i
  <2>1. \A i \in S : last >= i
    BY <1>2, <1>3, <1>4
  <2> QED BY <1>3, <2>1 DEF Max
<1>6. \A i \in S : i <= Max(S)
  BY <1>2, <1>5
<1> QED BY <1>5, <1>6 DEF S

LEMMA HandshakeStep ==
    ASSUME IInv, Handshake
    PROVE  IInv'
<1> USE DEF IInv
<1>0. PICK used \in InOrder(InUse(radio)) :
          \E end \in 1..(Len(used) + 1), begin \in 0..(Len(used) - 1) :
              LET slots == Heard(used, end, begin)
              IN  /\ info' = [n \in DOMAIN slots |-> [index |-> slots[n], settings |-> radio[slots[n]]]]
                  /\ channels' = [n \in DOMAIN slots |->
                         Key(slots[n], DisplayName(radio[slots[n]].name), radio[slots[n]].psk)]
  BY DEF Handshake
<1>1. PICK end \in 1..(Len(used) + 1), begin \in 0..(Len(used) - 1) :
          \E slots :
              /\ slots = Heard(used, end, begin)
              /\ info' = [n \in DOMAIN slots |-> [index |-> slots[n], settings |-> radio[slots[n]]]]
              /\ channels' = [n \in DOMAIN slots |->
                     Key(slots[n], DisplayName(radio[slots[n]].name), radio[slots[n]].psk)]
  BY <1>0
<1>2. PICK slots :
          /\ slots = Heard(used, end, begin)
          /\ info' = [n \in DOMAIN slots |-> [index |-> slots[n], settings |-> radio[slots[n]]]]
          /\ channels' = [n \in DOMAIN slots |->
                 Key(slots[n], DisplayName(radio[slots[n]].name), radio[slots[n]].psk)]
  BY <1>1
<1>3. /\ maxIndex' = Max(InUse(radio)) /\ files' \in Files /\ raven' = Load(files')
      /\ blank' = (blank \/ \E rc \in ToSet(raven') : rc.name = Unnamed)
      /\ todo' = raven' /\ toInstall' = <<>> /\ at' = "merge"
      /\ UNCHANGED <<ingress, first, radio, session>>
  BY DEF Handshake
<1>4. /\ Slot \subseteq Nat /\ 0 \in Slot /\ InUse(radio) \subseteq Slot /\ InUse(radio) \subseteq Nat
      /\ \A i \in InUse(radio) : radio[i] \in Settings
  BY ChannelSetupAssumption, UsedSettings DEF Slot, TypeOK
<1>5. /\ slots \in Seq(InUse(radio)) /\ DOMAIN slots = 1..Len(slots) /\ Len(slots) \in Nat
      /\ \A n \in DOMAIN slots : slots[n] \in InUse(radio)
      /\ \A i \in InUse(radio) : \E n \in DOMAIN slots : slots[n] = i
  <2>1. Lists(Heard(used, end, begin), InUse(radio))
    BY SlotsHeard
  <2>2. Lists(slots, InUse(radio))
    BY <1>2, <2>1
  <2> QED BY <2>2 DEF Lists
<1>6. \A n \in DOMAIN slots : slots[n] \in Nat /\ slots[n] \in Slot /\ radio[slots[n]] \in Settings
  BY <1>4, <1>5
<1>7. 0 \in InUse(radio)
  BY <1>4 DEF KeepsPlaces, TypeOK, InUse
<1>8. maxIndex' \in Nat /\ \A n \in DOMAIN slots : slots[n] <= maxIndex'
  BY <1>0, <1>3, <1>4, <1>5, <1>7, HighestSlot
<1>9. /\ info' \in Seq(Channel) /\ DOMAIN info' = DOMAIN slots
      /\ \A n \in DOMAIN slots : info'[n].index = slots[n] /\ info'[n].settings = radio[slots[n]]
  BY <1>2, <1>5, <1>6 DEF Channel
<1>10. /\ channels' \in Seq(ChannelKey) /\ DOMAIN channels' = DOMAIN slots
       /\ \A n \in DOMAIN slots :
              channels'[n] = Key(slots[n], DisplayName(radio[slots[n]].name), radio[slots[n]].psk)
  <2>1. ASSUME NEW n \in DOMAIN slots
        PROVE  Key(slots[n], DisplayName(radio[slots[n]].name), radio[slots[n]].psk) \in ChannelKey
    BY <1>6, ShownNames DEF Key, ChannelKey, Settings
  <2> QED BY <1>2, <1>5, <2>1
<1>11. files' \in [base : File, over : File] /\ raven' \in Seq(RavenChannels)
  <2>1. files' \in [base : File, over : File]
    BY <1>3, ChannelSetupAssumption
  <2>2. \A f \in [base : File, over : File] : Load(f) \in Seq(RavenChannels)
    BY DEF Load, Merged, File, Value
  <2> QED BY <1>3, <2>1, <2>2
<1>12. TypeOK'
  BY <1>3, <1>8, <1>9, <1>10, <1>11 DEF TypeOK
<1>13. /\ blank => blank'
       /\ (\E rc \in ToSet(raven') : rc.name = Unnamed) => blank'
  BY <1>3
<1>14. NoTwins' /\ KeepsPlaces'
  <2>1. InUse(radio)' = InUse(radio) /\ InUse(first)' = InUse(first)
    BY <1>3 DEF InUse
  <2>2. \A i, j, name : MayShare(i, j, name) => MayShare(i, j, name)'
    BY <1>3, <1>13, <2>1 DEF MayShare
  <2> QED BY <1>3, <2>1, <2>2 DEF NoTwins, KeepsPlaces
\* An entry is named as its slot is shown, and two slots differ as NoTwins says.
<1>15. WellNamed'
  <2>1. \A n \in DOMAIN channels' :
            /\ channels'[n].index = slots[n] /\ slots[n] \in InUse(radio)'
            /\ channels'[n].name = DisplayName(radio'[slots[n]].name)
            /\ channels'[n].name \in Names /\ channels'[n].name # Unnamed
            /\ DisplayName(channels'[n].name) = channels'[n].name
    <3>1. InUse(radio)' = InUse(radio)
      BY <1>3 DEF InUse
    <3>2. \A n \in DOMAIN slots : radio[slots[n]].name \in Names
      BY <1>6 DEF Settings
    <3> QED BY <1>3, <1>5, <1>10, <3>1, <3>2, ShownNames DEF Key
  <2>2. \A n \in DOMAIN channels' : channels'[n].index <= maxIndex'
    BY <1>8, <1>10, <2>1
  <2>3. ASSUME NEW m \in DOMAIN channels', NEW n \in DOMAIN channels',
               channels'[m].index # channels'[n].index,
               DisplayName(channels'[m].name) = DisplayName(channels'[n].name)
        PROVE  MayShare(channels[m].index, channels[n].index, DisplayName(channels[m].name))'
    BY <1>14, <2>1, <2>3 DEF NoTwins
  <2> QED BY <2>1, <2>2, <2>3 DEF WellNamed
<1>16. AllPlaced'
  <2>1. ASSUME NEW i \in InUse(radio)' PROVE Placed(i, DisplayName(radio[i].name))'
    <3>1. i \in InUse(radio) /\ radio[i].name \in Names
      BY <1>3, <1>4, <2>1 DEF InUse, Settings
    <3>2. PICK n \in DOMAIN slots : slots[n] = i
      BY <1>5, <3>1
    <3>3. /\ n \in DOMAIN channels' /\ channels'[n].index = i
          /\ channels'[n].name = DisplayName(radio'[i].name)
      BY <1>3, <1>10, <3>2 DEF Key
    <3>4. DisplayName(channels'[n].name) = DisplayName(radio'[i].name)
      BY <1>3, <3>1, <3>3, ShownNames
    <3> QED BY <3>3, <3>4 DEF Placed
  <2>2. DOMAIN toInstall' = {}
    BY <1>3
  <2> QED BY <2>1, <2>2 DEF AllPlaced
<1>17. Agrees'
  <2>1. ASSUME NEW n \in DOMAIN slots
        PROVE  radio'[channels'[n].index] # Disabled /\ Fits(radio[channels[n].index], channels[n])'
    BY <1>3, <1>5, <1>10 DEF InUse, Fits, Key
  <2>2. \A i : Pending(i)' = {}
    BY <1>3 DEF Pending
  <2> QED BY <1>10, <2>1, <2>2 DEF Agrees, WillFit
<1>18. Merging'
  <2>1. Done' = 0 /\ Len(todo') <= Len(raven')
    BY <1>3, <1>11 DEF Done
  <2>2. \A m \in DOMAIN todo' : todo'[m] = raven'[Done' + m]
    BY <1>3, <1>11, <2>1
  <2>3. Captured'
    <3>1. InUse(radio)' = InUse(radio)
      BY <1>3 DEF InUse
    <3>2. \A m \in DOMAIN info' :
              info'[m].index \in InUse(radio)' /\ radio'[info'[m].index] = info'[m].settings
      BY <1>3, <1>5, <1>9, <3>1
    <3>3. \A i \in InUse(radio)' : \E m \in DOMAIN info' : info'[m].index = i
      BY <1>5, <1>9, <3>1
    <3> QED BY <3>2, <3>3 DEF Captured
  <2>4. \A n \in DOMAIN channels' : channels'[n] \in Had'
    BY <1>9, <1>10 DEF Had, ToSet
  <2>5. \A c \in Had' : \E n \in DOMAIN channels' : channels'[n].name = c.name
    BY <1>9, <1>10 DEF Had, ToSet
  <2> QED BY <1>3, <2>1, <2>2, <2>3, <2>4, <2>5 DEF Merging, FromRavenOrRadio
<1> QED BY <1>3, <1>12, <1>13, <1>14, <1>15, <1>16, <1>17, <1>18

\* The table's names hold while the table does.
LEMMA NamesStay ==
    ASSUME WellNamed, UNCHANGED <<channels, maxIndex, first, blank>>
    PROVE  WellNamed'
  BY DEF WellNamed, MayShare, InUse

\* What no step but a write changes.
LEMMA HistoryStays ==
    ASSUME IInv, UNCHANGED <<files, raven, first, blank, radio>>
    PROVE  /\ raven' = Load(files') /\ NoTwins' /\ KeepsPlaces'
           /\ (\E rc \in ToSet(raven') : rc.name = Unnamed) => blank'
  BY DEF IInv, NoTwins, MayShare, InUse, KeepsPlaces

\* One more of Raven's channels is merged, and counts for its name
\* (raven.rs:149-194).
LEMMA MergeAdvances ==
    ASSUME IInv, Merge
    PROVE  /\ at = "merge" /\ Active /\ Head(todo) \in RavenChannels
           /\ UNCHANGED <<configVars, at, radio, info, session>> /\ todo' \in Seq(RavenChannels)
           /\ Done' = Done + 1 /\ Done \in Nat /\ raven[Done + 1] = Head(todo)
           /\ Head(todo) \in ToSet(raven)
           /\ Len(todo') <= Len(raven') /\ \A m \in DOMAIN todo' : todo'[m] = raven'[Done' + m]
           /\ \A m, name : m = Done + 1 /\ name = Head(todo).name => LastOf(m, name)'
           /\ \A m, name : name # Head(todo).name /\ LastOf(m, name) => LastOf(m, name)'
<1>1. /\ at = "merge" /\ todo # <<>> /\ todo' = Tail(todo)
      /\ UNCHANGED <<configVars, at, radio, info, session>> /\ UNCHANGED raven
  BY DEF Merge, configVars
<1>2. /\ todo \in Seq(RavenChannels) /\ raven \in Seq(RavenChannels) /\ Active
      /\ Len(todo) <= Len(raven) /\ \A m \in DOMAIN todo : todo[m] = raven[Done + m]
  BY <1>1 DEF IInv, TypeOK, Active, Merging
<1>3. /\ Len(todo) \in Nat /\ Len(todo) > 0 /\ Len(raven) \in Nat
      /\ todo' \in Seq(RavenChannels) /\ Len(todo') = Len(todo) - 1
      /\ Head(todo) = todo[1] /\ todo[1] \in RavenChannels
      /\ \A m \in 1..Len(todo') : todo'[m] = todo[m + 1]
  BY <1>1, <1>2
<1>4. Done \in Nat /\ Done' = Done + 1
  BY <1>1, <1>2, <1>3 DEF Done
<1>5. raven[Done + 1] = Head(todo) /\ Head(todo) \in ToSet(raven)
  <2>1. Done + 1 \in DOMAIN raven
    BY <1>2, <1>3, <1>4 DEF Done
  <2> QED BY <1>2, <1>3, <2>1 DEF ToSet
<1>6. ASSUME NEW m \in DOMAIN todo' PROVE todo'[m] = raven'[Done' + m]
  <2>1. m \in 1..Len(todo') /\ m + 1 \in DOMAIN todo /\ m \in Nat
    BY <1>3
  <2>2. todo'[m] = raven[Done + (m + 1)]
    BY <1>2, <1>3, <2>1
  <2>3. Done + (m + 1) = Done' + m
    BY <1>4, <2>1
  <2> QED BY <1>1, <2>2, <2>3
<1>7. ASSUME NEW m, NEW name, m = Done + 1, name = Head(todo).name PROVE LastOf(m, name)'
  <2>1. m \in 1..Done' /\ raven'[m].name = name /\ \A k \in 1..Done' : k <= m
    BY <1>1, <1>4, <1>5, <1>7
  <2> QED BY <2>1 DEF LastOf
<1>8. ASSUME NEW m, NEW name, name # Head(todo).name, LastOf(m, name) PROVE LastOf(m, name)'
  <2>1. m \in 1..(Done + 1) /\ raven[m].name = name
    BY <1>4, <1>8 DEF LastOf
  <2>2. ASSUME NEW k \in 1..(Done + 1), raven[k].name = name PROVE k <= m
    <3>1. k # Done + 1
      BY <1>5, <1>8, <2>2
    <3> QED BY <1>4, <1>8, <2>2, <3>1 DEF LastOf
  <2> QED BY <1>1, <1>4, <2>1, <2>2 DEF LastOf
<1> QED BY <1>1, <1>2, <1>3, <1>4, <1>5, <1>6, <1>7, <1>8

\* A channel with another name is what it was.
LEMMA OthersStay ==
    ASSUME IInv, Merge, NEW c, c.name # Head(todo).name, FromRavenOrRadio(c)
    PROVE  FromRavenOrRadio(c)'
<1>1. /\ Done' = Done + 1 /\ Done \in Nat /\ raven[Done + 1] = Head(todo)
      /\ UNCHANGED <<raven, info>>
      /\ \A m, name : name # Head(todo).name /\ LastOf(m, name) => LastOf(m, name)'
  BY MergeAdvances DEF configVars
<1>2. ASSUME NEW m \in 1..Done, LastOf(m, c.name), c.key = Expand(raven[m].psk)
      PROVE  FromRavenOrRadio(c)'
  <2>1. m \in 1..Done' /\ LastOf(m, c.name)' /\ c.key = Expand(raven'[m].psk)
    BY <1>1, <1>2
  <2> QED BY <2>1 DEF FromRavenOrRadio
<1>3. ASSUME c \in Had, \A m \in 1..Done : raven[m].name # c.name
      PROVE  FromRavenOrRadio(c)'
  <2>1. \A m \in 1..Done' : m \in 1..Done \/ m = Done + 1
    BY <1>1
  <2>2. c \in Had' /\ \A m \in 1..Done' : raven'[m].name # c.name
    BY <1>1, <1>3, <2>1 DEF Had
  <2> QED BY <2>2 DEF FromRavenOrRadio
<1> QED BY <1>2, <1>3 DEF FromRavenOrRadio

\* A channel with the key of the merged one is Raven's.
LEMMA MergedIsRavens ==
    ASSUME IInv, Merge, NEW c, c.name = Head(todo).name, c.key = Expand(Head(todo).psk)
    PROVE  FromRavenOrRadio(c)'
<1>1. /\ Done' = Done + 1 /\ Done \in Nat /\ raven[Done + 1] = Head(todo)
      /\ UNCHANGED raven /\ \A m, name : m = Done + 1 /\ name = Head(todo).name => LastOf(m, name)'
  BY MergeAdvances DEF configVars
<1>2. PICK d : d = Done + 1
  OBVIOUS
<1>3. d \in 1..Done' /\ LastOf(d, c.name)' /\ c.key = Expand(raven'[d].psk)
  BY <1>1, <1>2
<1> QED BY <1>3 DEF FromRavenOrRadio

\* A channel put on the list is the last one for its slot.
LEMMA PendingGrows ==
    ASSUME toInstall \in Seq(Channel), NEW e \in Channel, toInstall' = Append(toInstall, e)
    PROVE  /\ toInstall' \in Seq(Channel) /\ Len(toInstall') = Len(toInstall) + 1
           /\ toInstall'[Len(toInstall')] = e
           /\ \A m \in DOMAIN toInstall : m \in DOMAIN toInstall' /\ toInstall'[m] = toInstall[m]
           /\ \A i : i # e.index => Pending(i)' = Pending(i)
           /\ Len(toInstall') \in Pending(e.index)'
           /\ \A i, k : k \in Pending(i)' => k <= Len(toInstall')
<1>1. /\ toInstall' \in Seq(Channel) /\ Len(toInstall') = Len(toInstall) + 1
      /\ toInstall'[Len(toInstall')] = e /\ Len(toInstall) \in Nat
      /\ DOMAIN toInstall = 1..Len(toInstall) /\ DOMAIN toInstall' = 1..Len(toInstall')
      /\ \A m \in DOMAIN toInstall : m \in DOMAIN toInstall' /\ toInstall'[m] = toInstall[m]
      /\ \A m \in DOMAIN toInstall' : m \in DOMAIN toInstall \/ m = Len(toInstall')
  OBVIOUS
<1> QED BY <1>1 DEF Pending

\* What merge_channels puts on the list will fit the channel it is for.
LEMMA AddedFits ==
    ASSUME toInstall \in Seq(Channel), at = "merge", at' = "merge",
           NEW rc, NEW c, Proto(c.index, rc) \in Channel, c.key = Expand(rc.psk),
           toInstall' = Append(toInstall, Proto(c.index, rc))
    PROVE  WillFit(c)'
<1>1. PICK last : last = Len(toInstall')
  OBVIOUS
<1>2. /\ last \in Pending(c.index)' /\ \A k \in Pending(c.index)' : k <= last
      /\ toInstall'[last] = Proto(c.index, rc)
  BY <1>1, PendingGrows DEF Proto
<1>3. Fits(toInstall[last].settings, c)'
  <2>1. Proto(c.index, rc).settings.psk = rc.psk
    BY DEF Proto
  <2>2. toInstall'[last].settings.psk = rc.psk
    BY <1>2, <2>1
  <2> QED BY <2>2 DEF Fits
<1> QED BY <1>2, <1>3 DEF WillFit

LEMMA OthersFit ==
    ASSUME UNCHANGED <<radio, at, ingress>>, NEW c,
           Pending(c.index)' = Pending(c.index), WillFit(c),
           \A m \in Pending(c.index) : toInstall'[m] = toInstall[m]
    PROVE  WillFit(c)'
  BY DEF WillFit, Fits

LEMMA MergeKnownStep ==
    ASSUME IInv, MergeKnown
    PROVE  IInv'
<1> DEFINE rc == Head(todo)
           n == Existing(rc)
<1>1. Merge /\ n # 0 /\ UNCHANGED maxIndex
  BY DEF MergeKnown
<1>2. /\ at = "merge" /\ at' = "merge" /\ Active /\ rc \in RavenChannels
      /\ UNCHANGED <<ingress, files, raven, first, blank, radio, info>> /\ todo' \in Seq(RavenChannels)
      /\ Done' = Done + 1 /\ Done \in Nat /\ raven[Done + 1] = rc
      /\ Len(todo') <= Len(raven') /\ \A m \in DOMAIN todo' : todo'[m] = raven'[Done' + m]
  BY <1>1, MergeAdvances DEF configVars
<1>3. TypeOK /\ WellNamed /\ AllPlaced /\ Agrees /\ Merging
  BY <1>2 DEF IInv
<1>4. /\ n \in DOMAIN channels /\ channels[n].name = rc.name
      /\ FirstFor(channels, n) /\ Counts(n)
  BY <1>1, <1>3, ExistingFinds DEF TypeOK
<1>5. /\ rc.name \in Names /\ rc.psk \in Psks
      /\ channels[n] \in ChannelKey /\ channels[n].index \in Nat
  <2>1. channels[n] \in ChannelKey
    BY <1>3, <1>4 DEF TypeOK
  <2>2. channels[n].index \in Nat
    BY <2>1 DEF ChannelKey
  <2>3. rc.name \in Names /\ rc.psk \in Psks
    BY <1>2 DEF RavenChannels
  <2> QED BY <2>1, <2>2, <2>3
\* In both cases the table keeps its indices and names.
<1>6. /\ channels' \in Seq(ChannelKey) /\ DOMAIN channels' = DOMAIN channels
      /\ channels'[n].key = Expand(rc.psk)
      /\ \A k \in DOMAIN channels :
             channels'[k].index = channels[k].index /\ channels'[k].name = channels[k].name
      /\ \A k \in DOMAIN channels : k # n => channels'[k] = channels[k]
  <2>1. CASE channels[n].key = Expand(rc.psk)
    <3>1. channels' = channels
      BY <1>1, <2>1 DEF MergeKnown
    <3> QED BY <1>3, <2>1, <3>1 DEF TypeOK
  <2>2. CASE channels[n].key # Expand(rc.psk)
    <3> DEFINE new == Key(channels[n].index, rc.name, rc.psk)
    <3>1. channels' = [channels EXCEPT ![n] = new]
      BY <2>2 DEF MergeKnown
    <3>2. new \in ChannelKey /\ new.index = channels[n].index /\ new.name = channels[n].name
          /\ new.key = Expand(rc.psk)
      BY <1>4, <1>5 DEF Key, ChannelKey
    <3> HIDE DEF new
    <3>3. channels \in Seq(ChannelKey)
      BY <1>3 DEF TypeOK
    <3> QED BY <1>4, <3>1, <3>2, <3>3
  <2> QED BY <2>1, <2>2
<1>7. /\ toInstall' \in Seq(Channel)
      /\ \A m \in DOMAIN toInstall' :
             \/ m \in DOMAIN toInstall /\ toInstall'[m] = toInstall[m]
             \/ /\ toInstall'[m].index = channels[n].index
                /\ DisplayName(toInstall'[m].settings.name) = DisplayName(rc.name)
      /\ \A k \in DOMAIN channels :
             FirstFor(channels, k) /\ channels[k].index \in Slot => WillFit(channels[k])'
  <2>1. CASE channels[n].key = Expand(rc.psk)
    <3>1. channels' = channels /\ toInstall' = toInstall
      BY <1>1, <2>1 DEF MergeKnown
    <3>2. ASSUME NEW k \in DOMAIN channels, FirstFor(channels, k), channels[k].index \in Slot
          PROVE  WillFit(channels[k])'
      <4>1. PICK c : c = channels[k]
        OBVIOUS
      <4>2. WillFit(c) /\ \A i : Pending(i)' = Pending(i)
        BY <1>3, <3>1, <3>2, <4>1 DEF Agrees, Pending
      <4>3. WillFit(c)'
        BY <1>2, <3>1, <4>2, OthersFit
      <4> QED BY <3>1, <4>1, <4>3
    <3> QED BY <1>3, <3>1, <3>2 DEF TypeOK
  <2>2. CASE channels[n].key # Expand(rc.psk)
    <3> DEFINE e == Proto(channels[n].index, rc)
    <3>1. toInstall' = Append(toInstall, e) /\ toInstall \in Seq(Channel)
      BY <1>3, <2>2 DEF MergeKnown, TypeOK
    <3>2. e \in Channel /\ e.index = channels[n].index /\ e.settings.name = rc.name
      BY <1>5 DEF Proto, Channel, Settings
    <3>3. /\ toInstall' \in Seq(Channel) /\ Len(toInstall') = Len(toInstall) + 1
          /\ toInstall'[Len(toInstall')] = e /\ Len(toInstall) \in Nat
          /\ \A m \in DOMAIN toInstall : toInstall'[m] = toInstall[m]
          /\ \A i : i # e.index => Pending(i)' = Pending(i)
      <4> HIDE DEF e
      <4>1. /\ toInstall' \in Seq(Channel) /\ Len(toInstall') = Len(toInstall) + 1
            /\ toInstall'[Len(toInstall')] = e
            /\ \A m \in DOMAIN toInstall : toInstall'[m] = toInstall[m]
            /\ \A i : i # e.index => Pending(i)' = Pending(i)
        BY <3>1, <3>2, PendingGrows, Zenon
      <4>2. Len(toInstall) \in Nat
        BY <3>1
      <4> QED BY <4>1, <4>2, Zenon
    <3>4. ASSUME NEW m \in DOMAIN toInstall'
          PROVE  m \in DOMAIN toInstall \/ m = Len(toInstall')
      BY <3>1, <3>3
    <3>5. ASSUME NEW k \in DOMAIN channels, FirstFor(channels, k), channels[k].index \in Slot
          PROVE  WillFit(channels[k])'
      <4>1. PICK c : c = channels'[k]
        OBVIOUS
      <4>2. CASE k = n
        <5>1. c.index = channels[n].index /\ c.key = Expand(rc.psk)
          BY <1>6, <4>1, <4>2
        <5>2. toInstall' = Append(toInstall, Proto(c.index, rc)) /\ Proto(c.index, rc) \in Channel
          BY <3>1, <3>2, <5>1
        <5>3. WillFit(c)'
          BY <1>2, <3>1, <5>1, <5>2, AddedFits
        <5> QED BY <4>1, <5>3
      <4>3. CASE k # n
        <5>1. c = channels[k] /\ c.index # e.index /\ WillFit(c)
          <6>1. k \in Nat \ {0} /\ n \in Nat \ {0}
            BY <1>3, <1>4, <3>5 DEF TypeOK
          <6>2. channels[k].index # channels[n].index
            BY <1>4, <3>5, <4>3, <6>1, OneIsFirst
          <6> QED BY <1>3, <1>6, <3>2, <3>5, <4>1, <4>3, <6>2 DEF Agrees
        <5>2. Pending(c.index)' = Pending(c.index)
          BY <3>3, <5>1
        <5>3. \A m \in Pending(c.index) : toInstall'[m] = toInstall[m]
          BY <3>3 DEF Pending
        <5>4. WillFit(c)'
          BY <1>2, <5>1, <5>2, <5>3, OthersFit
        <5> QED BY <4>1, <5>4
      <4> QED BY <4>2, <4>3
    <3> QED BY <3>2, <3>3, <3>4, <3>5
  <2> QED BY <2>1, <2>2
<1>8. TypeOK'
  BY <1>1, <1>2, <1>3, <1>6, <1>7 DEF TypeOK
<1>9. /\ raven' = Load(files') /\ NoTwins' /\ KeepsPlaces'
      /\ (\E d \in ToSet(raven') : d.name = Unnamed) => blank'
  BY <1>2, HistoryStays DEF IInv
<1>10. WellNamed'
  <2>1. \A i, j, name : MayShare(i, j, name) => MayShare(i, j, name)'
    BY <1>2 DEF MayShare, InUse
  <2>2. \A m, k \in DOMAIN channels' :
            /\ channels'[m].index = channels[m].index /\ channels'[m].name = channels[m].name
            /\ channels'[k].index = channels[k].index /\ channels'[k].name = channels[k].name
            /\ m \in DOMAIN channels /\ k \in DOMAIN channels
    BY <1>6
  <2>3. blank' = blank /\ maxIndex' = maxIndex
    BY <1>1, <1>2
  <2>4. ASSUME NEW m \in DOMAIN channels', NEW k \in DOMAIN channels',
               channels'[m].index # channels'[k].index,
               DisplayName(channels'[m].name) = DisplayName(channels'[k].name)
        PROVE  MayShare(channels[m].index, channels[k].index, DisplayName(channels[m].name))'
    <3>1. MayShare(channels[m].index, channels[k].index, DisplayName(channels[m].name))
      BY <1>3, <2>2, <2>4 DEF WellNamed
    <3> QED BY <2>1, <2>2, <3>1
  <2>5. /\ \A m, k \in DOMAIN channels' :
               channels'[m].index = channels'[k].index => channels'[m].name = channels'[k].name
        /\ \A m \in DOMAIN channels' : channels'[m].index <= maxIndex'
        /\ \A m \in DOMAIN channels' : channels'[m].name = Unnamed => blank'
    BY <1>3, <2>2, <2>3 DEF WellNamed
  <2> QED BY <2>4, <2>5 DEF WellNamed
<1>11. AllPlaced'
  <2>1. \A i, name : Placed(i, name) => Placed(i, name)'
    BY <1>6 DEF Placed
  <2>2. \A i \in InUse(radio)' : Placed(i, DisplayName(radio[i].name))'
    BY <1>2, <1>3, <2>1 DEF AllPlaced, InUse
  <2>3. \A i, name : i = channels[n].index /\ name = DisplayName(rc.name) => Placed(i, name)'
    BY <1>4, <1>6 DEF Placed
  <2>4. \A m \in DOMAIN toInstall' :
            Placed(toInstall[m].index, DisplayName(toInstall[m].settings.name))'
    BY <1>3, <1>7, <2>1, <2>3 DEF AllPlaced
  <2> QED BY <2>2, <2>4 DEF AllPlaced
<1>12. Agrees'
  <2>1. \A k \in DOMAIN channels : FirstFor(channels', k) => FirstFor(channels, k)
    BY <1>3, <1>6 DEF FirstFor, TypeOK
  <2> QED BY <1>6, <1>7, <2>1 DEF Agrees
<1>13. Merging'
  <2>1. Captured'
    BY <1>2, <1>3 DEF Merging, Captured, InUse
  <2>2. ASSUME NEW k \in DOMAIN channels'
        PROVE  IF Counts(k)' THEN FromRavenOrRadio(channels[k])' ELSE channels'[k] \in Had'
    <3>0. Counts(k)' <=> Counts(k)
      <4>1. k \in DOMAIN channels /\ \A m \in 1..(k - 1) : m \in DOMAIN channels
        BY <1>3, <1>6, <2>2 DEF TypeOK
      <4> QED BY <1>6, <4>1 DEF Counts
    <3>1. PICK c : c = channels'[k]
      OBVIOUS
    <3>2. CASE k = n
      <4>1. FromRavenOrRadio(c)'
        BY <1>1, <1>4, <1>6, <3>1, <3>2, MergedIsRavens
      <4> QED BY <1>4, <3>0, <3>1, <3>2, <4>1
    <3>3. CASE k # n /\ Counts(k)
      <4>1. k \in Nat \ {0} /\ n \in Nat \ {0}
        BY <1>3, <1>4, <1>6, <2>2 DEF TypeOK
      <4>2. channels[k].name # channels[n].name
        BY <1>4, <3>3, <4>1, OneCounts
      <4>3. c = channels[k] /\ c.name # rc.name /\ FromRavenOrRadio(c)
        BY <1>3, <1>4, <1>6, <2>2, <3>1, <3>3, <4>2 DEF Merging
      <4>4. FromRavenOrRadio(c)'
        BY <1>1, <4>3, OthersStay
      <4> QED BY <3>0, <3>1, <3>3, <4>4
    <3>4. CASE k # n /\ ~Counts(k)
      BY <1>2, <1>3, <1>6, <2>2, <3>0, <3>4 DEF Merging, Had
    <3> QED BY <3>2, <3>3, <3>4
  <2>3. \A c \in Had' : \E k \in DOMAIN channels' : channels'[k].name = c.name
    <3>1. Had' = Had
      BY <1>2 DEF Had
    <3>2. \A c \in Had : \E k \in DOMAIN channels : channels[k].name = c.name
      BY <1>3 DEF Merging
    <3> QED BY <1>6, <3>1, <3>2
  <2>4. ASSUME NEW m \in 1..Done' PROVE \E k \in DOMAIN channels' : channels'[k].name = raven'[m].name
    <3>1. m \in 1..Done \/ m = Done + 1
      BY <1>2
    <3>2. CASE m = Done + 1
      BY <1>2, <1>4, <1>6, <3>2
    <3>3. CASE m \in 1..Done
      <4>1. \E k \in DOMAIN channels : channels[k].name = raven[m].name
        BY <1>3, <3>3 DEF Merging
      <4> QED BY <1>2, <1>6, <4>1
    <3> QED BY <3>1, <3>2, <3>3
  <2> QED BY <1>2, <2>1, <2>2, <2>3, <2>4 DEF Merging
<1> QED BY <1>8, <1>9, <1>10, <1>11, <1>12, <1>13 DEF IInv

LEMMA MergeNewStep ==
    ASSUME IInv, MergeNew
    PROVE  IInv'
<1> DEFINE rc == Head(todo)
           top == maxIndex + 1
           new == Key(top, rc.name, rc.psk)
           e == Proto(top, rc)
           last == Len(channels) + 1
<1>1. /\ Merge /\ Existing(rc) = 0 /\ maxIndex' = top
      /\ channels' = Append(channels, new) /\ toInstall' = Append(toInstall, e)
  BY DEF MergeNew
<1>2. /\ at = "merge" /\ at' = "merge" /\ Active /\ rc \in RavenChannels
      /\ UNCHANGED <<ingress, files, raven, first, blank, radio, info>> /\ todo' \in Seq(RavenChannels)
      /\ Done' = Done + 1 /\ Done \in Nat /\ raven[Done + 1] = rc
      /\ Len(todo') <= Len(raven') /\ \A m \in DOMAIN todo' : todo'[m] = raven'[Done' + m]
  BY <1>1, MergeAdvances DEF configVars
<1>3. /\ TypeOK /\ WellNamed /\ AllPlaced /\ Agrees /\ Merging
      /\ channels \in Seq(ChannelKey) /\ toInstall \in Seq(Channel) /\ maxIndex \in Nat
  BY <1>2 DEF IInv, TypeOK
<1>4. \A n \in DOMAIN channels : channels[n].name # rc.name
  BY <1>1, <1>3, ExistingFinds
<1>5. /\ rc.name \in Names /\ rc.psk \in Psks /\ top \in Nat
  BY <1>2, <1>3 DEF RavenChannels
<1>6. /\ new \in ChannelKey /\ new.index = top /\ new.name = rc.name /\ new.key = Expand(rc.psk)
  BY <1>5 DEF Key, ChannelKey
<1>7. /\ e \in Channel /\ e.index = top /\ e.settings.name = rc.name
  BY <1>5 DEF Proto, Channel, Settings
<1>8. /\ channels' \in Seq(ChannelKey) /\ channels'[last] = new /\ last \in DOMAIN channels'
      /\ \A k \in DOMAIN channels : k \in DOMAIN channels' /\ channels'[k] = channels[k]
      /\ \A k \in DOMAIN channels' : k \in DOMAIN channels \/ k = last
      /\ last \notin DOMAIN channels /\ DOMAIN channels = 1..(last - 1)
  <2> HIDE DEF new
  <2> QED BY <1>1, <1>3, <1>6
<1>9. /\ toInstall' \in Seq(Channel) /\ Len(toInstall') = Len(toInstall) + 1
      /\ toInstall'[Len(toInstall')] = e /\ Len(toInstall) \in Nat
      /\ \A m \in DOMAIN toInstall : toInstall'[m] = toInstall[m]
      /\ \A i : i # e.index => Pending(i)' = Pending(i)
  <2> HIDE DEF e
  <2> QED BY <1>1, <1>3, <1>7, PendingGrows
<1>10. \A k \in DOMAIN channels : channels[k].index < top
  <2>1. ASSUME NEW k \in DOMAIN channels PROVE channels[k].index \in Nat /\ channels[k].index <= maxIndex
    BY <1>3, <2>1, TableFields DEF WellNamed
  <2> QED BY <1>3, <2>1
<1>11. TypeOK'
  BY <1>2, <1>1, <1>3, <1>5, <1>8, <1>9 DEF TypeOK
<1>12. /\ raven' = Load(files') /\ NoTwins' /\ KeepsPlaces'
       /\ (\E d \in ToSet(raven') : d.name = Unnamed) => blank'
  BY <1>2, HistoryStays DEF IInv
\* A name not in the table is shown as another's only when one has none.
<1>13. WellNamed'
  <2> HIDE DEF new
  <2>1. ASSUME NEW k \in DOMAIN channels
        PROVE  channels[k].index \in Nat /\ channels[k].index # new.index /\ channels[k].name # new.name
    BY <1>3, <1>4, <1>5, <1>6, <1>10, TableFields
  <2>2. rc.name = Unnamed => blank
    <3>1. rc \in ToSet(raven)
      BY <1>1, MergeAdvances
    <3> QED BY <3>1 DEF IInv
  <2>3. ASSUME NEW k \in DOMAIN channels, DisplayName(channels[k].name) = DisplayName(new.name)
        PROVE  blank /\ DisplayName(new.name) = DefaultName
    <3>1. channels[k].name \in Names /\ new.name \in Names
      BY <1>3, <1>5, <1>6, TableFields
    <3>2. channels[k].name = Unnamed => blank
      BY <1>3 DEF WellNamed
    <3>3. channels[k].name = Unnamed \/ new.name = Unnamed
      BY <2>1, <2>3, <3>1, ShownNames
    <3> QED BY <1>6, <2>2, <2>3, <3>2, <3>3 DEF DisplayName
  <2>4. \A m, n \in DOMAIN channels' :
            channels'[m].index = channels'[n].index => channels'[m].name = channels'[n].name
    BY <1>3, <1>8, <2>1 DEF WellNamed
  <2>5. \A n \in DOMAIN channels' : channels'[n].index <= maxIndex'
    <3>1. new.index <= maxIndex'
      BY <1>1, <1>5, <1>6
    <3>2. ASSUME NEW k \in DOMAIN channels PROVE channels[k].index <= maxIndex'
      BY <1>1, <1>5, <1>10, <2>1
    <3> QED BY <1>8, <3>1, <3>2
  <2>6. \A n \in DOMAIN channels' : channels'[n].name = Unnamed => blank'
    BY <1>2, <1>3, <1>6, <1>8, <2>2 DEF WellNamed
  <2>7. ASSUME NEW m \in DOMAIN channels', NEW n \in DOMAIN channels',
               channels'[m].index # channels'[n].index,
               DisplayName(channels'[m].name) = DisplayName(channels'[n].name)
        PROVE  MayShare(channels[m].index, channels[n].index, DisplayName(channels[m].name))'
    <3>1. CASE m = last \/ n = last
      BY <1>2, <1>8, <2>3, <2>7, <3>1 DEF MayShare
    <3>2. CASE m \in DOMAIN channels /\ n \in DOMAIN channels
      <4>1. MayShare(channels[m].index, channels[n].index, DisplayName(channels[m].name))
        BY <1>3, <1>8, <2>7, <3>2 DEF WellNamed
      <4> QED BY <1>2, <1>8, <3>2, <4>1 DEF MayShare, InUse
    <3> QED BY <1>8, <3>1, <3>2
  <2> QED BY <2>4, <2>5, <2>6, <2>7 DEF WellNamed
<1>14. AllPlaced'
  <2>1. \A i, name : Placed(i, name) => Placed(i, name)'
    BY <1>8 DEF Placed
  <2>2. \A i \in InUse(radio)' : Placed(i, DisplayName(radio[i].name))'
    BY <1>2, <1>3, <2>1 DEF AllPlaced, InUse
  <2>3. \A i, name : i = top /\ name = DisplayName(rc.name) => Placed(i, name)'
    BY <1>6, <1>8 DEF Placed
  <2>4. ASSUME NEW m \in DOMAIN toInstall'
        PROVE  \A i, name : i = toInstall'[m].index /\ name = DisplayName(toInstall'[m].settings.name)
                            => Placed(i, name)'
    <3>1. m \in DOMAIN toInstall \/ m = Len(toInstall')
      BY <1>3, <1>9
    <3>2. CASE m \in DOMAIN toInstall
      BY <1>3, <1>9, <2>1, <3>2 DEF AllPlaced
    <3>3. CASE m = Len(toInstall')
      BY <1>7, <1>9, <2>3, <3>3
    <3> QED BY <3>1, <3>2, <3>3
  <2> QED BY <2>2, <2>4 DEF AllPlaced
<1>15. Agrees'
  <2>1. ASSUME NEW k \in DOMAIN channels', FirstFor(channels', k), channels'[k].index \in Slot
        PROVE  WillFit(channels[k])'
    <3>1. PICK c : c = channels'[k]
      OBVIOUS
    <3>2. CASE k = last
      <4>1. c.index = top /\ c.key = Expand(rc.psk)
        BY <1>6, <1>8, <3>1, <3>2
      <4>2. toInstall' = Append(toInstall, Proto(c.index, rc)) /\ Proto(c.index, rc) \in Channel
        BY <1>1, <1>7, <4>1
      <4>3. WillFit(c)'
        BY <1>2, <1>3, <4>1, <4>2, AddedFits
      <4> QED BY <3>1, <4>3
    <3>3. CASE k \in DOMAIN channels
      <4>0. FirstFor(channels, k)
        BY <1>3, <1>8, <2>1, <3>3 DEF FirstFor
      <4>1. c = channels[k] /\ c.index # e.index /\ WillFit(c)
        BY <1>3, <1>4, <1>5, <1>7, <1>8, <1>10, <2>1, <3>1, <3>3, <4>0 DEF Agrees, ChannelKey
      <4>2. Pending(c.index)' = Pending(c.index)
        BY <1>9, <4>1
      <4>3. \A m \in Pending(c.index) : toInstall'[m] = toInstall[m]
        BY <1>9 DEF Pending
      <4>4. WillFit(c)'
        BY <1>2, <4>1, <4>2, <4>3, OthersFit
      <4> QED BY <3>1, <4>4
    <3> QED BY <1>8, <3>2, <3>3
  <2> QED BY <2>1 DEF Agrees
<1>16. Merging'
  <2>1. Captured'
    BY <1>2, <1>3 DEF Merging, Captured, InUse
  <2>2. ASSUME NEW k \in DOMAIN channels'
        PROVE  IF Counts(k)' THEN FromRavenOrRadio(channels[k])' ELSE channels'[k] \in Had'
    <3>1. PICK c : c = channels'[k]
      OBVIOUS
    <3>2. CASE k = last
      <4>1. Counts(k)'
        <5> HIDE DEF new
        <5>1. DOMAIN channels = 1..(k - 1) /\ channels'[k].name = rc.name
          BY <1>6, <1>8, <3>2
        <5> QED BY <1>4, <1>8, <5>1 DEF Counts
      <4>2. FromRavenOrRadio(c)'
        BY <1>1, <1>6, <1>8, <3>1, <3>2, MergedIsRavens
      <4> QED BY <3>1, <3>2, <4>1, <4>2
    <3>3. CASE k \in DOMAIN channels
      <4>0. Counts(k)' <=> Counts(k)
        <5>1. \A m \in 1..(k - 1) : m \in DOMAIN channels
          BY <1>3, <3>3
        <5> HIDE DEF new
        <5> QED BY <1>8, <3>3, <5>1 DEF Counts
      <4>1. c = channels[k] /\ c.name # rc.name
        BY <1>3, <1>4, <1>8, <3>1, <3>3
      <4>2. CASE Counts(k)
        <5>1. FromRavenOrRadio(c)
          BY <1>3, <3>3, <4>1, <4>2 DEF Merging
        <5>2. FromRavenOrRadio(c)'
          BY <1>1, <4>1, <5>1, OthersStay
        <5> QED BY <3>1, <4>0, <4>2, <5>2
      <4>3. CASE ~Counts(k)
        BY <1>2, <1>3, <3>1, <3>3, <4>0, <4>1, <4>3 DEF Merging, Had
      <4> QED BY <4>2, <4>3
    <3> QED BY <1>8, <3>2, <3>3
  <2>3. \A c \in Had' : \E k \in DOMAIN channels' : channels'[k].name = c.name
    <3>1. Had' = Had
      BY <1>2 DEF Had
    <3>2. \A c \in Had : \E k \in DOMAIN channels : channels[k].name = c.name
      BY <1>3 DEF Merging
    <3> QED BY <1>8, <3>1, <3>2
  <2>4. ASSUME NEW m \in 1..Done' PROVE \E k \in DOMAIN channels' : channels'[k].name = raven'[m].name
    <3>1. m \in 1..Done \/ m = Done + 1
      BY <1>2
    <3>2. CASE m = Done + 1
      BY <1>2, <1>6, <1>8, <3>2
    <3>3. CASE m \in 1..Done
      <4>1. \E k \in DOMAIN channels : channels[k].name = raven[m].name
        BY <1>3, <3>3 DEF Merging
      <4> QED BY <1>2, <1>8, <4>1
    <3> QED BY <3>1, <3>2, <3>3
  <2> QED BY <1>2, <2>1, <2>2, <2>3, <2>4 DEF Merging
<1> QED BY <1>11, <1>12, <1>13, <1>14, <1>15, <1>16 DEF IInv

\* Downlink is switched on, and nothing else (main.rs:205-223).
LEMMA DownlinkOnly ==
    ASSUME NEW ch \in Channel
    PROVE  LET on == [ch EXCEPT !.settings.downlink = TRUE]
           IN  /\ on \in Channel /\ on.index = ch.index
               /\ on.settings.name = ch.settings.name /\ on.settings.psk = ch.settings.psk
               /\ on.settings.downlink
<1>1. ch.settings \in Settings /\ ch.index \in Nat
  BY DEF Channel
<1> DEFINE on == [ch.settings EXCEPT !.downlink = TRUE]
<1>2. on \in Settings /\ on.name = ch.settings.name /\ on.psk = ch.settings.psk /\ on.downlink
  <2>1. \A s \in Settings :
            /\ [s EXCEPT !.downlink = TRUE] \in Settings
            /\ [s EXCEPT !.downlink = TRUE].name = s.name
            /\ [s EXCEPT !.downlink = TRUE].psk = s.psk
            /\ [s EXCEPT !.downlink = TRUE].downlink
    BY DEF Settings
  <2> QED BY <1>1, <2>1
<1>3. /\ [ch EXCEPT !.settings.downlink = TRUE].index = ch.index
      /\ [ch EXCEPT !.settings.downlink = TRUE].settings = on
  BY DEF Channel
<1>4. [ch EXCEPT !.settings.downlink = TRUE] \in Channel
  <2>1. \A s \in Settings : [ch EXCEPT !.settings = s] \in Channel
    BY DEF Channel
  <2> QED BY <1>2, <2>1
<1> QED BY <1>2, <1>3, <1>4

\* The list of proxy mode: what was on it, and the radio's channels without
\* downlink whose slots were not, each once.
LEMMA ExtendedList ==
    ASSUME TypeOK, Captured, toInstall' \in WithDownlink
    PROVE  LET L == Len(toInstall) IN
           /\ toInstall' \in Seq(Channel) /\ L \in Nat /\ L <= Len(toInstall')
           /\ \A m \in DOMAIN toInstall' : toInstall'[m].settings.downlink
           /\ \A m \in 1..L :
                  /\ m \in DOMAIN toInstall' /\ toInstall'[m].index = toInstall[m].index
                  /\ toInstall'[m].settings.name = toInstall[m].settings.name
                  /\ toInstall'[m].settings.psk = toInstall[m].settings.psk
           /\ \A m \in DOMAIN toInstall' : m > L =>
                  /\ Pending(toInstall'[m].index) = {}
                  /\ toInstall'[m].index \in InUse(radio)
                  /\ toInstall'[m].settings.name = radio[toInstall'[m].index].name
                  /\ toInstall'[m].settings.psk = radio[toInstall'[m].index].psk
           /\ \A m, n \in DOMAIN toInstall' :
                  m > L /\ n > L /\ toInstall'[m].index = toInstall'[n].index => m = n
           /\ \A i \in InUse(radio) :
                  Pending(i) = {} /\ ~radio[i].downlink
                      => \E m \in DOMAIN toInstall' : m > L /\ toInstall'[m].index = i
<1> DEFINE L == Len(toInstall)
           P == {n \in DOMAIN info : /\ FirstFor(info, n) /\ ~info[n].settings.downlink
                                     /\ \A c \in ToSet(toInstall) : c.index # info[n].index}
<1>1. /\ toInstall \in Seq(Channel) /\ info \in Seq(Channel) /\ L \in Nat /\ Len(info) \in Nat
      /\ DOMAIN info = 1..Len(info) /\ DOMAIN toInstall = 1..L
  BY DEF TypeOK
<1>2. PICK more \in InOrder(P) : toInstall' = Extended(more)
  BY DEF WithDownlink
<1>3. IsFiniteSet(P)
  <2>1. IsFiniteSet(1..Len(info))
    BY <1>1, FS_Interval
  <2> QED BY <1>1, <2>1, FS_Subset
<1>4. /\ more \in Seq(P) /\ DOMAIN more = 1..Len(more)
      /\ \A m, n \in DOMAIN more : m < n => more[m] < more[n]
      /\ \A i \in P : \E n \in DOMAIN more : more[n] = i
  <2> HIDE DEF P
  <2> QED BY <1>2, <1>3, OrderedList
<1>5. /\ Len(more) \in Nat
      /\ \A n \in DOMAIN more : more[n] \in P /\ more[n] \in DOMAIN info
  <2> HIDE DEF P
  <2>1. \A n \in DOMAIN more : more[n] \in P
    BY <1>4
  <2> QED BY <1>4, <2>1 DEF P
<1>6. \A m, n \in DOMAIN more : more[m] = more[n] => m = n
  <2> SUFFICES ASSUME NEW m \in DOMAIN more, NEW n \in DOMAIN more, m < n PROVE more[m] # more[n]
    BY <1>4, <1>5
  <2> QED BY <1>1, <1>4, <1>5
<1> DEFINE extra == [n \in DOMAIN more |-> info[more[n]]]
           all == toInstall \o extra
<1>7. /\ extra \in Seq(Channel) /\ Len(extra) = Len(more)
      /\ \A n \in DOMAIN more : extra[n] = info[more[n]]
  <2>1. \A n \in 1..Len(more) : info[more[n]] \in Channel
    BY <1>1, <1>4, <1>5
  <2> QED BY <1>4, <1>5, <2>1
<1>8. /\ all \in Seq(Channel) /\ Len(all) = L + Len(more) /\ DOMAIN all = 1..Len(all)
      /\ \A m \in 1..L : all[m] = toInstall[m]
      /\ \A m \in (L + 1)..Len(all) : m - L \in DOMAIN more /\ all[m] = info[more[m - L]]
  <2> DEFINE C == Channel
  <2>0. toInstall \in Seq(C) /\ extra \in Seq(C) /\ Len(extra) \in Nat
    BY <1>1, <1>5, <1>7
  <2> HIDE DEF extra, C
  <2>1. /\ all \in Seq(Channel) /\ Len(all) = L + Len(more) /\ DOMAIN all = 1..Len(all)
        /\ \A m \in 1..L : all[m] = toInstall[m]
        /\ \A m \in (L + 1)..Len(all) : all[m] = extra[m - L]
    <3>1. /\ all \in Seq(C) /\ Len(all) = L + Len(extra) /\ DOMAIN all = 1..Len(all)
          /\ \A m \in 1..L : all[m] = toInstall[m]
          /\ \A m \in (L + 1)..Len(all) : all[m] = extra[m - L]
      BY <2>0
    <3> QED BY <1>7, <3>1 DEF C
  <2>2. \A m \in (L + 1)..Len(all) : m - L \in 1..Len(more)
    BY <1>1, <1>5, <2>1
  <2> QED BY <1>4, <1>7, <2>1, <2>2
<1>9. toInstall' = [n \in DOMAIN all |-> [all[n] EXCEPT !.settings.downlink = TRUE]]
  BY <1>2 DEF Extended
<1> HIDE DEF all, extra, P, L
<1>10. ASSUME NEW m \in DOMAIN all
       PROVE  /\ toInstall'[m] \in Channel /\ toInstall'[m].index = all[m].index
              /\ toInstall'[m].settings.name = all[m].settings.name
              /\ toInstall'[m].settings.psk = all[m].settings.psk /\ toInstall'[m].settings.downlink
  <2>1. all[m] \in Channel
    BY <1>8
  <2> QED BY <1>9, <2>1, DownlinkOnly
<1>11. toInstall' \in Seq(Channel) /\ DOMAIN toInstall' = DOMAIN all /\ Len(toInstall') = Len(all)
  <2>1. Len(all) \in Nat
    BY <1>8
  <2>2. DOMAIN toInstall' = 1..Len(all) /\ \A m \in 1..Len(all) : toInstall'[m] \in Channel
    BY <1>8, <1>9, <1>10
  <2>3. toInstall' = [m \in 1..Len(all) |-> toInstall'[m]]
    BY <1>8, <1>9
  <2> QED BY <1>8, <2>1, <2>2, <2>3
<1>12. ASSUME NEW m \in DOMAIN toInstall', m > L
       PROVE  /\ m - L \in DOMAIN more /\ more[m - L] \in P /\ more[m - L] \in DOMAIN info
              /\ all[m] = info[more[m - L]]
  <2>1. m \in (L + 1)..Len(all)
    BY <1>1, <1>8, <1>11, <1>12
  <2> QED BY <1>5, <1>8, <2>1
<1>13. ASSUME NEW m \in DOMAIN toInstall', m > L
       PROVE  /\ Pending(toInstall'[m].index) = {}
              /\ toInstall'[m].index \in InUse(radio)
              /\ toInstall'[m].settings.name = radio[toInstall'[m].index].name
              /\ toInstall'[m].settings.psk = radio[toInstall'[m].index].psk
  <2> DEFINE ch == info[more[m - L]]
  <2>1. toInstall'[m].index = ch.index
    BY <1>10, <1>11, <1>12, <1>13
  <2>2. /\ toInstall'[m].settings.name = ch.settings.name
        /\ toInstall'[m].settings.psk = ch.settings.psk
    BY <1>10, <1>11, <1>12, <1>13
  <2>3. ch.index \in InUse(radio) /\ radio[ch.index] = ch.settings
    BY <1>12, <1>13 DEF Captured
  <2>4. \A c \in ToSet(toInstall) : c.index # ch.index
    BY <1>12, <1>13 DEF P
  <2>5. Pending(ch.index) = {}
    BY <2>4 DEF Pending, ToSet
  <2> QED BY <2>1, <2>2, <2>3, <2>5
<1>14. ASSUME NEW m \in DOMAIN toInstall', NEW n \in DOMAIN toInstall', m > L, n > L,
              toInstall'[m].index = toInstall'[n].index
       PROVE  m = n
  <2>1. info[more[m - L]].index = info[more[n - L]].index
    BY <1>10, <1>11, <1>12, <1>14
  <2>2. more[m - L] = more[n - L]
    <3>1. /\ FirstFor(info, more[m - L]) /\ FirstFor(info, more[n - L])
          /\ more[m - L] \in 1..Len(info) /\ more[n - L] \in 1..Len(info)
      BY <1>1, <1>12, <1>14 DEF P
    <3> QED BY <1>1, <2>1, <3>1, OneIsFirst
  <2>3. m - L = n - L
    BY <1>6, <1>12, <1>14, <2>2
  <2> QED BY <1>1, <1>8, <1>11, <2>3
<1>15. ASSUME NEW i \in InUse(radio), Pending(i) = {}, ~radio[i].downlink
       PROVE  \E m \in DOMAIN toInstall' : m > L /\ toInstall'[m].index = i
  <2>1. PICK k \in DOMAIN info : info[k].index = i /\ FirstFor(info, k)
    <3> DEFINE S == {n \in DOMAIN info : info[n].index = i}
    <3>1. S \in SUBSET Nat /\ S # {}
      BY <1>1, <1>15 DEF Captured
    <3>2. PICK k \in S : \A n \in S : k <= n
      <4> HIDE DEF S
      <4> QED BY <3>1, HasMin
    <3>3. ASSUME NEW n \in 1..(k - 1) PROVE info[n].index # i
      <4>1. n \in DOMAIN info /\ ~(k <= n)
        BY <1>1, <3>2
      <4> QED BY <3>2, <4>1
    <3> QED BY <3>2, <3>3 DEF FirstFor
  <2>2. ~info[k].settings.downlink
    BY <1>15, <2>1 DEF Captured
  <2>3. k \in P
    BY <1>15, <2>1, <2>2 DEF P, Pending, ToSet
  <2>4. PICK n \in DOMAIN more : more[n] = k
    BY <1>4, <2>3
  <2>5. L + n \in DOMAIN all /\ L + n > L /\ (L + n) - L = n /\ L + n \in (L + 1)..Len(all)
    BY <1>1, <1>4, <1>5, <1>8, <2>4
  <2>6. all[L + n] = info[k]
    BY <1>8, <2>4, <2>5
  <2> QED BY <1>10, <1>11, <2>1, <2>5, <2>6
<1>16. \A m \in 1..L :
           /\ m \in DOMAIN toInstall' /\ toInstall'[m].index = toInstall[m].index
           /\ toInstall'[m].settings.name = toInstall[m].settings.name
           /\ toInstall'[m].settings.psk = toInstall[m].settings.psk
  <2>1. \A m \in 1..L : m \in DOMAIN all /\ all[m] = toInstall[m]
    BY <1>1, <1>5, <1>8
  <2> QED BY <1>10, <1>11, <2>1
<1>17. /\ L \in Nat /\ L <= Len(toInstall')
       /\ \A m \in DOMAIN toInstall' : toInstall'[m].settings.downlink
  BY <1>1, <1>5, <1>8, <1>10, <1>11
<1> QED BY <1>11, <1>13, <1>14, <1>15, <1>16, <1>17 DEF L

\* After the merge, its account stays.
LEMMA MergeStays ==
    ASSUME Merging, todo = <<>>, at' # "merge", at' = "bridge" => toInstall' = <<>>,
           UNCHANGED <<raven, todo, info, channels>>
    PROVE  Merging'
<1>1. Done' = Done /\ Had' = Had
  BY DEF Done, Had
<1>2. \A m, name : LastOf(m, name)' <=> LastOf(m, name)
  BY <1>1 DEF LastOf
<1>3. \A n : FromRavenOrRadio(channels[n]) => FromRavenOrRadio(channels[n])'
  BY <1>1, <1>2 DEF FromRavenOrRadio
<1>4. \A n : Counts(n)' <=> Counts(n)
  BY DEF Counts
<1> QED BY <1>1, <1>3, <1>4 DEF Merging

\* A place in the table is kept while the table is.
LEMMA PlacesStay ==
    ASSUME UNCHANGED channels, NEW i, NEW name, Placed(i, name)
    PROVE  Placed(i, name)'
  BY DEF Placed

LEMMA ListedStep ==
    ASSUME IInv, Listed
    PROVE  IInv'
<1>1. /\ at = "merge" /\ todo = <<>> /\ at' = "install" /\ Active
      /\ UNCHANGED <<configVars, radio, info, todo, channels, maxIndex>>
      /\ UNCHANGED <<ingress, files, raven, first, blank>>
  BY DEF Listed, configVars, Active
<1>2. /\ TypeOK /\ WellNamed /\ AllPlaced /\ Agrees /\ Merging /\ Captured
      /\ channels \in Seq(ChannelKey) /\ toInstall \in Seq(Channel)
  BY <1>1 DEF IInv, Merging, TypeOK
<1>3. /\ raven' = Load(files') /\ NoTwins' /\ KeepsPlaces'
      /\ (\E d \in ToSet(raven') : d.name = Unnamed) => blank'
  BY <1>1, HistoryStays
<1>4. WellNamed' /\ Merging'
  BY <1>1, <1>2, MergeStays, NamesStay
<1>5. \A i \in InUse(radio)' : Placed(i, DisplayName(radio[i].name))'
  BY <1>1, <1>2 DEF AllPlaced, InUse, Placed
<1>6. CASE ingress # "MqttProxy"
  <2>1. toInstall' = toInstall
    BY <1>6 DEF Listed
  <2>2. TypeOK'
    BY <1>1, <1>2, <2>1 DEF TypeOK
  <2>3. AllPlaced'
    BY <1>2, <1>1, <1>5, <2>1 DEF AllPlaced, Placed
  <2>4. Agrees'
    <3>1. ASSUME NEW n \in DOMAIN channels, FirstFor(channels, n), channels[n].index \in Slot
          PROVE  WillFit(channels[n])'
      <4>1. WillFit(channels[n]) /\ Pending(channels[n].index)' = Pending(channels[n].index)
        BY <1>1, <1>2, <2>1, <3>1 DEF Agrees, Pending
      <4> QED BY <1>1, <1>6, <2>1, <4>1 DEF WillFit, Fits
    <3> QED BY <1>1, <3>1 DEF Agrees, FirstFor
  <2> QED BY <1>3, <1>4, <2>2, <2>3, <2>4 DEF IInv
<1>7. CASE ingress = "MqttProxy"
  <2> DEFINE L == Len(toInstall)
  <2>1. toInstall' \in WithDownlink
    BY <1>7 DEF Listed
  <2>2. /\ toInstall' \in Seq(Channel) /\ L \in Nat /\ L <= Len(toInstall')
        /\ \A m \in DOMAIN toInstall' : toInstall'[m].settings.downlink
        /\ \A m \in 1..L :
               /\ m \in DOMAIN toInstall' /\ toInstall'[m].index = toInstall[m].index
               /\ toInstall'[m].settings.name = toInstall[m].settings.name
               /\ toInstall'[m].settings.psk = toInstall[m].settings.psk
        /\ \A m \in DOMAIN toInstall' : m > L =>
               /\ Pending(toInstall'[m].index) = {}
               /\ toInstall'[m].index \in InUse(radio)
               /\ toInstall'[m].settings.name = radio[toInstall'[m].index].name
               /\ toInstall'[m].settings.psk = radio[toInstall'[m].index].psk
        /\ \A m, n \in DOMAIN toInstall' :
               m > L /\ n > L /\ toInstall'[m].index = toInstall'[n].index => m = n
        /\ \A i \in InUse(radio) :
               Pending(i) = {} /\ ~radio[i].downlink
                   => \E m \in DOMAIN toInstall' : m > L /\ toInstall'[m].index = i
    BY <1>2, <2>1, ExtendedList
  <2>3. DOMAIN toInstall = 1..L /\ \A m \in DOMAIN toInstall' : m \in Nat /\ (m \in 1..L \/ m > L)
    BY <1>2, <2>2
  <2> HIDE DEF L
  <2>4. TypeOK'
    BY <1>1, <1>2, <2>2 DEF TypeOK
  <2>5. AllPlaced'
    <3>1. ASSUME NEW m \in DOMAIN toInstall'
          PROVE  \A i, name : i = toInstall'[m].index /\ name = DisplayName(toInstall'[m].settings.name)
                              => Placed(i, name)
      <4>1. CASE m \in 1..L
        BY <1>2, <2>2, <2>3, <4>1 DEF AllPlaced
      <4>2. CASE m > L
        BY <1>2, <2>2, <4>2 DEF AllPlaced
      <4> QED BY <2>3, <4>1, <4>2
    <3>2. \A i, name : Placed(i, name) => Placed(i, name)'
      BY <1>1, PlacesStay
    <3> QED BY <1>5, <3>1, <3>2 DEF AllPlaced
  <2>6. Agrees'
    <3>1. ASSUME NEW n \in DOMAIN channels, FirstFor(channels, n), channels[n].index \in Slot
          PROVE  WillFit(channels[n])'
      <4>1. PICK c : c = channels[n]
        OBVIOUS
      <4> DEFINE i == c.index
      <4>2. WillFit(c) /\ i \in Slot
        BY <1>2, <3>1, <4>1 DEF Agrees
      <4>3. CASE Pending(i) # {}
        <5>1. PICK m \in Pending(i) :
                  (\A k \in Pending(i) : k <= m) /\ Expand(toInstall[m].settings.psk) = c.key
          BY <4>2, <4>3 DEF WillFit, Fits
        <5>2. Pending(i)' = Pending(i)
          <6>1. \A k \in DOMAIN toInstall' : k > L => toInstall'[k].index # i
            BY <2>2, <4>3
          <6> QED BY <2>2, <2>3, <6>1 DEF Pending
        <5>3. /\ m \in Pending(i)' /\ m \in DOMAIN toInstall'
              /\ toInstall'[m].settings.psk = toInstall[m].settings.psk
          BY <2>2, <2>3, <5>2 DEF Pending
        <5>4. Fits(toInstall[m].settings, c)'
          BY <2>2, <5>1, <5>3 DEF Fits
        <5>5. WillFit(c)'
          BY <5>1, <5>2, <5>3, <5>4 DEF WillFit
        <5> QED BY <1>1, <4>1, <5>5
      <4>4. CASE Pending(i) = {}
        <5>1. radio[i] # Disabled /\ Expand(radio[i].psk) = c.key /\ i \in InUse(radio)
          BY <4>2, <4>4 DEF WillFit, Fits, InUse
        <5>2. \A k \in Pending(i)' : k \in DOMAIN toInstall' /\ k > L /\ toInstall'[k].index = i
          BY <2>2, <2>3, <4>4 DEF Pending
        <5>3. CASE Pending(i)' = {}
          <6>1. radio[i].downlink
            BY <2>2, <4>4, <5>1, <5>3 DEF Pending
          <6>2. WillFit(c)'
            BY <1>1, <5>1, <5>3, <6>1 DEF WillFit, Fits
          <6> QED BY <1>1, <4>1, <6>2
        <5>4. CASE Pending(i)' # {}
          <6>1. PICK m : m \in Pending(i)'
            BY <5>4
          <6>2. \A k \in Pending(i)' : k <= m
            BY <2>2, <2>3, <5>2, <6>1
          <6>3. toInstall'[m].settings.psk = radio[i].psk /\ toInstall'[m].settings.downlink
            BY <2>2, <5>2, <6>1
          <6>4. Fits(toInstall[m].settings, c)'
            BY <5>1, <6>3 DEF Fits
          <6>5. WillFit(c)'
            BY <6>1, <6>2, <6>4 DEF WillFit
          <6> QED BY <1>1, <4>1, <6>5
        <5> QED BY <5>3, <5>4
      <4> QED BY <4>3, <4>4
    <3> QED BY <1>1, <3>1 DEF Agrees, FirstFor
  <2> QED BY <1>3, <1>4, <2>4, <2>5, <2>6 DEF IInv
<1> QED BY <1>6, <1>7

LEMMA InstallStep ==
    ASSUME IInv, Install
    PROVE  IInv'
<1> DEFINE h == toInstall[1]
<1>1. /\ at = "install" /\ at' = "install" /\ Active /\ toInstall # <<>>
      /\ radio' = Stores(Head(toInstall)) /\ toInstall' = Tail(toInstall)
      /\ UNCHANGED <<ingress, files, raven, first, blank, info, todo, channels, maxIndex>>
  BY DEF Install, configVars, Active
<1>2. /\ TypeOK /\ WellNamed /\ AllPlaced /\ Agrees /\ Merging /\ NoTwins /\ KeepsPlaces
      /\ channels \in Seq(ChannelKey) /\ toInstall \in Seq(Channel)
      /\ radio \in [Slot -> Settings \cup {Disabled}]
  BY <1>1 DEF IInv, TypeOK
<1>3. /\ toInstall' \in Seq(Channel) /\ 1 \in DOMAIN toInstall /\ Head(toInstall) = h
      /\ \A m \in DOMAIN toInstall' :
             m \in Nat /\ m + 1 \in DOMAIN toInstall /\ toInstall'[m] = toInstall[m + 1]
      /\ \A m \in DOMAIN toInstall : m \in Nat /\ (m = 1 \/ (m > 1 /\ m - 1 \in DOMAIN toInstall'))
  BY <1>1, <1>2
<1>4. h \in Channel /\ h.settings \in Settings /\ h.settings # Disabled
  BY <1>2, <1>3, ListFields, DisabledIsNone
<1>5. /\ radio' \in [Slot -> Settings \cup {Disabled}]
      /\ \A i \in Slot : radio'[i] = IF i = h.index THEN h.settings ELSE radio[i]
  BY <1>1, <1>2, <1>3, <1>4 DEF Stores
<1>6. \A i \in InUse(radio)' :
          /\ i \in Slot /\ Placed(i, DisplayName(radio'[i].name))
          /\ i # h.index => i \in InUse(radio)
  <2>1. ASSUME NEW i \in Slot, radio'[i] # Disabled PROVE Placed(i, DisplayName(radio'[i].name))
    <3>1. CASE i = h.index
      <4>1. radio'[i] = toInstall[1].settings
        BY <1>5, <3>1
      <4> QED BY <1>2, <1>3, <3>1, <4>1 DEF AllPlaced
    <3>2. CASE i # h.index
      BY <1>2, <1>5, <2>1, <3>2 DEF AllPlaced, InUse
    <3> QED BY <3>1, <3>2
  <2> QED BY <1>5, <2>1 DEF InUse
<1>7. TypeOK'
  BY <1>1, <1>2, <1>3, <1>5 DEF TypeOK
<1>8. WellNamed' /\ Merging'
  <2>1. todo = <<>>
    BY <1>1, <1>2 DEF Merging
  <2> QED BY <1>1, <1>2, <2>1, MergeStays, NamesStay
\* Two slots with one name are two entries of the table with that name.
<1>9. NoTwins'
  <2>1. ASSUME NEW i \in InUse(radio)', NEW j \in InUse(radio)', i # j,
               DisplayName(radio'[i].name) = DisplayName(radio'[j].name)
        PROVE  MayShare(i, j, DisplayName(radio[i].name))'
    <3>1. PICK m \in DOMAIN channels :
              channels[m].index = i /\ DisplayName(channels[m].name) = DisplayName(radio'[i].name)
      BY <1>6 DEF Placed
    <3>2. PICK n \in DOMAIN channels :
              channels[n].index = j /\ DisplayName(channels[n].name) = DisplayName(radio'[j].name)
      BY <1>6 DEF Placed
    <3>3. MayShare(i, j, DisplayName(radio'[i].name))
      BY <1>2, <2>1, <3>1, <3>2 DEF WellNamed
    <3> QED BY <1>1, <3>3 DEF MayShare, InUse
  <2> QED BY <2>1 DEF NoTwins
\* The channel of the table at a slot in use has the slot's name.
<1>10. KeepsPlaces'
  <2>1. ASSUME NEW i \in Slot, first[i] # Disabled
        PROVE  radio'[i] # Disabled /\ DisplayName(radio'[i].name) = DisplayName(first[i].name)
    <3>1. radio[i] # Disabled /\ DisplayName(radio[i].name) = DisplayName(first[i].name)
      BY <1>2, <2>1 DEF KeepsPlaces
    <3>2. radio'[i] # Disabled /\ i \in InUse(radio)'
      BY <1>4, <1>5, <3>1 DEF InUse
    <3>3. PICK m \in DOMAIN channels :
              channels[m].index = i /\ DisplayName(channels[m].name) = DisplayName(radio'[i].name)
      BY <1>6, <3>2 DEF Placed
    <3>4. PICK n \in DOMAIN channels :
              channels[n].index = i /\ DisplayName(channels[n].name) = DisplayName(radio[i].name)
      BY <1>2, <3>1 DEF AllPlaced, Placed, InUse
    <3>5. channels[m].name = channels[n].name
      BY <1>2, <3>3, <3>4 DEF WellNamed
    <3> QED BY <3>1, <3>2, <3>3, <3>4, <3>5
  <2> QED BY <1>1, <2>1 DEF KeepsPlaces
<1>11. AllPlaced'
  <2>1. \A i, name : Placed(i, name) => Placed(i, name)'
    BY <1>1, PlacesStay
  <2>2. \A i \in InUse(radio)' : Placed(i, DisplayName(radio[i].name))'
    BY <1>6, <2>1
  <2>3. ASSUME NEW m \in DOMAIN toInstall'
        PROVE  \A i, name : i = toInstall'[m].index /\ name = DisplayName(toInstall'[m].settings.name)
                            => Placed(i, name)
    BY <1>2, <1>3 DEF AllPlaced
  <2> QED BY <2>1, <2>2, <2>3 DEF AllPlaced
<1>12. Agrees'
  <2>1. ASSUME NEW n \in DOMAIN channels, FirstFor(channels, n), channels[n].index \in Slot
        PROVE  WillFit(channels[n])'
    <3>1. PICK c : c = channels[n]
      OBVIOUS
    <3> DEFINE i == c.index
    <3>2. WillFit(c) /\ i \in Slot
      BY <1>2, <2>1, <3>1 DEF Agrees
    <3>3. \A m \in Pending(i)' : m + 1 \in Pending(i) /\ m \in Nat /\ toInstall'[m] = toInstall[m + 1]
      BY <1>3 DEF Pending
    <3>4. \A m \in Pending(i) : m \in Nat /\ (m = 1 \/ (m > 1 /\ m - 1 \in Pending(i)'))
      BY <1>3 DEF Pending
    <3>5. CASE Pending(i) = {}
      <4>1. Pending(i)' = {}
        BY <3>3, <3>5
      <4>2. radio'[i] = radio[i]
        BY <1>3, <1>5, <3>2, <3>5 DEF Pending
      <4>3. WillFit(c)'
        BY <1>1, <3>2, <3>5, <4>1, <4>2 DEF WillFit, Fits
      <4> QED BY <1>1, <3>1, <4>3
    <3>6. CASE Pending(i) # {}
      <4>1. PICK m \in Pending(i) : (\A k \in Pending(i) : k <= m) /\ Fits(toInstall[m].settings, c)
        BY <3>2, <3>6 DEF WillFit
      <4>2. CASE m = 1
        <5>1. Pending(i)' = {}
          <6>1. ASSUME NEW k \in Pending(i)' PROVE FALSE
            <7>1. k + 1 \in Pending(i) /\ k \in Nat /\ k \in DOMAIN toInstall'
              BY <3>3 DEF Pending
            <7>2. k = 0
              BY <4>1, <4>2, <7>1
            <7> QED BY <1>3, <7>1, <7>2
          <6> QED BY <6>1
        <5>2. radio'[i] = toInstall[m].settings /\ radio'[i] # Disabled
          BY <1>4, <1>5, <3>2, <4>1, <4>2 DEF Pending
        <5>3. WillFit(c)'
          BY <1>1, <4>1, <5>1, <5>2 DEF WillFit, Fits
        <5> QED BY <1>1, <3>1, <5>3
      <4>3. CASE m # 1
        <5>1. PICK k : k = m - 1
          OBVIOUS
        <5>2. k \in Pending(i)' /\ m = k + 1 /\ \A l \in Pending(i)' : l <= k
          BY <3>3, <3>4, <4>1, <4>3, <5>1
        <5>3. toInstall'[k] = toInstall[m]
          BY <3>3, <5>2
        <5>4. Fits(toInstall[k].settings, c)'
          BY <1>1, <4>1, <5>3 DEF Fits
        <5>5. WillFit(c)'
          BY <5>2, <5>4 DEF WillFit
        <5> QED BY <1>1, <3>1, <5>5
      <4> QED BY <4>2, <4>3
    <3> QED BY <3>5, <3>6
  <2> QED BY <1>1, <2>1 DEF Agrees, FirstFor
<1>13. raven' = Load(files') /\ ((\E d \in ToSet(raven') : d.name = Unnamed) => blank')
  BY <1>1 DEF IInv
<1> QED BY <1>1, <1>7, <1>8, <1>9, <1>10, <1>11, <1>12, <1>13 DEF IInv

LEMMA StartBridgeStep ==
    ASSUME IInv, StartBridge
    PROVE  IInv'
<1>1. /\ at = "install" /\ at' = "bridge" /\ Active /\ toInstall = <<>> /\ ingress' \in {ingress, "Phone"}
      /\ UNCHANGED <<files, raven, first, blank, radio, info, todo, channels, maxIndex, toInstall>>
  BY DEF StartBridge, Active
<1>2. TypeOK /\ WellNamed /\ AllPlaced /\ Agrees /\ Merging
  BY <1>1 DEF IInv
<1>3. /\ raven' = Load(files') /\ NoTwins' /\ KeepsPlaces'
      /\ (\E d \in ToSet(raven') : d.name = Unnamed) => blank'
  BY <1>1, HistoryStays
<1>6. TypeOK' /\ WellNamed' /\ AllPlaced'
  BY <1>1, <1>2, NamesStay DEF TypeOK, AllPlaced, Placed, InUse
<1>4. Merging'
  <2>1. todo = <<>>
    BY <1>1, <1>2 DEF Merging
  <2> QED BY <1>1, <1>2, <2>1, MergeStays
<1>5. Agrees'
  <2>1. ASSUME NEW n \in DOMAIN channels, FirstFor(channels, n), channels[n].index \in Slot
        PROVE  WillFit(channels[n])'
    <3>1. Pending(channels[n].index) = {} /\ Pending(channels[n].index)' = {}
      BY <1>1 DEF Pending
    <3>2. WillFit(channels[n])
      BY <1>2, <2>1 DEF Agrees
    <3> QED BY <1>1, <3>1, <3>2 DEF WillFit, Fits
  <2> QED BY <1>1, <2>1 DEF Agrees, FirstFor
<1> QED BY <1>3, <1>4, <1>5, <1>6 DEF IInv

LEMMA SessionEndsStep ==
    ASSUME IInv, SessionEnds
    PROVE  IInv'
<1>1. /\ at' = "handshake"
      /\ UNCHANGED <<ingress, files, raven, first, blank, radio, info, todo, channels, maxIndex, toInstall>>
  BY DEF SessionEnds, configVars
<1>2. /\ raven' = Load(files') /\ NoTwins' /\ KeepsPlaces'
      /\ (\E d \in ToSet(raven') : d.name = Unnamed) => blank'
  BY <1>1, HistoryStays
<1>3. TypeOK' /\ ~Active'
  BY <1>1 DEF IInv, TypeOK, Active
<1> QED BY <1>2, <1>3 DEF IInv

LEMMA StepIInv == IInv /\ [Next]_vars => IInv'
<1> SUFFICES ASSUME IInv, [Next]_vars PROVE IInv'
  OBVIOUS
<1>1. CASE UNCHANGED vars
  <2>1. /\ UNCHANGED <<ingress, files, raven, first, blank, at, radio, info, todo, channels>>
        /\ UNCHANGED <<maxIndex, toInstall>>
    BY <1>1 DEF vars, configVars
  <2>2. /\ raven' = Load(files') /\ NoTwins' /\ KeepsPlaces'
        /\ (\E d \in ToSet(raven') : d.name = Unnamed) => blank'
    BY <2>1, HistoryStays
  <2>3. TypeOK' /\ (Active' <=> Active)
    BY <2>1 DEF IInv, TypeOK, Active
  <2>4. Active => WellNamed' /\ AllPlaced' /\ Agrees'
    BY <2>1, NamesStay
       DEF IInv, AllPlaced, Placed, Agrees, FirstFor, WillFit, Pending, Fits, InUse
  <2>5. Active => Merging'
    <3>1. Done' = Done /\ Had' = Had /\ (Captured <=> Captured')
      BY <2>1 DEF Done, Had, Captured, InUse
    <3>2. \A n : /\ FromRavenOrRadio(channels[n]) => FromRavenOrRadio(channels[n])'
                 /\ Counts(n) <=> Counts(n)'
      BY <2>1, <3>1 DEF FromRavenOrRadio, LastOf, Counts
    <3> QED BY <2>1, <3>1, <3>2 DEF IInv, Merging
  <2> QED BY <2>2, <2>3, <2>4, <2>5 DEF IInv
<1> QED BY <1>1, HandshakeStep, MergeKnownStep, MergeNewStep, ListedStep, InstallStep,
           StartBridgeStep, SessionEndsStep DEF Next

-----------------------------------------------------------------------------
(* The theorems. *)

\* IInv holds throughout (main.rs:158-230, raven.rs:56-200).
THEOREM AlwaysIInv == Spec => []IInv
<1> QED BY InitIInv, StepIInv, PTL DEF Spec

\* No write gives a name to a second slot of the radio, whatever becomes of
\* Raven's files, but for what MayShare says of a channel without a name
\* (raven.rs:149-194).
THEOREM NoTwinsEver == Spec => []NoTwins
<1>1. IInv => NoTwins
  BY DEF IInv
<1> QED BY AlwaysIInv, <1>1, PTL

\* A channel of the radio keeps its slot and its name.
THEOREM PlacesKept == Spec => []KeepsPlaces
<1>1. IInv => KeepsPlaces
  BY DEF IInv
<1> QED BY AlwaysIInv, <1>1, PTL

\* What the bridge enciphers the radio can read, and the other way round.
THEOREM BridgeMatches == Spec => []BridgeMatchesRadio
<1>1. IInv => BridgeMatchesRadio
  <2> SUFFICES ASSUME IInv, at = "bridge", NEW n \in DOMAIN channels, FirstFor(channels, n),
                      channels[n].index \in Slot
               PROVE  LET c == channels[n] IN
                      /\ radio[c.index] # Disabled
                      /\ c.name # Unnamed => DisplayName(radio[c.index].name) = c.name
                      /\ Expand(radio[c.index].psk) = c.key
                      /\ ingress = "MqttProxy" => radio[c.index].downlink
    BY DEF BridgeMatchesRadio
  <2> DEFINE c == channels[n]
  <2>1. WellNamed /\ AllPlaced /\ Agrees /\ Merging /\ c.name \in Names
    BY TableFields DEF IInv, Active, TypeOK
  <2>2. Pending(c.index) = {}
    BY <2>1 DEF Pending, Merging
  <2>3. radio[c.index] # Disabled /\ Fits(radio[c.index], c)
    BY <2>1, <2>2 DEF Agrees, WillFit
  <2>4. PICK m \in DOMAIN channels :
            channels[m].index = c.index /\ DisplayName(channels[m].name) = DisplayName(radio[c.index].name)
    BY <2>1, <2>3 DEF AllPlaced, Placed, InUse
  <2>5. channels[m].name = c.name
    BY <2>1, <2>4 DEF WellNamed
  <2> QED BY <2>1, <2>3, <2>4, <2>5, ShownNames DEF Fits
<1> QED BY AlwaysIInv, <1>1, PTL

\* The bridge has the radio's channels and Raven's, with Raven's keys.
THEOREM RavenAlwaysWins == Spec => []RavenWins
<1>1. IInv => RavenWins
  <2> SUFFICES ASSUME IInv, at = "bridge"
               PROVE  RavenWins
    BY DEF RavenWins
  <2> DEFINE names == {rc.name : rc \in ToSet(InForce)}
  <2>1. Merging /\ TypeOK /\ raven = InForce /\ raven \in Seq(RavenChannels)
    BY LoadsInForce DEF IInv, Active, TypeOK
  <2>2. Done = Len(raven) /\ Len(raven) \in Nat /\ DOMAIN raven = 1..Done
    BY <2>1 DEF Done, Merging
  <2>3. names = {raven[m].name : m \in 1..Done}
    BY <2>1, <2>2 DEF ToSet
  <2>4. {c.name : c \in ToSet(channels)} = names \cup {c.name : c \in Had}
    <3>1. ASSUME NEW n \in DOMAIN channels
          PROVE  channels[n].name \in names \cup {c.name : c \in Had}
      <4>1. FromRavenOrRadio(channels[n]) \/ channels[n] \in Had
        BY <2>1 DEF Merging
      <4> QED BY <2>3, <4>1 DEF FromRavenOrRadio, LastOf
    <3>2. \A c \in Had : c.name \in {d.name : d \in ToSet(channels)}
      BY <2>1 DEF Merging, ToSet
    <3>3. \A m \in 1..Done : raven[m].name \in {d.name : d \in ToSet(channels)}
      BY <2>1 DEF Merging, ToSet
    <3>4. {c.name : c \in ToSet(channels)} \subseteq names \cup {c.name : c \in Had}
      BY <3>1 DEF ToSet
    <3>5. names \cup {c.name : c \in Had} \subseteq {c.name : c \in ToSet(channels)}
      BY <2>3, <3>2, <3>3
    <3> QED BY <3>4, <3>5
  <2>5. ASSUME NEW n \in DOMAIN channels, Counts(n), NEW c, c = channels[n]
        PROVE  IF c.name \in names
               THEN c.key = Expand(InForce[Max({k \in DOMAIN InForce : InForce[k].name = c.name})].psk)
               ELSE c \in Had
    <3>1. FromRavenOrRadio(c)
      BY <2>1, <2>5 DEF Merging
    <3>2. CASE \E m \in 1..Done : LastOf(m, c.name) /\ c.key = Expand(raven[m].psk)
      <4>1. PICK m \in 1..Done : LastOf(m, c.name) /\ c.key = Expand(raven[m].psk)
        BY <3>2
      <4> DEFINE S == {k \in DOMAIN InForce : InForce[k].name = c.name}
      <4>2. m \in S /\ (\A k \in S : k <= m) /\ S \subseteq Nat
        BY <2>1, <2>2, <4>1 DEF LastOf
      <4>3. Max(S) \in S /\ \A k \in S : Max(S) >= k
        <5>1. \E x \in S : \A y \in S : x >= y
          BY <4>2
        <5> QED BY <5>1 DEF Max
      <4>4. Max(S) = m
        BY <4>2, <4>3
      <4>5. c.name \in names
        BY <2>3, <4>1 DEF LastOf
      <4> QED BY <2>1, <4>1, <4>4, <4>5
    <3>3. CASE c \in Had /\ \A m \in 1..Done : raven[m].name # c.name
      BY <2>3, <3>3
    <3> QED BY <3>1, <3>2, <3>3 DEF FromRavenOrRadio
  <2>6. ASSUME NEW n \in DOMAIN channels, ~Counts(n) PROVE channels[n] \in Had
    BY <2>1, <2>6 DEF Merging
  <2>7. ASSUME NEW n \in DOMAIN channels
        PROVE  LET c == channels[n] IN
               IF c.name \in names /\ \A m \in 1..(n - 1) : channels[m].name # c.name
               THEN c.key = Expand(InForce[Max({k \in DOMAIN InForce : InForce[k].name = c.name})].psk)
               ELSE c \in Had
    <3> HIDE DEF names
    <3>1. Counts(n) <=> \A m \in 1..(n - 1) : channels[m].name # channels[n].name
      BY DEF Counts
    <3> QED BY <2>5, <2>6, <3>1
  <2> QED BY <2>4, <2>7 DEF RavenWins, Had
<1> QED BY AlwaysIInv, <1>1, PTL
=============================================================================
