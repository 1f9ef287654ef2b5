----------------------------- MODULE RelayProofs -----------------------------
(***************************************************************************)
(* For any packets, channel tables, capacity of the filter, and number of  *)
(* sessions: what the relay sends is sent once per window, stays on its    *)
(* side, and can be read by who receives it.                               *)
(***************************************************************************)
EXTENDS Relay, FiniteSetTheorems, TLAPS

\* The facts about one call of insert; its other variables play no part.
Filter == INSTANCE RecentPacketsProofs WITH accepted <- <<>>, answer <- <<>>, MaxAccepted <- 0

\* What an accepted key does to the filter (bridge.rs:72-83).
LEMMA InsertShifts ==
    ASSUME order \in Seq(Key), InStep, NEW k \in Key, Accepts(k), Insert(k)
    PROVE  LET m == Len(order)
               full == m >= Capacity
           IN  /\ InStep'
               /\ full => m = Capacity /\ m > 0 /\ order # <<>>
               /\ order' \in Seq(Key)
               /\ Len(order') = IF full THEN m ELSE m + 1
               /\ order'[Len(order')] = k
               /\ \A i \in 1..(Len(order') - 1) :
                     order'[i] = IF full THEN order[i + 1] ELSE order[i]
<1>1. Filter!InStep
  BY DEF InStep, Filter!InStep
<1>2. Filter!Accepts(k) /\ Filter!Insert(k)
  BY DEF Accepts, Insert, recentVars, Filter!Accepts, Filter!Insert, Filter!recentVars
<1>3. Filter!InStep'
  BY <1>1, <1>2, CapacityAssumption, Filter!InsertKeepsInStep
<1>4. InStep'
  BY <1>3 DEF InStep, Filter!InStep
<1>5. LET m == Len(order)
          full == m >= Capacity
      IN  /\ full => m = Capacity /\ m > 0 /\ order # <<>>
          /\ order' \in Seq(Key)
          /\ Len(order') = IF full THEN m ELSE m + 1
          /\ order'[Len(order')] = k
          /\ \A i \in 1..(Len(order') - 1) :
                order'[i] = IF full THEN order[i + 1] ELSE order[i]
  BY <1>1, <1>2, CapacityAssumption, Filter!InsertShifts
<1> QED BY <1>4, <1>5

-----------------------------------------------------------------------------
(* Sequences and least elements. *)

\* Appending keeps a sequence over its own elements.
LEMMA LogGrows ==
    ASSUME NEW s, s \in Seq(ToSet(s)), NEW e
    PROVE  /\ Append(s, e) \in Seq(ToSet(Append(s, e)))
           /\ Len(Append(s, e)) = Len(s) + 1 /\ Append(s, e)[Len(s) + 1] = e
           /\ \A m \in 1..Len(s) : Append(s, e)[m] = s[m]
<1> DEFINE t == Append(s, e)
           S == ToSet(s) \cup {e}
<1>1. s \in Seq(S)
  OBVIOUS
<1>2. /\ t \in Seq(S) /\ Len(t) = Len(s) + 1 /\ t[Len(s) + 1] = e /\ Len(s) \in Nat
      /\ \A m \in 1..Len(s) : t[m] = s[m]
  BY <1>1
<1>3. DOMAIN t = 1..Len(t) /\ \A m \in 1..Len(t) : t[m] \in ToSet(t)
  BY <1>2 DEF ToSet
<1>4. t \in Seq(ToSet(t))
  BY <1>2, <1>3
<1> QED BY <1>2, <1>4

\* A set of positions that is not empty has a first one.
LEMMA HasMin ==
    ASSUME NEW S \in SUBSET Nat, S # {}
    PROVE  Min(S) \in S
<1>1. PICK x \in S : \A y \in S : <<y, x>> \notin OpToRel(<, Nat)
  BY NatLessThanWellFounded, WFMin
<1>2. ASSUME NEW y \in S, y < x PROVE FALSE
  <2>1. <<y, x>> \in Nat \X Nat /\ <<y, x>>[1] < <<y, x>>[2]
    BY <1>2
  <2>2. <<y, x>> \in {ss \in Nat \X Nat : ss[1] < ss[2]}
    BY <2>1, Zenon
  <2> QED BY <1>1, <2>2, Zenon DEF OpToRel
<1>3. \A y \in S : x <= y
  BY <1>2
<1> QED BY <1>3 DEF Min

-----------------------------------------------------------------------------
(* What the channels make of a packet. *)

\* A channel table is a sequence (crypto.rs:43-51, serial.rs:58-77).
LEMMA TableIsSeq ==
    ASSUME channels \in Tables
    PROVE  Len(channels) \in Nat /\ DOMAIN channels = 1..Len(channels)
BY RelayAssumption

\* The channel that opens a packet is one with its hash, a key, and either
\* the key of the sender or one that gives a parsable payload (bridge.rs:411-447).
LEMMA OpenerFits ==
    ASSUME channels \in Tables, NEW p, Opener(p) # 0
    PROVE  /\ Opener(p) \in 1..Len(channels)
           /\ channels[Opener(p)].hash = p.channel /\ channels[Opener(p)].key # NoKey
           /\ \/ channels[Opener(p)].key = p.payload.key
              \/ <<p.payload.key, channels[Opener(p)].key>> \in FalseDecode
<1> DEFINE I == {i \in 1..Len(channels) :
                    /\ channels[i].hash = p.channel /\ channels[i].key # NoKey
                    /\ \/ channels[i].key = p.payload.key
                       \/ <<p.payload.key, channels[i].key>> \in FalseDecode}
<1>1. Opener(p) = IF I # {} THEN Min(I) ELSE 0
  BY DEF Opener, SelectInSeq
<1>2. I \in SUBSET Nat
  BY TableIsSeq
<1>3. Opener(p) \in I
  <2> HIDE DEF I
  <2> QED BY <1>1, <1>2, HasMin
<1> QED BY <1>3

\* A packet that some channel with its hash and its key can open is opened.
LEMMA OpenerFound ==
    ASSUME channels \in Tables, NEW p, NEW i \in 1..Len(channels),
           channels[i].hash = p.channel, channels[i].key # NoKey,
           channels[i].key = p.payload.key
    PROVE  Opener(p) # 0
<1> DEFINE I == {j \in 1..Len(channels) :
                    /\ channels[j].hash = p.channel /\ channels[j].key # NoKey
                    /\ \/ channels[j].key = p.payload.key
                       \/ <<p.payload.key, channels[j].key>> \in FalseDecode}
<1>1. Opener(p) = IF I # {} THEN Min(I) ELSE 0
  BY DEF Opener, SelectInSeq
<1>2. I \in SUBSET (Nat \ {0}) /\ i \in I
  BY TableIsSeq
<1>3. Min(I) \in I
  <2> HIDE DEF I
  <2> QED BY <1>2, HasMin
<1> HIDE DEF I
<1> QED BY <1>1, <1>2, <1>3

\* What encrypt_packet enciphers, it enciphers with the key of the packet's
\* channel, whose hash the packet then names (bridge.rs:380-407).
LEMMA EncryptFits ==
    ASSUME channels \in Tables, NEW p, DOMAIN p = Field,
           p.payload.kind = "decoded", Encrypt(p).payload.kind = "encrypted"
    PROVE  \E i \in 1..Len(channels) :
              /\ channels[i].index = p.channel /\ channels[i].key # NoKey
              /\ Encrypt(p).payload = Encrypted(p.payload.data, channels[i].key)
              /\ Encrypt(p).channel = channels[i].hash
<1> DEFINE I == {j \in 1..Len(channels) : channels[j].index = p.channel}
           i == IF I # {} THEN Min(I) ELSE 0
<1>1. i = SelectInSeq(channels, LAMBDA c : c.index = p.channel)
  BY DEF SelectInSeq
<1>2. Encrypt(p) = IF p.payload.kind # "decoded" \/ i = 0 THEN p
                   ELSE IF channels[i].key = NoKey THEN p
                   ELSE [p EXCEPT !.payload = Encrypted(p.payload.data, channels[i].key),
                                  !.channel = channels[i].hash]
  BY <1>1 DEF Encrypt
<1>3. i # 0 /\ channels[i].key # NoKey
  BY <1>2
<1>4. I \in SUBSET Nat
  BY TableIsSeq
<1>5. i \in I
  <2> HIDE DEF I
  <2> QED BY <1>3, <1>4, HasMin
<1>6. /\ Encrypt(p).payload = Encrypted(p.payload.data, channels[i].key)
      /\ Encrypt(p).channel = channels[i].hash
  <2> HIDE DEF i
  <2> QED BY <1>2, <1>3 DEF Field
<1> QED BY <1>3, <1>5, <1>6

\* Neither encrypt_packet nor decrypt_packet touches the sender, the id or
\* the set of fields.
LEMMA SameAddr ==
    ASSUME NEW p, DOMAIN p = Field
    PROVE  /\ DOMAIN Encrypt(p) = Field /\ Addr(Encrypt(p)) = Addr(p)
           /\ DOMAIN ForRadio(p) = Field /\ Addr(ForRadio(p)) = Addr(p)
           /\ \A m : /\ DOMAIN [p EXCEPT !.transport = m] = Field
                     /\ Addr([p EXCEPT !.transport = m]) = Addr(p)
                     /\ [p EXCEPT !.transport = m].transport = m
BY DEF Field, Addr, Encrypt, Decrypt, ForRadio

-----------------------------------------------------------------------------
(* What was accepted in between. *)

\* There are finitely many such keys.
LEMMA BetweenFinite ==
    ASSUME NEW i \in Nat, NEW j \in Nat
    PROVE  IsFiniteSet(Between(i, j))
<1> DEFINE S == {n \in (i + 1)..(j - 1) : log[n].new}
           f == [m \in S |-> Addr(log[m].was)]
<1>1. IsFiniteSet((i + 1)..(j - 1))
  BY FS_Interval
<1>2. IsFiniteSet(S)
  BY <1>1, FS_Subset
<1>3. f \in Surjection(S, Between(i, j))
  BY DEF Surjection, Between
<1> QED BY <1>2, <1>3, FS_Surjection

\* As many different keys as the filter holds, among finitely many.
LEMMA FilterFull ==
    ASSUME NEW s, NEW S, IsFiniteSet(S), NEW n \in Nat,
           \A q \in 1..n : s[q] \in S,
           \A q, r \in 1..n : s[q] = s[r] => q = r
    PROVE  Cardinality(S) >= n
<1> DEFINE f == [q \in 1..n |-> s[q]]
<1>1. f \in Injection(1..n, S)
  BY DEF Injection, IsInjective
<1>2. Cardinality(1..n) <= Cardinality(S)
  BY <1>1, FS_Injection
<1>3. Cardinality(1..n) = n
  BY FS_Interval
<1>4. Cardinality(S) \in Nat
  BY FS_CardinalityType
<1> QED BY <1>2, <1>3, <1>4

\* A new entry changes nothing between earlier ones.
LEMMA BetweenKept ==
    ASSUME log \in Seq(ToSet(log)), NEW e, log' = Append(log, e),
           NEW i \in 1..Len(log), NEW j \in 1..(Len(log) + 1)
    PROVE  Between(i, j)' = Between(i, j)
<1>1. Len(log) \in Nat /\ \A m \in 1..Len(log) : log'[m] = log[m]
  BY LogGrows
<1>2. \A n \in (i + 1)..(j - 1) : log'[n] = log[n]
  BY <1>1
<1> QED BY <1>2 DEF Between

\* Its own key is between the entries before it and what follows, if the
\* filter accepted it.
LEMMA BetweenGrows ==
    ASSUME log \in Seq(ToSet(log)), NEW e, log' = Append(log, e),
           NEW n, n = Len(log), NEW i \in 1..n
    PROVE  Between(i, n + 2)' = Between(i, n + 1) \cup (IF e.new THEN {Addr(e.was)} ELSE {})
<1>1. n \in Nat /\ log'[n + 1] = e /\ \A m \in 1..n : log'[m] = log[m]
  BY LogGrows
<1>2. (i + 1)..((n + 2) - 1) = ((i + 1)..((n + 1) - 1)) \cup {n + 1}
  BY <1>1
<1>3. n + 1 \notin (i + 1)..((n + 1) - 1) /\ \A m \in (i + 1)..((n + 1) - 1) : log'[m] = log[m]
  BY <1>1
<1> QED BY <1>1, <1>2, <1>3 DEF Between

\* A handler call that gives a packet to the filter and records what it did
\* keeps track of every key accepted so far, and, as it hands the radio
\* only accepted ones, never hands over one too early (bridge.rs:72-83, 287-288, 325-329).
LEMMA RecordStep ==
    ASSUME TypeOK, InStep, StillRemembered, OncePerWindow,
           NEW p, Addr(p) \in Key, NEW to, NEW sent,
           Insert(Addr(p)), log' = Append(log, Entry(to, p, sent)), session' = session,
           to = "radio" => Accepts(Addr(p))
    PROVE  order' \in Seq(Key) /\ InStep' /\ StillRemembered' /\ OncePerWindow'
<1> PICK n : n = Len(log)
  OBVIOUS
<1> PICK m : m = Len(order)
  OBVIOUS
<1> PICK k : k = Addr(p)
  OBVIOUS
<1> PICK e : e = Entry(to, p, sent)
  OBVIOUS
<1> USE CapacityAssumption
<1>0. /\ log \in Seq(ToSet(log)) /\ log' = Append(log, e) /\ n \in Nat
      /\ order \in Seq(Key) /\ m \in Nat /\ m <= Capacity
      /\ Len(log') = n + 1 /\ log'[n + 1] = e /\ \A i \in 1..n : log'[i] = log[i]
  BY LogGrows DEF TypeOK, InStep
<1>1. e.to = to /\ e.was = p /\ e.session = session /\ e.new = Accepts(k) /\ k \in Key
  BY DEF Entry
<1>2. order' \in Seq(Key) /\ InStep'
  <2>1. CASE Accepts(k)
    BY <1>0, <1>1, <2>1, InsertShifts
  <2>2. CASE ~Accepts(k)
    BY <1>0, <2>2 DEF Insert, recentVars, InStep
  <2> QED BY <2>1, <2>2
<1>3. ASSUME NEW i \in 1..n, log[i].new, log[i].session = session
      PROVE  \/ Cardinality(Between(i, n + 2)') >= Capacity
             \/ \E q \in 1..Len(order') :
                   /\ order'[q] = Addr(log[i].was)
                   /\ \A r \in (q + 1)..Len(order') : order'[r] \in Between(i, n + 2)'
  <2> PICK A : A = Between(i, n + 1)
    OBVIOUS
  <2> PICK B : B = Between(i, n + 2)'
    OBVIOUS
  <2>1. B = A \cup (IF Accepts(k) THEN {k} ELSE {})
    BY <1>0, <1>1, BetweenGrows
  <2>2. IsFiniteSet(A)
    BY <1>0, BetweenFinite
  <2>3. IsFiniteSet(B) /\ Cardinality(B) \in Nat /\ Cardinality(A) <= Cardinality(B)
    BY <2>1, <2>2, FS_AddElement, FS_Subset, FS_CardinalityType
  <2>4. \/ Cardinality(A) >= Capacity
        \/ \E q \in 1..m : /\ order[q] = Addr(log[i].was)
                           /\ \A r \in (q + 1)..m : order[r] \in A
    BY <1>3 DEF StillRemembered
  <2>5. CASE Cardinality(A) >= Capacity
    BY <2>2, <2>3, <2>5, FS_CardinalityType
  <2>6. ASSUME NEW q \in 1..m, order[q] = Addr(log[i].was), \A r \in (q + 1)..m : order[r] \in A
        PROVE  \/ Cardinality(B) >= Capacity
               \/ \E h \in 1..Len(order') :
                     /\ order'[h] = Addr(log[i].was)
                     /\ \A r \in (h + 1)..Len(order') : order'[r] \in B
    <3>1. CASE ~Accepts(k)
      <4>1. order' = order /\ B = A
        BY <2>1, <3>1 DEF Insert, recentVars
      <4> QED BY <2>6, <4>1
    <3>2. CASE Accepts(k)
      <4> DEFINE full == m >= Capacity
      <4>1. /\ full => m = Capacity /\ m > 0
            /\ Len(order') = IF full THEN m ELSE m + 1
            /\ order'[Len(order')] = k
            /\ \A r \in 1..(Len(order') - 1) : order'[r] = IF full THEN order[r + 1] ELSE order[r]
        BY <1>0, <1>1, <3>2, InsertShifts
      <4>2. A \subseteq B /\ k \in B
        BY <2>1, <3>2
      <4>3. CASE full /\ q = 1
        <5>1. \A r \in 1..Capacity : order'[r] \in B
          <6> TAKE r \in 1..Capacity
          <6>1. CASE r = Capacity
            BY <4>1, <4>2, <4>3, <6>1
          <6>2. CASE r # Capacity
            <7>1. r \in 1..(Len(order') - 1) /\ r + 1 \in (q + 1)..m /\ order'[r] = order[r + 1]
              BY <1>0, <4>1, <4>3, <6>2
            <7> QED BY <2>6, <4>2, <7>1
          <6> QED BY <6>1, <6>2
        <5>2. \A r, h \in 1..Capacity : order'[r] = order'[h] => r = h
          BY <1>2, <4>1, <4>3 DEF InStep
        <5> QED BY <2>3, <5>1, <5>2, FilterFull
      <4>4. CASE full /\ q # 1
        <5>1. q - 1 \in 1..(Len(order') - 1) /\ order'[q - 1] = Addr(log[i].was)
          BY <1>0, <2>6, <4>1, <4>4
        <5>2. \A r \in ((q - 1) + 1)..Len(order') : order'[r] \in B
          <6> TAKE r \in ((q - 1) + 1)..Len(order')
          <6>1. CASE r = Len(order')
            BY <4>1, <4>2, <6>1
          <6>2. CASE r # Len(order')
            <7>1. r \in 1..(Len(order') - 1) /\ r + 1 \in (q + 1)..m /\ order'[r] = order[r + 1]
              BY <1>0, <4>1, <4>4, <6>2
            <7> QED BY <2>6, <4>2, <7>1
          <6> QED BY <6>1, <6>2
        <5>3. q - 1 \in 1..Len(order')
          BY <1>0, <4>1, <4>4, <5>1
        <5> QED BY <5>1, <5>2, <5>3
      <4>5. CASE ~full
        <5>1. q \in 1..(Len(order') - 1) /\ q \in 1..Len(order') /\ order'[q] = Addr(log[i].was)
          BY <1>0, <2>6, <4>1, <4>5
        <5>2. \A r \in (q + 1)..Len(order') : order'[r] \in B
          <6> TAKE r \in (q + 1)..Len(order')
          <6>1. CASE r = Len(order')
            BY <4>1, <4>2, <6>1
          <6>2. CASE r # Len(order')
            <7>1. r \in 1..(Len(order') - 1) /\ r \in (q + 1)..m /\ order'[r] = order[r]
              BY <1>0, <4>1, <4>5, <6>2
            <7> QED BY <2>6, <4>2, <7>1
          <6> QED BY <6>1, <6>2
        <5> QED BY <5>1, <5>2
      <4> QED BY <4>3, <4>4, <4>5
    <3> QED BY <3>1, <3>2
  <2> QED BY <2>4, <2>5, <2>6
<1>4. StillRemembered'
  <2>1. ASSUME NEW i \in 1..(n + 1), log'[i].new, log'[i].session = session
        PROVE  \/ Cardinality(Between(i, n + 2)') >= Capacity
               \/ \E q \in 1..Len(order') :
                     /\ order'[q] = Addr(log'[i].was)
                     /\ \A r \in (q + 1)..Len(order') : order'[r] \in Between(i, n + 2)'
    <3>1. CASE i \in 1..n
      BY <1>0, <1>3, <2>1, <3>1
    <3>2. CASE i = n + 1
      <4>1. Accepts(k)
        BY <1>0, <1>1, <2>1, <3>2
      <4>2. Len(order') \in 1..Len(order') /\ order'[Len(order')] = k
        BY <1>0, <1>1, <1>2, <4>1, InsertShifts
      <4> QED BY <1>0, <1>1, <3>2, <4>2
    <3> QED BY <1>0, <3>1, <3>2
  <2>2. Len(log)' + 1 = n + 2 /\ session' = session
    BY <1>0
  <2> QED BY <1>0, <2>1, <2>2 DEF StillRemembered
<1>5. OncePerWindow'
  <2>1. ASSUME NEW i \in 1..(n + 1), NEW j \in 1..(n + 1), Again(i, j)', log'[i].new,
               log'[j].to = "radio", log'[i].session = log'[j].session
        PROVE  Cardinality(Between(i, j)') >= Capacity
    <3>1. i < j /\ i \in 1..n /\ Addr(log'[i].was) = Addr(log'[j].was)
      BY <1>0, <2>1 DEF Again
    <3>2. Between(i, j)' = Between(i, j)
      BY <1>0, <3>1, BetweenKept
    <3>3. CASE j \in 1..n
      <4>1. Again(i, j) /\ log[i].new /\ log[j].to = "radio" /\ log[i].session = log[j].session
        BY <1>0, <2>1, <3>1, <3>3 DEF Again
      <4> QED BY <3>1, <3>2, <3>3, <4>1 DEF OncePerWindow
    <3>4. CASE j = n + 1
      <4>1. /\ log[i].new /\ log[i].session = session /\ Addr(log[i].was) = k
            /\ k \notin set
        BY <1>0, <1>1, <2>1, <3>1, <3>4 DEF Accepts
      <4>2. ~ \E q \in 1..Len(order) : order[q] = k
        BY <4>1 DEF InStep
      <4> QED BY <3>1, <3>2, <3>4, <4>1, <4>2 DEF StillRemembered
    <3> QED BY <1>0, <3>1, <3>3, <3>4
  <2> QED BY <1>0, <2>1 DEF OncePerWindow
<1> QED BY <1>2, <1>4, <1>5

-----------------------------------------------------------------------------
(* The invariant. *)

\* The initial state satisfies it (bridge.rs:59-65, main.rs:264-270).
LEMMA InitIInv == Init => IInv
<1> SUFFICES ASSUME Init PROVE IInv
  OBVIOUS
<1>1. order = <<>> /\ set = {} /\ log = <<>> /\ session = 1 /\ lan = PeerPackets /\ toBridge = {}
  BY DEF Init, Empty
<1>2. TypeOK
  BY <1>1, RelayAssumption DEF Init, TypeOK
<1>3. InStep /\ OnlyHeardLeaves /\ SentFits /\ StillRemembered /\ OncePerWindow
  BY <1>1, CapacityAssumption
     DEF InStep, OnlyHeardLeaves, SentFits, StillRemembered, OncePerWindow
<1> QED BY <1>2, <1>3 DEF IInv

\* A packet on the LAN or from the radio has the fields and an address.
LEMMA KnownPacket ==
    ASSUME TypeOK, NEW p \in lan \cup toBridge
    PROVE  DOMAIN p = Field /\ Addr(p) \in Key
BY DEF TypeOK

\* An entry is made of the packet, what was sent, and the filter's answer.
LEMMA Recorded ==
    ASSUME TypeOK, NEW p, NEW to, NEW sent, log' = Append(log, Entry(to, p, sent)),
           session' = session
    PROVE  /\ log' \in Seq(ToSet(log)')
           /\ \A i \in 1..Len(log') : log'[i].session \in 0..session
           /\ \A i \in 1..Len(log') :
                 \/ i \in 1..Len(log) /\ log'[i] = log[i]
                 \/ /\ log'[i].to = to /\ log'[i].was = p
                    /\ log'[i].sent = sent /\ log'[i].session = session
<1> PICK e : e = Entry(to, p, sent)
  OBVIOUS
<1>1. e.to = to /\ e.was = p /\ e.sent = sent /\ e.session = session
  BY DEF Entry
<1>2. /\ log' \in Seq(ToSet(log)') /\ Len(log) \in Nat
      /\ Len(log') = Len(log) + 1 /\ log'[Len(log) + 1] = e
      /\ \A m \in 1..Len(log) : log'[m] = log[m]
  BY LogGrows DEF TypeOK
<1>3. \A i \in 1..Len(log') : i \in 1..Len(log) \/ i = Len(log) + 1
  BY <1>2
<1> QED BY <1>1, <1>2, <1>3 DEF TypeOK

\* With the same channels a packet is enciphered and deciphered as before.
LEMMA SameChannels ==
    ASSUME channels' = channels, NEW q
    PROVE  Encrypt(q)' = Encrypt(q) /\ Opener(q)' = Opener(q) /\ Decrypt(q)' = Decrypt(q)
<1>1. Opener(q)' = Opener(q)
  BY DEF Opener, SelectInSeq
<1>2. Decrypt(q)' = Decrypt(q)
  BY <1>1 DEF Decrypt
<1>3. Encrypt(q)' = Encrypt(q)
  BY DEF Encrypt, SelectInSeq
<1> QED BY <1>1, <1>2, <1>3

\* What a handler sends is what the channels made of the packet, when the new
\* entry says so (bridge.rs:293-305, 331-361).
LEMMA SentStep ==
    ASSUME TypeOK, SentFits, UNCHANGED <<channels, session>>,
           NEW p, NEW to, NEW sent, log' = Append(log, Entry(to, p, sent)),
           to = "lan" => sent = Encrypt(p),
           to = "radio" => /\ DOMAIN p = Field /\ p.payload.kind = "encrypted"
                           /\ \/ sent = p
                              \/ Opener(p) # 0 /\ sent = [Decrypt(p) EXCEPT !.transport = "udp"]
    PROVE  SentFits'
<1>1. ASSUME NEW q
      PROVE  Encrypt(q)' = Encrypt(q) /\ Opener(q)' = Opener(q) /\ Decrypt(q)' = Decrypt(q)
  BY SameChannels
<1>2. ASSUME NEW i \in 1..Len(log')
      PROVE  /\ log'[i].to = "lan" /\ log'[i].session = session' => log'[i].sent = Encrypt(log'[i].was)
             /\ log'[i].to = "radio" /\ log'[i].session = session' =>
                   /\ DOMAIN log'[i].was = Field /\ log'[i].was.payload.kind = "encrypted"
                   /\ \/ log'[i].sent = log'[i].was
                      \/ /\ Opener(log'[i].was) # 0
                         /\ log'[i].sent = [Decrypt(log'[i].was) EXCEPT !.transport = "udp"]
  <2>1. CASE i \in 1..Len(log) /\ log'[i] = log[i]
    BY <2>1 DEF SentFits
  <2>2. CASE /\ log'[i].to = to /\ log'[i].was = p
             /\ log'[i].sent = sent /\ log'[i].session = session
    <3>1. CASE to = "lan"
      BY <2>2, <3>1
    <3>2. CASE to = "radio"
      BY <2>2, <3>2
    <3> QED BY <2>2, <3>1, <3>2
  <2> QED BY <1>2, <2>1, <2>2, Recorded
<1> QED BY <1>1, <1>2 DEF SentFits

\* handle_serial_frame (bridge.rs:263-311).
LEMMA SerialStep ==
    ASSUME IInv, NEW p \in toBridge, HandleSerialFrame(p)
    PROVE  IInv'
<1>0. TypeOK /\ InStep /\ OnlyHeardLeaves /\ SentFits /\ StillRemembered /\ OncePerWindow
  BY DEF IInv
<1>1. DOMAIN p = Field /\ Addr(p) \in Key
  BY <1>0, KnownPacket
<1>2. toBridge' = toBridge \ {p} /\ UNCHANGED <<channels, ingress, radioKnows, session>>
  BY DEF HandleSerialFrame
<1>3. CASE Forwards(p)
  <2>1. /\ Insert(Addr(p)) /\ log' = Append(log, Entry("lan", p, Encrypt(p)))
        /\ lan' \subseteq lan \cup {Encrypt(p)}
    BY <1>3 DEF HandleSerialFrame, Remember, Record
  <2>2. order' \in Seq(Key) /\ InStep' /\ StillRemembered' /\ OncePerWindow'
    BY <1>0, <1>1, <1>2, <2>1, RecordStep
  <2>3. SentFits'
    BY <1>0, <1>2, <2>1, SentStep
  <2>4. TypeOK'
    BY <1>0, <1>1, <1>2, <2>1, <2>2, Recorded, SameAddr DEF TypeOK
  <2>5. OnlyHeardLeaves'
    BY <1>0, <1>2, <1>3, <2>1, Recorded DEF OnlyHeardLeaves, Forwards
  <2> QED BY <2>2, <2>3, <2>4, <2>5 DEF IInv
<1>4. CASE ~Forwards(p)
  <2>1. UNCHANGED <<order, set, log, lan>>
    BY <1>4 DEF HandleSerialFrame
  <2>2. TypeOK' /\ InStep' /\ OnlyHeardLeaves'
    BY <1>0, <1>2, <2>1 DEF TypeOK, InStep, OnlyHeardLeaves
  <2>3. SentFits'
    BY <1>0, <1>2, <2>1, SameChannels DEF SentFits
  <2>4. StillRemembered' /\ OncePerWindow'
    <3>1. ASSUME NEW i, NEW j PROVE Between(i, j)' = Between(i, j)
      BY <2>1 DEF Between
    <3> QED BY <1>0, <1>2, <2>1, <3>1 DEF StillRemembered, OncePerWindow, Again
  <2> QED BY <2>2, <2>3, <2>4 DEF IInv
<1> QED BY <1>3, <1>4

\* handle_udp_packet (bridge.rs:313-378).
LEMMA UdpStep ==
    ASSUME IInv, NEW p \in lan, HandleUdpPacket(p)
    PROVE  IInv'
<1>0. TypeOK /\ InStep /\ OnlyHeardLeaves /\ SentFits /\ StillRemembered /\ OncePerWindow
  BY DEF IInv
<1>1. DOMAIN p = Field /\ Addr(p) \in Key
  BY <1>0, KnownPacket
<1>2. /\ UNCHANGED <<channels, ingress, lan, session>> /\ Insert(Addr(p))
      /\ Accepts(Addr(p)) /\ p.payload.kind = "encrypted"
  BY DEF HandleUdpPacket, Refuses
<1>3. \/ toBridge' = toBridge
      \/ Deliverable(p) /\ toBridge' \subseteq toBridge \cup {Marked(ForRadio(p))}
  BY DEF HandleUdpPacket, Learns
<1>4. \E to \in {"radio", "nowhere"} : \E sent :
          /\ log' = Append(log, Entry(to, p, sent))
          /\ to = "radio" => \/ sent = p
                             \/ Opener(p) # 0 /\ sent = [Decrypt(p) EXCEPT !.transport = "udp"]
  <2>1. CASE Deliverable(p)
    BY <2>1 DEF HandleUdpPacket, Record, Deliverable, ForRadio
  <2>2. CASE ~Deliverable(p)
    BY <2>2 DEF HandleUdpPacket, Record
  <2> QED BY <2>1, <2>2
<1>5. PICK to \in {"radio", "nowhere"} : \E sent :
          /\ log' = Append(log, Entry(to, p, sent))
          /\ to = "radio" => \/ sent = p
                             \/ Opener(p) # 0 /\ sent = [Decrypt(p) EXCEPT !.transport = "udp"]
  BY <1>4
<1>6. PICK sent :
          /\ log' = Append(log, Entry(to, p, sent))
          /\ to = "radio" => \/ sent = p
                             \/ Opener(p) # 0 /\ sent = [Decrypt(p) EXCEPT !.transport = "udp"]
  BY <1>5
<1>7. order' \in Seq(Key) /\ InStep' /\ StillRemembered' /\ OncePerWindow'
  BY <1>0, <1>1, <1>2, <1>6, RecordStep
<1>8. SentFits'
  BY <1>0, <1>1, <1>2, <1>6, SentStep
<1>9. ASSUME NEW q \in toBridge', q \notin toBridge
      PROVE  DOMAIN q = Field /\ Addr(q) = Addr(p) /\ q.transport \in FromLan
  <2>1. q = Marked(ForRadio(p))
    BY <1>3, <1>9
  <2>2. CASE ingress = "MqttProxy"
    <3>1. q = [ForRadio(p) EXCEPT !.transport = "mqtt"]
      BY <2>1, <2>2 DEF Marked
    <3>2. DOMAIN ForRadio(p) = Field /\ Addr(ForRadio(p)) = Addr(p)
      BY <1>1, SameAddr
    <3> QED BY <3>1, <3>2, SameAddr DEF FromLan
  <2>3. CASE ingress # "MqttProxy"
    <3>1. q = ForRadio(p) /\ q = [Decrypt(p) EXCEPT !.transport = "udp"]
      BY <2>1, <2>3 DEF Marked, ForRadio
    <3>2. DOMAIN q = Field /\ Addr(q) = Addr(p)
      BY <1>1, <3>1, SameAddr
    <3>3. q.transport = "udp"
      BY <3>1, <3>2 DEF Field
    <3> QED BY <3>2, <3>3 DEF FromLan
  <2> QED BY <2>2, <2>3
<1>10. TypeOK'
  BY <1>0, <1>1, <1>2, <1>6, <1>7, <1>9, Recorded DEF TypeOK
<1>11. OnlyHeardLeaves'
  BY <1>0, <1>2, <1>6, <1>9, Recorded DEF OnlyHeardLeaves
<1> QED BY <1>7, <1>8, <1>10, <1>11 DEF IInv

\* The next session: an empty filter, other channels, and nothing sent yet
\* (main.rs:112-124, 264-272).
LEMMA NewSessionStep ==
    ASSUME IInv, NewSession
    PROVE  IInv'
<1>0. TypeOK /\ InStep /\ OnlyHeardLeaves /\ SentFits /\ StillRemembered /\ OncePerWindow
  BY DEF IInv
<1>1. /\ order' = <<>> /\ set' = {} /\ session' = session + 1 /\ channels' \in Tables
      /\ toBridge' \subseteq toBridge /\ lan' = lan /\ log' = log /\ session \in Nat
  BY <1>0 DEF NewSession, Forget, TypeOK
<1>2. \A i \in 1..Len(log) : log[i].session # session'
  BY <1>0, <1>1 DEF TypeOK
<1>3. TypeOK' /\ OnlyHeardLeaves'
  BY <1>0, <1>1 DEF TypeOK, OnlyHeardLeaves
<1>4. InStep'
  BY <1>1, CapacityAssumption DEF InStep
<1>5. SentFits' /\ StillRemembered'
  BY <1>1, <1>2 DEF SentFits, StillRemembered
<1>6. OncePerWindow'
  BY <1>0, <1>1 DEF OncePerWindow, Between, Again
<1> QED BY <1>3, <1>4, <1>5, <1>6 DEF IInv

\* What the radio hears waits for the bridge and changes nothing else.
LEMMA HearsStep ==
    ASSUME IInv, NEW p \in MeshPackets, RadioHears(p)
    PROVE  IInv'
<1>0. TypeOK /\ InStep /\ OnlyHeardLeaves /\ SentFits /\ StillRemembered /\ OncePerWindow
  BY DEF IInv
<1>1. /\ toBridge' = toBridge \cup {p}
      /\ UNCHANGED <<order, set, channels, ingress, lan, log, session>>
  BY DEF RadioHears
<1>2. DOMAIN p = Field /\ Addr(p) \in Key
  BY RelayAssumption
<1>3. TypeOK' /\ InStep' /\ OnlyHeardLeaves'
  BY <1>0, <1>1, <1>2 DEF TypeOK, InStep, OnlyHeardLeaves
<1>4. SentFits'
  BY <1>0, <1>1, SameChannels DEF SentFits
<1>5. StillRemembered' /\ OncePerWindow'
  <2>1. ASSUME NEW i, NEW j PROVE Between(i, j)' = Between(i, j)
    BY <1>1 DEF Between
  <2> QED BY <1>0, <1>1, <2>1 DEF StillRemembered, OncePerWindow, Again
<1> QED BY <1>3, <1>4, <1>5 DEF IInv

\* The filter, the channels and what was sent fit together in every
\* behaviour (bridge.rs:263-378).
THEOREM AlwaysIInv == Spec => []IInv
<1>1. Init => IInv
  BY InitIInv
<1>2. IInv /\ [Next]_vars => IInv'
  <2> SUFFICES ASSUME IInv, [Next]_vars PROVE IInv'
    OBVIOUS
  <2>1. CASE \E p \in toBridge : HandleSerialFrame(p)
    BY <2>1, SerialStep
  <2>2. CASE \E p \in lan : HandleUdpPacket(p)
    BY <2>2, UdpStep
  <2>3. CASE NewSession
    BY <2>3, NewSessionStep
  <2>4. CASE \E p \in MeshPackets : RadioHears(p)
    BY <2>4, HearsStep
  <2>5. CASE UNCHANGED vars
    <3>1. UNCHANGED <<order, set, channels, lan, toBridge, log, session>>
      BY <2>5 DEF vars
    <3>2. TypeOK' /\ InStep' /\ OnlyHeardLeaves'
      BY <3>1 DEF IInv, TypeOK, InStep, OnlyHeardLeaves
    <3>3. SentFits'
      BY <3>1, SameChannels DEF IInv, SentFits
    <3>4. StillRemembered' /\ OncePerWindow'
      <4>1. StillRemembered /\ OncePerWindow
        BY DEF IInv
      <4>2. ASSUME NEW i, NEW j PROVE Between(i, j)' = Between(i, j)
        BY <3>1 DEF Between
      <4> QED BY <3>1, <4>1, <4>2 DEF StillRemembered, OncePerWindow, Again
    <3> QED BY <3>2, <3>3, <3>4 DEF IInv
  <2> QED BY <2>1, <2>2, <2>3, <2>4, <2>5 DEF Next
<1> QED BY <1>1, <1>2, PTL DEF Spec

-----------------------------------------------------------------------------
(* What follows for the two sides. *)

\* However many packets, duplicates, failed writes and sessions there are, the
\* radio is not handed a packet again within a window (bridge.rs:287-288, 325-329).
THEOREM NeverTwice == Spec => []OncePerWindow
<1>1. IInv => OncePerWindow
  BY DEF IInv
<1> QED BY <1>1, AlwaysIInv, PTL

\* The stamp on what is written as a phone, and the radio's own mark on what
\* came through its MQTT client, keep the LAN's packets from coming back to it
\* through the radio (bridge.rs:275-280, 358).
THEOREM NeverReturns == Spec => []LanOnlyStaysOnLan
<1>1. IInv => LanOnlyStaysOnLan
  BY DEF IInv, OnlyHeardLeaves, LanOnlyStaysOnLan
<1> QED BY <1>1, AlwaysIInv, PTL

\* For any channel table, with whatever hashes and keys in common, a station
\* with the same table reads what the radio said (bridge.rs:380-447).
THEOREM PeerAlwaysReads == Spec => []PeerReadsRadio
<1>1. ASSUME IInv PROVE PeerReadsRadio
  <2> SUFFICES ASSUME NEW n \in 1..Len(log), log[n].to = "lan", log[n].session = session,
                      log[n].was.payload.kind = "decoded",
                      log[n].sent.payload.kind = "encrypted"
               PROVE  /\ Opener(log[n].sent) # 0
                      /\ \/ Misread(log[n].sent)
                         \/ /\ Decrypt(log[n].sent).payload = log[n].was.payload
                            /\ Alike(Decrypt(log[n].sent).channel, log[n].was.channel)
    BY DEF PeerReadsRadio
  <2> PICK p : p = log[n].was
    OBVIOUS
  <2> PICK q : q = log[n].sent
    OBVIOUS
  <2>1. p \in MeshPackets /\ channels \in Tables
    BY <1>1 DEF IInv, OnlyHeardLeaves, TypeOK
  <2>2. DOMAIN p = Field /\ p.payload = Decoded(p.payload.data)
    BY <2>1, RelayAssumption
  <2>3. q = Encrypt(p) /\ DOMAIN q = Field
    <3>1. SentFits
      BY <1>1 DEF IInv
    <3>2. q = Encrypt(p)
      BY <3>1 DEF SentFits
    <3> QED BY <2>2, <3>2, SameAddr
  <2>4. PICK i \in 1..Len(channels) :
              /\ channels[i].index = p.channel /\ channels[i].key # NoKey
              /\ q.payload = Encrypted(p.payload.data, channels[i].key)
              /\ q.channel = channels[i].hash
    BY <2>1, <2>2, <2>3, EncryptFits
  <2>5. q.payload.key = channels[i].key /\ q.payload.data = p.payload.data
    BY <2>4 DEF Encrypted
  <2>6. Opener(q) # 0
    BY <2>1, <2>4, <2>5, OpenerFound
  <2> PICK o : o = Opener(q)
    OBVIOUS
  <2>7. /\ o \in 1..Len(channels) /\ channels[o].hash = q.channel
        /\ \/ channels[o].key = q.payload.key
           \/ <<q.payload.key, channels[o].key>> \in FalseDecode
    BY <2>1, <2>6, OpenerFits
  <2>8. CASE channels[o].key = q.payload.key
    <3>1. /\ Decrypt(q).payload = Decoded(p.payload.data)
          /\ Decrypt(q).channel = channels[o].index
      BY <2>3, <2>5, <2>8 DEF Decrypt, Field
    <3>2. Alike(channels[o].index, p.channel)
      BY <2>1, <2>4, <2>5, <2>7, <2>8, TableIsSeq DEF Alike
    <3> QED BY <2>2, <2>6, <3>1, <3>2
  <2>9. CASE <<q.payload.key, channels[o].key>> \in FalseDecode
    BY <2>6, <2>9 DEF Misread
  <2> QED BY <2>7, <2>8, <2>9
<1> QED BY <1>1, AlwaysIInv, PTL

\* For any channel table, the radio is handed what the sender said, on a
\* channel that has the sender's key (bridge.rs:340-361, 411-447).
THEOREM RadioAlwaysReads == Spec => []RadioReadsPeer
<1>1. ASSUME IInv PROVE RadioReadsPeer
  <2> SUFFICES ASSUME NEW n \in 1..Len(log), log[n].to = "radio", log[n].session = session,
                      log[n].sent.payload.kind = "decoded"
               PROVE  \/ Misread(log[n].was)
                      \/ /\ log[n].sent.payload.data = log[n].was.payload.data
                         /\ \E c \in DOMAIN channels :
                               /\ channels[c].index = log[n].sent.channel
                               /\ channels[c].key = log[n].was.payload.key
    BY DEF RadioReadsPeer
  <2> PICK p : p = log[n].was
    OBVIOUS
  <2> PICK q : q = log[n].sent
    OBVIOUS
  <2> PICK o : o = Opener(p)
    OBVIOUS
  <2>1. channels \in Tables
    BY <1>1 DEF IInv, TypeOK
  <2>2. /\ DOMAIN p = Field /\ p.payload.kind = "encrypted"
        /\ q = p \/ (o # 0 /\ q = [Decrypt(p) EXCEPT !.transport = "udp"])
    BY <1>1 DEF IInv, SentFits
  <2>3. o # 0 /\ q = [Decrypt(p) EXCEPT !.transport = "udp"]
    BY <2>2
  <2>4. /\ o \in 1..Len(channels)
        /\ \/ channels[o].key = p.payload.key
           \/ <<p.payload.key, channels[o].key>> \in FalseDecode
    BY <2>1, <2>3, OpenerFits
  <2>5. CASE channels[o].key = p.payload.key
    <3>1. q.payload.data = p.payload.data /\ q.channel = channels[o].index
      BY <2>2, <2>3, <2>5 DEF Decrypt, Decoded, Field
    <3> QED BY <2>1, <2>4, <2>5, <3>1, TableIsSeq
  <2>6. CASE <<p.payload.key, channels[o].key>> \in FalseDecode
    BY <2>6 DEF Misread
  <2> QED BY <2>4, <2>5, <2>6
<1> QED BY <1>1, AlwaysIInv, PTL
=============================================================================
