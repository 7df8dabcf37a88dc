------------------------- MODULE LinkSessionsProofs -------------------------
(***************************************************************************)
(* Proofs about the sessions of links: that both ends of a CAS300 session  *)
(* number their packets in step and agree on how it ends, that a CASIOLINK *)
(* session is terminated at both ends by its last header, that the state   *)
(* of a link stays well formed, whatever it is used for and for any number *)
(* of items, parts, calls and faults, and that the protocol a detection    *)
(* finds is the one that is spoken, with at most three faults.             *)
(***************************************************************************)
EXTENDS LinkProtocolsProofs

-----------------------------------------------------------------------------
(* A CAS300 session.                                                       *)

(* The packets of a wire, and a wire where nothing of T comes behind       *)
(* something of S.                                                         *)
PacketsIn(w) == {w[i] : i \in 1 .. Len(w)}
NoneBehind(w, S, T) == \A i, j \in 1 .. Len(w) : i < j /\ w[i] \in S => w[j] \notin T

LEMMA NextIdentifier ==
  ASSUME NEW id \in 0 .. Ids - 1
  PROVE  /\ ClassPad!After(id) \in 0 .. Ids - 1 /\ ClassPad!After(id) # id
         /\ ClassPad!After(id) = IF id = Ids - 1 THEN 0 ELSE id + 1
<1>1. Ids \in Nat /\ Ids >= 2
  BY IdsAssumption
<1>2. CASE id = Ids - 1
  <2>1. (id + 1) % Ids = 0
    <3>1. id + 1 = Ids
      BY <1>1, <1>2
    <3>2. Ids % Ids = 0
      BY <1>1, SMTT(30)
    <3> QED
      BY <3>1, <3>2
  <2> QED
    BY <1>1, <1>2, <2>1 DEF ClassPad!After
<1>3. CASE id # Ids - 1
  <2>1. (id + 1) % Ids = id + 1
    <3>1. id + 1 \in 0 .. Ids - 1
      BY <1>1, <1>3
    <3>2. \A k \in 0 .. Ids - 1 : k % Ids = k
      BY <1>1, SMTT(30)
    <3> QED
      BY <3>1, <3>2
  <2> QED
    BY <1>1, <1>3, <2>1 DEF ClassPad!After
<1> QED
  BY <1>2, <1>3

LEMMA IdentifiersDiffer ==
  ASSUME NEW i \in 0 .. Ids - 1, NEW j \in 0 .. Ids - 1, ClassPad!After(i) = ClassPad!After(j)
  PROVE  i = j
<1>1. Ids \in Nat /\ Ids >= 2
  BY IdsAssumption
<1> QED
  BY <1>1, NextIdentifier

LEMMA TakenFrom ==
  ASSUME NEW P, NEW w \in Seq(P), w # <<>>
  PROVE  /\ Tail(w) \in Seq(P) /\ Head(w) \in P /\ Head(w) \in PacketsIn(w)
         /\ PacketsIn(Tail(w)) \subseteq PacketsIn(w)
         /\ \A S, T : NoneBehind(w, S, T) => NoneBehind(Tail(w), S, T)
         /\ \A S, T : NoneBehind(w, S, T) /\ Head(w) \in S => \A p \in PacketsIn(Tail(w)) : p \notin T
<1>1. Len(w) \in Nat \ {0} /\ Len(Tail(w)) = Len(w) - 1 /\ \A i \in 1 .. Len(Tail(w)) : Tail(w)[i] = w[i + 1]
  OBVIOUS
<1>2. Head(w) = w[1] /\ Tail(w) \in Seq(P) /\ Head(w) \in P
  OBVIOUS
<1>3. Head(w) \in PacketsIn(w)
  BY <1>1, <1>2 DEF PacketsIn
<1>4. PacketsIn(Tail(w)) \subseteq PacketsIn(w)
  BY <1>1 DEF PacketsIn
<1>5. ASSUME NEW S, NEW T, NoneBehind(w, S, T) PROVE NoneBehind(Tail(w), S, T)
  BY <1>1, <1>5 DEF NoneBehind
<1>6. ASSUME NEW S, NEW T, NoneBehind(w, S, T), Head(w) \in S, NEW p \in PacketsIn(Tail(w)) PROVE p \notin T
  <2>1. PICK i \in 1 .. Len(Tail(w)) : p = Tail(w)[i]
    BY DEF PacketsIn
  <2>2. 1 \in 1 .. Len(w) /\ i + 1 \in 1 .. Len(w) /\ 1 < i + 1 /\ p = w[i + 1]
    BY <1>1, <2>1
  <2> QED
    BY <1>2, <1>6, <2>2 DEF NoneBehind
<1> QED
  BY <1>2, <1>3, <1>4, <1>5, <1>6

LEMMA SentTo ==
  ASSUME NEW P, NEW w \in Seq(P), NEW b \in P
  PROVE  /\ w \o <<b>> \in Seq(P)
         /\ PacketsIn(w \o <<b>>) = PacketsIn(w) \cup {b}
         /\ \A S, T : NoneBehind(w, S, T) /\ (b \notin T \/ \A p \in PacketsIn(w) : p \notin S)
                        => NoneBehind(w \o <<b>>, S, T)
<1> DEFINE v == w \o <<b>>
<1>1. /\ Len(w) \in Nat /\ Len(v) = Len(w) + 1 /\ v \in Seq(P)
      /\ \A i \in 1 .. Len(w) : v[i] = w[i]
      /\ v[Len(w) + 1] = b
  OBVIOUS
<1> HIDE DEF v
<1>2. PacketsIn(v) = PacketsIn(w) \cup {b}
  <2>1. 1 .. Len(v) = 1 .. Len(w) \cup {Len(w) + 1}
    BY <1>1
  <2> QED
    BY <1>1, <2>1 DEF PacketsIn
<1>3. ASSUME NEW S, NEW T, NoneBehind(w, S, T), b \notin T \/ \A p \in PacketsIn(w) : p \notin S PROVE NoneBehind(v, S, T)
  <2> SUFFICES ASSUME NEW i \in 1 .. Len(v), NEW j \in 1 .. Len(v), i < j, v[i] \in S PROVE v[j] \notin T
    BY DEF NoneBehind
  <2>1. i \in 1 .. Len(w) /\ v[i] = w[i] /\ w[i] \in PacketsIn(w)
    BY <1>1 DEF PacketsIn
  <2>2. CASE j = Len(w) + 1
    BY <1>1, <1>3, <2>1, <2>2
  <2>3. CASE j # Len(w) + 1
    <3>1. j \in 1 .. Len(w) /\ v[j] = w[j]
      BY <1>1, <2>3
    <3> QED
      BY <1>3, <2>1, <3>1 DEF NoneBehind
  <2> QED
    BY <2>2, <2>3
<1> QED
  BY <1>1, <1>2, <1>3 DEF v

LEMMA NothingIn == PacketsIn(<<>>) = {} /\ \A S, T : NoneBehind(<<>>, S, T)
BY DEF PacketsIn, NoneBehind

LEMMA NothingComes ==
  ASSUME NEW P, NEW w \in Seq(P), PacketsIn(w) = {}
  PROVE  w = <<>>
<1>1. w # <<>> => Head(w) \in PacketsIn(w)
  BY TakenFrom
<1> QED
  BY <1>1

LEMMA PadPackets ==
  /\ \A t \in ClassPad!Types, id \in 0 .. Ids - 1 :
       /\ ClassPad!Packet(t, id) \in ClassPad!Packets
       /\ ClassPad!Packet(t, id).type = t /\ ClassPad!Packet(t, id).id = id
       /\ ClassPad!Packet(t, id).subtype = "none" /\ ClassPad!Packet(t, id).size = 0
  /\ \A t \in ClassPad!Types :
       /\ ClassPad!Byte(t) \in ClassPad!Packets /\ ClassPad!Byte(t).type = t
       /\ ClassPad!Byte(t).subtype = "none" /\ ClassPad!Byte(t).size = 0 /\ ClassPad!Byte(t).id = 0
  /\ \A id \in 0 .. Ids - 1, s \in ClassPad!Subtypes, z \in {0, 41, 49} :
       LET c == ClassPad!Command(id, s, z) IN
       c \in ClassPad!Packets /\ c.type = "command" /\ c.id = id /\ c.subtype = s /\ c.size = z
  /\ \A p \in ClassPad!Packets :
       p.type \in ClassPad!Types /\ p.id \in 0 .. Ids - 1 /\ p.subtype \in ClassPad!Subtypes /\ p.size \in {0, 41, 49}
  /\ 0 \in 0 .. Ids - 1
  /\ {"start", "established", "nul", "notice", "command", "data", "ack", "order", "term", "damaged"} = ClassPad!Types
  /\ {"none", "discover", "information", "settings", "other"} = ClassPad!Subtypes
<1>1. 0 \in 0 .. Ids - 1
  BY IdsAssumption
<1>2. {"start", "established", "nul", "notice", "command", "data", "ack", "order", "term", "damaged"} = ClassPad!Types
  BY DEF ClassPad!Types, ClassPad!Bytes
<1>3. \A t \in ClassPad!Types, id \in 0 .. Ids - 1 :
       /\ ClassPad!Packet(t, id) \in ClassPad!Packets
       /\ ClassPad!Packet(t, id).type = t /\ ClassPad!Packet(t, id).id = id
       /\ ClassPad!Packet(t, id).subtype = "none" /\ ClassPad!Packet(t, id).size = 0
  BY DEF ClassPad!Packet, ClassPad!Packets, ClassPad!Subtypes
<1>4. \A id \in 0 .. Ids - 1, s \in ClassPad!Subtypes, z \in {0, 41, 49} :
       LET c == ClassPad!Command(id, s, z) IN
       c \in ClassPad!Packets /\ c.type = "command" /\ c.id = id /\ c.subtype = s /\ c.size = z
  BY <1>2 DEF ClassPad!Command, ClassPad!Packets
<1> QED
  BY <1>1, <1>2, <1>3, <1>4 DEF ClassPad!Byte, ClassPad!Packets, ClassPad!Subtypes

(* The wires, their types, and what a session must remember for the types. *)
Wires == wire \in [ClassPad!Ends -> Seq(ClassPad!Packets)]

PadTypes ==
  /\ ClassPad!TypeOK
  /\ library \in {{"active"}, {"passive"}, ClassPad!Ends}
  /\ pc["active"] \in {"start", "start_nul"} => attempts > 0

LEMMA TwoEnds ==
  /\ \A e \in ClassPad!Ends : ClassPad!Other(e) \in ClassPad!Ends /\ ClassPad!Other(e) # e
  /\ ClassPad!Ends = {"active", "passive"}
  /\ ClassPad!Other("active") = "passive" /\ ClassPad!Other("passive") = "active"
BY DEF ClassPad!Ends, ClassPad!Other

LEMMA PadTakes ==
  ASSUME Wires, NEW e \in ClassPad!Ends, wire[e] # <<>>, NEW ps \in Seq(ClassPad!Packets), ClassPad!TakeAndSend(e, ps)
  PROVE  /\ Wires' /\ wire'[e] = Tail(wire[e]) /\ UNCHANGED <<lost, damaged, late>>
         /\ wire'[ClassPad!Other(e)] \in {wire[ClassPad!Other(e)], wire[ClassPad!Other(e)] \o ps}
         /\ pc[ClassPad!Other(e)] = "ended" => wire'[ClassPad!Other(e)] = wire[ClassPad!Other(e)]
         /\ Head(wire[e]) \in ClassPad!Packets
<1> DEFINE o == ClassPad!Other(e)
<1>1. o \in ClassPad!Ends /\ o # e
  BY TwoEnds
<1>2. wire[e] \in Seq(ClassPad!Packets) /\ wire[o] \in Seq(ClassPad!Packets)
  BY <1>1 DEF Wires
<1>3. ClassPad!Sent(o, ps) \in Seq(ClassPad!Packets) /\ ClassPad!Sent(o, ps) \in {wire[o], wire[o] \o ps}
       /\ (pc[o] = "ended" => ClassPad!Sent(o, ps) = wire[o])
  BY <1>2 DEF ClassPad!Sent
<1>4. Tail(wire[e]) \in Seq(ClassPad!Packets) /\ Head(wire[e]) \in ClassPad!Packets
  BY <1>2, TakenFrom
<1> HIDE DEF o
<1>5. wire' = [wire EXCEPT ![e] = Tail(@), ![o] = ClassPad!Sent(o, ps)] /\ UNCHANGED <<lost, damaged, late>>
  BY DEF ClassPad!TakeAndSend, o
<1>6. Wires' /\ wire'[e] = Tail(wire[e]) /\ wire'[o] = ClassPad!Sent(o, ps)
  BY <1>1, <1>3, <1>4, <1>5 DEF Wires
<1> QED
  BY <1>3, <1>4, <1>5, <1>6 DEF o

LEMMA PadSends ==
  ASSUME Wires, NEW e \in ClassPad!Ends, NEW ps \in Seq(ClassPad!Packets), ClassPad!Send(e, ps)
  PROVE  /\ Wires' /\ wire'[e] = wire[e] /\ UNCHANGED <<lost, damaged>>
         /\ wire'[ClassPad!Other(e)] \in {wire[ClassPad!Other(e)], wire[ClassPad!Other(e)] \o ps}
         /\ pc[ClassPad!Other(e)] = "ended" => wire'[ClassPad!Other(e)] = wire[ClassPad!Other(e)]
<1> DEFINE o == ClassPad!Other(e)
<1>1. o \in ClassPad!Ends /\ o # e
  BY TwoEnds
<1>2. wire[e] \in Seq(ClassPad!Packets) /\ wire[o] \in Seq(ClassPad!Packets)
  BY <1>1 DEF Wires
<1>3. ClassPad!Sent(o, ps) \in Seq(ClassPad!Packets) /\ ClassPad!Sent(o, ps) \in {wire[o], wire[o] \o ps}
       /\ (pc[o] = "ended" => ClassPad!Sent(o, ps) = wire[o])
  BY <1>2 DEF ClassPad!Sent
<1> HIDE DEF o
<1>5. wire' = [wire EXCEPT ![o] = ClassPad!Sent(o, ps)] /\ UNCHANGED <<lost, damaged>>
  BY DEF ClassPad!Send, o
<1>6. Wires' /\ wire'[e] = wire[e] /\ wire'[o] = ClassPad!Sent(o, ps)
  BY <1>1, <1>3, <1>5 DEF Wires
<1> QED
  BY <1>3, <1>5, <1>6 DEF o

LEMMA PadLoses ==
  ASSUME Wires, ClassPad!Lose \/ ClassPad!Damage
  PROVE  \E e \in ClassPad!Ends :
           /\ Wires' /\ wire'[ClassPad!Other(e)] = wire[ClassPad!Other(e)] /\ wire[e] # <<>>
           /\ \/ wire'[e] = Tail(wire[e]) /\ lost < MaxLost /\ lost' = lost + 1 /\ damaged' = damaged
              \/ /\ wire'[e] = <<ClassPad!Byte("damaged")>> \o Tail(wire[e])
                 /\ damaged < MaxDamaged /\ damaged' = damaged + 1 /\ lost' = lost
<1>1. CASE ClassPad!Lose
  <2>1. PICK e \in ClassPad!Ends : wire[e] # <<>> /\ wire' = [wire EXCEPT ![e] = Tail(@)]
    BY <1>1 DEF ClassPad!Lose
  <2>2. Tail(wire[e]) \in Seq(ClassPad!Packets)
    BY <2>1, TakenFrom DEF Wires
  <2>3. Wires' /\ wire'[e] = Tail(wire[e]) /\ wire'[ClassPad!Other(e)] = wire[ClassPad!Other(e)]
    BY <2>1, <2>2, TwoEnds DEF Wires
  <2> QED
    BY <1>1, <2>1, <2>3 DEF ClassPad!Lose
<1>2. CASE ClassPad!Damage
  <2>1. PICK e \in ClassPad!Ends : wire[e] # <<>> /\ wire' = [wire EXCEPT ![e][1] = ClassPad!Byte("damaged")]
    BY <1>2 DEF ClassPad!Damage
  <2> DEFINE w == [wire[e] EXCEPT ![1] = ClassPad!Byte("damaged")]
  <2>2. wire[e] \in Seq(ClassPad!Packets) /\ ClassPad!Byte("damaged") \in ClassPad!Packets
    BY PadPackets DEF Wires
  <2>3. w \in Seq(ClassPad!Packets) /\ w = <<ClassPad!Byte("damaged")>> \o Tail(wire[e])
    <3> DEFINE z == Len(wire[e])
    <3>1. z \in Nat \ {0}
      BY <2>1, <2>2
    <3>2. Len(Tail(wire[e])) = z - 1 /\ \A i \in 1 .. z - 1 : Tail(wire[e])[i] = wire[e][i + 1]
      BY <2>1, <2>2
    <3> QED
      BY <2>1, <2>2, <3>1, <3>2
  <2>4. wire' = [wire EXCEPT ![e] = w]
    BY <2>1
  <2> HIDE DEF w
  <2>5. Wires' /\ wire'[e] = w /\ wire'[ClassPad!Other(e)] = wire[ClassPad!Other(e)]
    BY <2>3, <2>4, TwoEnds DEF Wires
  <2> QED
    BY <1>2, <2>1, <2>3, <2>5 DEF ClassPad!Damage
<1> QED
  BY <1>1, <1>2

LEMMA NumberedPackets ==
  ASSUME NEW id \in 0 .. Ids - 1
  PROVE  /\ ClassPad!Packet("ack", id) \in ClassPad!Packets /\ <<ClassPad!Packet("ack", id)>> \in Seq(ClassPad!Packets)
         /\ ClassPad!Packet("order", id) \in ClassPad!Packets /\ ClassPad!Packet("term", id) \in ClassPad!Packets
         /\ ClassPad!Packet("data", id) \in ClassPad!Packets
         /\ \A s \in {"discover", "settings", "other", "information"}, z \in {0, 41, 49} :
              ClassPad!Command(id, s, z) \in ClassPad!Packets
<1>1. {"ack", "order", "term", "data"} \subseteq ClassPad!Types
        /\ {"discover", "settings", "other", "information"} \subseteq ClassPad!Subtypes
  BY DEF ClassPad!Types, ClassPad!Subtypes
<1>2. \A t \in ClassPad!Types : ClassPad!Packet(t, id) \in ClassPad!Packets
  BY PadPackets
<1>3. \A s \in ClassPad!Subtypes, z \in {0, 41, 49} : ClassPad!Command(id, s, z) \in ClassPad!Packets
  BY PadPackets
<1> QED
  BY <1>1, <1>2, <1>3

(* A first packet that is replaced.                                        *)
LEMMA FirstIsReplaced ==
  ASSUME NEW P, NEW w \in Seq(P), NEW b \in P
  PROVE  /\ PacketsIn(<<b>> \o w) = {b} \cup PacketsIn(w)
         /\ \A S, T : NoneBehind(w, S, T) /\ b \notin S => NoneBehind(<<b>> \o w, S, T)
<1> DEFINE v == <<b>> \o w
<1>1. /\ Len(w) \in Nat /\ Len(v) = Len(w) + 1 /\ v[1] = b
      /\ \A i \in 2 .. Len(v) : i - 1 \in 1 .. Len(w) /\ v[i] = w[i - 1]
      /\ \A i \in 1 .. Len(w) : i + 1 \in 2 .. Len(v) /\ v[i + 1] = w[i]
  OBVIOUS
<1> HIDE DEF v
<1>2. PacketsIn(v) = {b} \cup PacketsIn(w)
  <2>1. 1 .. Len(v) = {1} \cup 2 .. Len(v)
    BY <1>1
  <2>2. \A i \in 2 .. Len(v) : v[i] \in PacketsIn(w)
    BY <1>1 DEF PacketsIn
  <2>3. \A i \in 1 .. Len(w) : i + 1 \in 1 .. Len(v) /\ w[i] = v[i + 1]
    BY <1>1
  <2>4. PacketsIn(w) \subseteq PacketsIn(v)
    BY <2>3 DEF PacketsIn
  <2>5. b \in PacketsIn(v)
    BY <1>1 DEF PacketsIn
  <2>6. \A q \in PacketsIn(v) : q \in {b} \cup PacketsIn(w)
    BY <1>1, <2>1, <2>2 DEF PacketsIn
  <2> QED
    BY <2>4, <2>5, <2>6
<1>3. ASSUME NEW S, NEW T, NoneBehind(w, S, T), b \notin S PROVE NoneBehind(v, S, T)
  <2> SUFFICES ASSUME NEW i \in 1 .. Len(v), NEW j \in 1 .. Len(v), i < j, v[i] \in S PROVE v[j] \notin T
    BY DEF NoneBehind
  <2>1. i # 1
    BY <1>1, <1>3
  <2>2. i - 1 \in 1 .. Len(w) /\ j - 1 \in 1 .. Len(w) /\ i - 1 < j - 1 /\ v[i] = w[i - 1] /\ v[j] = w[j - 1]
    BY <1>1, <2>1
  <2> QED
    BY <1>3, <2>2 DEF NoneBehind
<1> QED
  BY <1>2, <1>3 DEF v

LEMMA PadInitTypes == ASSUME ClassPad!Init PROVE PadTypes
<1>1. \A e \in ClassPad!Ends : <<>> \in Seq(ClassPad!Packets) /\ ClassPad!Byte("notice") \in ClassPad!Packets
  BY PadPackets
<1>2. {MaxLost, MaxDamaged, MaxLate, InitAttempts, MaxCalls} \subseteq Nat
  BY BoundsAssumption, AttemptsAssumption
<1>3. 0 \in 0 .. MaxLost /\ 0 \in 0 .. MaxDamaged /\ 0 \in 0 .. MaxLate /\ 0 \in 0 .. InitAttempts /\ 0 \in 0 .. MaxCalls
  BY <1>2
<1>4. library \in SUBSET ClassPad!Ends
  BY DEF ClassPad!Init, ClassPad!Ends
<1>5. wire \in [ClassPad!Ends -> Seq(ClassPad!Packets)] /\ sending \in [ClassPad!Ends -> ClassPad!Packets]
  BY <1>1 DEF ClassPad!Init
<1>6. pc \in [ClassPad!Ends -> ClassPad!Places] /\ pc["active"] = "closed"
  BY TwoEnds DEF ClassPad!Init, ClassPad!Places
<1>7. next_id \in [ClassPad!Ends -> 0 .. Ids - 1] /\ calls \in [ClassPad!Ends -> 0 .. MaxCalls]
  BY <1>3, PadPackets DEF ClassPad!Init
<1>8. terminated \in [ClassPad!Ends -> BOOLEAN] /\ irrecoverable \in [ClassPad!Ends -> BOOLEAN]
  BY DEF ClassPad!Init
<1>9. /\ discover \in BOOLEAN /\ lost \in 0 .. MaxLost /\ damaged \in 0 .. MaxDamaged /\ late \in 0 .. MaxLate
      /\ attempts \in 0 .. InitAttempts /\ expected \in 0 .. Ids - 1 /\ identified \in BOOLEAN
      /\ library \in {{"active"}, {"passive"}, ClassPad!Ends}
  BY <1>3, PadPackets DEF ClassPad!Init
<1> QED
  BY <1>4, <1>5, <1>6, <1>7, <1>8, <1>9 DEF ClassPad!TypeOK, PadTypes

(* What keeps the types.                                                   *)
LEMMA TypesKept ==
  ASSUME PadTypes, UNCHANGED <<library, discover>>, Wires', lost' \in 0 .. MaxLost, damaged' \in 0 .. MaxDamaged,
         late' \in 0 .. MaxLate, pc' \in [ClassPad!Ends -> ClassPad!Places],
         next_id' \in [ClassPad!Ends -> 0 .. Ids - 1], sending' \in [ClassPad!Ends -> ClassPad!Packets],
         terminated' \in [ClassPad!Ends -> BOOLEAN], irrecoverable' \in [ClassPad!Ends -> BOOLEAN],
         attempts' \in 0 .. InitAttempts, calls' \in [ClassPad!Ends -> 0 .. MaxCalls],
         expected' \in 0 .. Ids - 1, identified' \in BOOLEAN,
         pc'["active"] \in {"start", "start_nul"} => attempts' > 0
  PROVE  PadTypes'
BY DEF PadTypes, ClassPad!TypeOK, Wires

LEMMA TimeIsKept ==
  ASSUME PadTypes, NEW e, ClassPad!TimeRunsOut(e)
  PROVE  late' \in 0 .. MaxLate
<1>1. late \in 0 .. MaxLate /\ MaxLate \in Nat
  BY BoundsAssumption DEF PadTypes, ClassPad!TypeOK
<1> QED
  BY <1>1 DEF ClassPad!TimeRunsOut

LEMMA GoToIs ==
  ASSUME PadTypes, NEW e \in ClassPad!Ends, NEW place \in ClassPad!Places, NEW r, ClassPad!GoTo(e, place, r)
  PROVE  /\ pc' \in [ClassPad!Ends -> ClassPad!Places] /\ pc'[e] = place
         /\ pc'[ClassPad!Other(e)] = pc[ClassPad!Other(e)]
BY TwoEnds DEF PadTypes, ClassPad!TypeOK, ClassPad!GoTo

LEMMA FailsIs ==
  ASSUME PadTypes, NEW e \in ClassPad!Ends, NEW r, ClassPad!Fails(e, r)
  PROVE  /\ pc' \in [ClassPad!Ends -> ClassPad!Places] /\ pc'[e] \in {"idle", "open", "ended"}
         /\ pc'[ClassPad!Other(e)] = pc[ClassPad!Other(e)]
         /\ e = "passive" => pc'[e] = "idle" 
         /\ e = "active" => pc'[e] = IF "active" \in library THEN "ended" ELSE "open"
<1>1. {"idle", "open", "ended"} \subseteq ClassPad!Places /\ "active" # "passive"
  BY DEF ClassPad!Places
<1> QED
  BY <1>1, GoToIs DEF ClassPad!Fails

LEMMA CommandSentIs ==
  ASSUME PadTypes, NEW e \in ClassPad!Ends, ClassPad!CommandSent(e)
  PROVE  /\ pc' \in [ClassPad!Ends -> ClassPad!Places] /\ pc'[e] \in {"receive", "reply", "open"}
         /\ pc'[ClassPad!Other(e)] = pc[ClassPad!Other(e)]
         /\ e = "passive" => pc'[e] = "receive" 
         /\ e = "active" => pc'[e] = IF "active" \in library THEN "reply" ELSE "open"
<1>1. {"receive", "reply", "open"} \subseteq ClassPad!Places /\ "active" # "passive"
  BY DEF ClassPad!Places
<1> QED
  BY <1>1, GoToIs DEF ClassPad!CommandSent

LEMMA WiresAreTyped == PadTypes => Wires
BY DEF PadTypes, ClassPad!TypeOK, Wires

LEMMA NumberedIs ==
  ASSUME PadTypes, NEW e \in ClassPad!Ends, NEW id \in 0 .. Ids - 1, NEW s \in ClassPad!Subtypes, NEW z \in {0, 41, 49},
         ClassPad!SendNumbered(e, id, s, z)
  PROVE  /\ next_id' \in [ClassPad!Ends -> 0 .. Ids - 1] /\ sending' \in [ClassPad!Ends -> ClassPad!Packets]
         /\ next_id'[e] = ClassPad!After(id) /\ sending'[e] = ClassPad!Command(id, s, z)
         /\ \A o \in ClassPad!Ends \ {e} : next_id'[o] = next_id[o] /\ sending'[o] = sending[o]
<1>1. ClassPad!Command(id, s, z) \in ClassPad!Packets /\ ClassPad!After(id) \in 0 .. Ids - 1
  BY PadPackets, NextIdentifier
<1> QED
  BY <1>1 DEF PadTypes, ClassPad!TypeOK, ClassPad!SendNumbered

LEMMA InitTypes ==
  ASSUME PadTypes, ClassPad!InitTimesOut \/ ClassPad!InitNotice \/ ClassPad!InitNul \/ ClassPad!Initiated
  PROVE  PadTypes'
<1> USE DEF ClassPad!fixed, ClassPad!classPadVars
<1>1. /\ Wires /\ "active" \in ClassPad!Ends
      /\ <<>> \in Seq(ClassPad!Packets) /\ <<ClassPad!Byte("start")>> \in Seq(ClassPad!Packets)
      /\ {"start", "ended", "start_nul", "ack", "open"} \subseteq ClassPad!Places
  BY WiresAreTyped, TwoEnds, PadPackets DEF ClassPad!Places
<1>2. ASSUME ClassPad!NextAttempt, attempts > 0
      PROVE  /\ pc' \in [ClassPad!Ends -> ClassPad!Places] /\ attempts' \in 0 .. InitAttempts
             /\ pc'["active"] \in {"start", "start_nul"} => attempts' > 0
  <2>1. attempts \in 0 .. InitAttempts /\ InitAttempts \in Nat /\ attempts' = attempts - 1 /\ attempts' \in 0 .. InitAttempts
    BY <1>2, AttemptsAssumption DEF PadTypes, ClassPad!TypeOK, ClassPad!NextAttempt
  <2>2. CASE attempts > 1
    <3>1. ClassPad!GoTo("active", "start", "none")
      BY <1>2, <2>2 DEF ClassPad!NextAttempt
    <3> QED
      BY <1>1, <2>1, <2>2, <3>1, GoToIs
  <2>3. CASE ~(attempts > 1)
    <3>1. ClassPad!GoTo("active", "ended", "TIMEOUT_START")
      BY <1>2, <2>3 DEF ClassPad!NextAttempt
    <3> QED
      BY <1>1, <2>1, <3>1, GoToIs
  <2> QED
    BY <2>2, <2>3
<1>3. CASE ClassPad!InitTimesOut
  <2>1. late' \in 0 .. MaxLate
    BY <1>3, TimeIsKept DEF ClassPad!InitTimesOut
  <2>2. Wires' /\ UNCHANGED <<lost, damaged>>
    BY <1>1, <1>3, PadSends DEF ClassPad!InitTimesOut
  <2>3. attempts > 0
    BY <1>3 DEF ClassPad!InitTimesOut, PadTypes
  <2> QED
    BY <1>2, <1>3, <2>1, <2>2, <2>3, TypesKept DEF ClassPad!InitTimesOut, PadTypes, ClassPad!TypeOK
<1>4. CASE ClassPad!InitNotice
  <2>2. Wires' /\ UNCHANGED <<lost, damaged, late>>
    BY <1>1, <1>4, PadTakes DEF ClassPad!InitNotice
  <2>3. attempts > 0
    BY <1>4 DEF ClassPad!InitNotice, PadTypes
  <2> QED
    BY <1>2, <1>4, <2>2, <2>3, TypesKept DEF ClassPad!InitNotice, PadTypes, ClassPad!TypeOK
<1>5. CASE ClassPad!InitNul
  <2>2. Wires' /\ UNCHANGED <<lost, damaged, late>>
    BY <1>1, <1>5, PadTakes DEF ClassPad!InitNul, ClassPad!Take
  <2>3. pc' \in [ClassPad!Ends -> ClassPad!Places] /\ attempts > 0
    BY <1>1, <1>5, GoToIs DEF ClassPad!InitNul, PadTypes
  <2> QED
    BY <1>5, <2>2, <2>3, TypesKept DEF ClassPad!InitNul, PadTypes, ClassPad!TypeOK
<1>6. CASE ClassPad!Initiated
  <2>1. CASE discover /\ "active" \in library
    <3>1. /\ ClassPad!SendNumbered("active", next_id["active"], "discover", 0)
          /\ ClassPad!TakeAndSend("active", <<sending'["active"]>>) /\ ClassPad!GoTo("active", "ack", "none")
      BY <1>6, <2>1 DEF ClassPad!Initiated
    <3>2. next_id["active"] \in 0 .. Ids - 1 /\ "discover" \in ClassPad!Subtypes
      BY <1>1 DEF PadTypes, ClassPad!TypeOK, ClassPad!Subtypes
    <3>3. next_id' \in [ClassPad!Ends -> 0 .. Ids - 1] /\ sending' \in [ClassPad!Ends -> ClassPad!Packets]
      BY <1>1, <3>1, <3>2, NumberedIs
    <3>4. <<sending'["active"]>> \in Seq(ClassPad!Packets)
      BY <1>1, <3>3
    <3>5. Wires' /\ UNCHANGED <<lost, damaged, late>>
      BY <1>1, <1>6, <3>1, <3>4, PadTakes DEF ClassPad!Initiated
    <3>6. pc' \in [ClassPad!Ends -> ClassPad!Places] /\ pc'["active"] = "ack"
      BY <1>1, <3>1, GoToIs
    <3> QED
      BY <1>6, <3>3, <3>5, <3>6, TypesKept DEF ClassPad!Initiated, PadTypes, ClassPad!TypeOK
  <2>2. CASE ~(discover /\ "active" \in library)
    <3>1. ClassPad!Take("active") /\ ClassPad!GoTo("active", "open", "OK") /\ UNCHANGED <<next_id, sending>>
      BY <1>6, <2>2 DEF ClassPad!Initiated
    <3>2. Wires' /\ UNCHANGED <<lost, damaged, late>>
      BY <1>1, <1>6, <3>1, PadTakes DEF ClassPad!Initiated, ClassPad!Take
    <3>3. pc' \in [ClassPad!Ends -> ClassPad!Places] /\ pc'["active"] = "open"
      BY <1>1, <3>1, GoToIs
    <3> QED
      BY <1>6, <3>1, <3>2, <3>3, TypesKept DEF ClassPad!Initiated, PadTypes, ClassPad!TypeOK
  <2> QED
    BY <2>1, <2>2
<1> QED
  BY <1>3, <1>4, <1>5, <1>6

LEMMA ReceiveTypes ==
  ASSUME PadTypes, NEW e \in ClassPad!Ends, ClassPad!Receive(e)
  PROVE  PadTypes'
<1> USE DEF ClassPad!fixed, ClassPad!classPadVars
<1> DEFINE h == Head(wire[e])
<1>1. Wires /\ <<>> \in Seq(ClassPad!Packets)
  BY WiresAreTyped
<1>2. \A ts : ClassPad!Receiving(e, ts) => h \in ClassPad!Packets /\ h.id \in 0 .. Ids - 1
  BY <1>1, TakenFrom, PadPackets DEF ClassPad!Receiving, Wires
<1>3. \A ts : ClassPad!Receiving(e, ts) => wire[e] # <<>> /\ e \in library /\ pc[e] \in {"ack", "reply", "receive"}
  BY DEF ClassPad!Receiving
<1> HIDE DEF h
<1>4. h.id \in 0 .. Ids - 1 => ClassPad!Packet("ack", h.id) \in ClassPad!Packets
  BY PadPackets DEF ClassPad!Types
<1>5. CASE ClassPad!AnswerStart(e)
  <2>1. <<ClassPad!Byte("established")>> \in Seq(ClassPad!Packets)
    BY PadPackets
  <2>2. Wires' /\ UNCHANGED <<lost, damaged, late>>
    BY <1>1, <1>3, <1>5, <2>1, PadTakes DEF ClassPad!AnswerStart
  <2>3. terminated' \in [ClassPad!Ends -> BOOLEAN]
    BY <1>5 DEF ClassPad!AnswerStart, PadTypes, ClassPad!TypeOK
  <2> QED
    BY <1>5, <2>2, <2>3, TypesKept DEF ClassPad!AnswerStart, PadTypes, ClassPad!TypeOK
<1>6. CASE ClassPad!ReceiveDamaged(e)
  <2>1. Wires' /\ UNCHANGED <<lost, damaged, late>>
    <3>1. CASE ClassPad!Take(e)
      BY <1>1, <1>3, <1>6, <3>1, PadTakes DEF ClassPad!ReceiveDamaged, ClassPad!Take
    <3>2. CASE UNCHANGED ClassPad!wireVars
      BY <1>1, <3>2 DEF ClassPad!wireVars, Wires
    <3> QED
      BY <1>6, <3>1, <3>2 DEF ClassPad!ReceiveDamaged
  <2>2. pc' \in [ClassPad!Ends -> ClassPad!Places] /\ (pc'["active"] \in {"start", "start_nul"} => pc["active"] = pc'["active"])
    BY <1>6, FailsIs, TwoEnds DEF ClassPad!ReceiveDamaged
  <2> QED
    BY <1>6, <2>1, <2>2, TypesKept DEF ClassPad!ReceiveDamaged, PadTypes, ClassPad!TypeOK
<1>7. CASE ClassPad!ReceiveTerm(e)
  <2>1. <<ClassPad!Packet("ack", h.id)>> \in Seq(ClassPad!Packets) /\ ClassPad!TakeAndSend(e, <<ClassPad!Packet("ack", h.id)>>)
    BY <1>2, <1>4, <1>7 DEF ClassPad!ReceiveTerm, h
  <2>2. Wires' /\ UNCHANGED <<lost, damaged, late>>
    BY <1>1, <1>3, <1>7, <2>1, PadTakes DEF ClassPad!ReceiveTerm
  <2>3. pc' \in [ClassPad!Ends -> ClassPad!Places] /\ (pc'["active"] \in {"start", "start_nul"} => pc["active"] = pc'["active"])
    BY <1>7, FailsIs, TwoEnds DEF ClassPad!ReceiveTerm
  <2>4. terminated' \in [ClassPad!Ends -> BOOLEAN]
    BY <1>7 DEF ClassPad!ReceiveTerm, PadTypes, ClassPad!TypeOK
  <2> QED
    BY <1>7, <2>2, <2>3, <2>4, TypesKept DEF ClassPad!ReceiveTerm, PadTypes, ClassPad!TypeOK
<1>8. CASE ClassPad!ReceiveOrder(e)
  <2>1. h.id \in 0 .. Ids - 1 /\ wire[e] # <<>> /\ pc[e] \in {"ack", "reply", "receive"}
    BY <1>2, <1>3, <1>8 DEF ClassPad!ReceiveOrder
  <2>2. CASE pc[e] = "ack"
    <3>1. /\ ClassPad!SendNumbered(e, h.id, sending[e].subtype, sending[e].size)
          /\ ClassPad!TakeAndSend(e, <<sending'[e]>>) /\ UNCHANGED <<pc, result>>
      BY <1>8, <2>2 DEF ClassPad!ReceiveOrder, h
    <3>2. sending[e].subtype \in ClassPad!Subtypes /\ sending[e].size \in {0, 41, 49}
      BY PadPackets DEF PadTypes, ClassPad!TypeOK
    <3>3. next_id' \in [ClassPad!Ends -> 0 .. Ids - 1] /\ sending' \in [ClassPad!Ends -> ClassPad!Packets]
      BY <2>1, <3>1, <3>2, NumberedIs
    <3>4. <<sending'[e]>> \in Seq(ClassPad!Packets)
      BY <3>3
    <3>5. Wires' /\ UNCHANGED <<lost, damaged, late>>
      BY <1>1, <2>1, <3>1, <3>4, PadTakes
    <3> QED
      BY <1>8, <3>1, <3>3, <3>5, TypesKept DEF ClassPad!ReceiveOrder, PadTypes, ClassPad!TypeOK
  <2>3. CASE pc[e] # "ack"
    <3>1. next_id' = [next_id EXCEPT ![e] = h.id] /\ ClassPad!Take(e) /\ ClassPad!Fails(e, "UNKNOWN") /\ UNCHANGED sending
      BY <1>8, <2>3 DEF ClassPad!ReceiveOrder, h
    <3>2. next_id' \in [ClassPad!Ends -> 0 .. Ids - 1]
      BY <2>1, <3>1 DEF PadTypes, ClassPad!TypeOK
    <3>3. Wires' /\ UNCHANGED <<lost, damaged, late>>
      BY <1>1, <2>1, <3>1, PadTakes DEF ClassPad!Take
    <3>4. pc' \in [ClassPad!Ends -> ClassPad!Places] /\ (pc'["active"] \in {"start", "start_nul"} => pc["active"] = pc'["active"])
      BY <3>1, FailsIs, TwoEnds
    <3> QED
      BY <1>8, <3>1, <3>2, <3>3, <3>4, TypesKept DEF ClassPad!ReceiveOrder, PadTypes, ClassPad!TypeOK
  <2> QED
    BY <2>2, <2>3
<1>9. CASE ClassPad!ReceiveAck(e)
  <2>1. Wires' /\ UNCHANGED <<lost, damaged, late>>
    BY <1>1, <1>3, <1>9, PadTakes DEF ClassPad!ReceiveAck, ClassPad!Take
  <2>2. pc' \in [ClassPad!Ends -> ClassPad!Places] /\ (pc'["active"] \in {"start", "start_nul"} => pc["active"] = pc'["active"])
    <3>1. CASE ClassPad!CommandSent(e)
      BY <3>1, CommandSentIs, TwoEnds
    <3>2. CASE ClassPad!Fails(e, "UNKNOWN")
      BY <3>2, FailsIs, TwoEnds
    <3>3. CASE UNCHANGED pc
      BY <3>3 DEF PadTypes, ClassPad!TypeOK
    <3> QED
      BY <1>9, <3>1, <3>2, <3>3 DEF ClassPad!ReceiveAck
  <2> QED
    BY <1>9, <2>1, <2>2, TypesKept DEF ClassPad!ReceiveAck, PadTypes, ClassPad!TypeOK
<1>10. CASE ClassPad!AckTimesOut(e)
  <2>1. <<sending[e]>> \in Seq(ClassPad!Packets)
    BY DEF PadTypes, ClassPad!TypeOK
  <2>2. Wires' /\ UNCHANGED <<lost, damaged>>
    BY <1>1, <1>10, <2>1, PadSends DEF ClassPad!AckTimesOut
  <2>3. late' \in 0 .. MaxLate
    BY <1>10, TimeIsKept DEF ClassPad!AckTimesOut
  <2> QED
    BY <1>10, <2>2, <2>3, TypesKept DEF ClassPad!AckTimesOut, PadTypes, ClassPad!TypeOK
<1>11. CASE ClassPad!ForgetCommand(e)
  <2>1. <<ClassPad!Packet("ack", h.id)>> \in Seq(ClassPad!Packets) /\ ClassPad!TakeAndSend(e, <<ClassPad!Packet("ack", h.id)>>)
    BY <1>2, <1>4, <1>11 DEF ClassPad!ForgetCommand, h
  <2>2. Wires' /\ UNCHANGED <<lost, damaged, late>>
    BY <1>1, <1>3, <1>11, <2>1, PadTakes DEF ClassPad!ForgetCommand
  <2> QED
    BY <1>11, <2>2, TypesKept DEF ClassPad!ForgetCommand, ClassPad!endVars, PadTypes, ClassPad!TypeOK
<1> QED
  BY <1>5, <1>6, <1>7, <1>8, <1>9, <1>10, <1>11 DEF ClassPad!Receive

(* The other steps of the library's ends.                                  *)
LEMMA CommandTypes ==
  ASSUME PadTypes,
         \/ ClassPad!ReceiveReply \/ ClassPad!TerminationAnswered \/ ClassPad!ReceiverInitiated
         \/ ClassPad!HandleCommand
  PROVE  PadTypes'
<1> USE DEF ClassPad!fixed, ClassPad!classPadVars
<1>1. /\ Wires /\ {"active", "passive"} = ClassPad!Ends /\ <<>> \in Seq(ClassPad!Packets)
      /\ {"idle", "ended", "open", "ack"} \subseteq ClassPad!Places
  BY WiresAreTyped, TwoEnds DEF ClassPad!Places
<1>2. \A e \in ClassPad!Ends : wire[e] # <<>> =>
         Head(wire[e]).id \in 0 .. Ids - 1 /\ <<ClassPad!Packet("ack", Head(wire[e]).id)>> \in Seq(ClassPad!Packets)
  BY <1>1, TakenFrom, PadPackets, NumberedPackets DEF Wires
<1>3. ASSUME NEW e \in ClassPad!Ends, NEW r, ClassPad!Fails(e, r)
      PROVE  pc' \in [ClassPad!Ends -> ClassPad!Places] /\ (pc'["active"] \in {"start", "start_nul"} => pc["active"] = pc'["active"])
  BY <1>3, FailsIs, TwoEnds
<1>4. CASE ClassPad!ReceiveReply
  <2>1. Wires' /\ UNCHANGED <<lost, damaged, late>>
    BY <1>1, <1>2, <1>4, PadTakes DEF ClassPad!ReceiveReply, ClassPad!Receiving
  <2>2. pc' \in [ClassPad!Ends -> ClassPad!Places] /\ (pc'["active"] \in {"start", "start_nul"} => pc["active"] = pc'["active"])
    <3>1. CASE ClassPad!GoTo("active", "open", "OK")
      BY <1>1, <3>1, GoToIs
    <3> QED
      BY <1>1, <1>3, <1>4, <3>1 DEF ClassPad!ReceiveReply
  <2> QED
    BY <1>4, <2>1, <2>2, TypesKept DEF ClassPad!ReceiveReply, PadTypes, ClassPad!TypeOK
<1>5. CASE ClassPad!TerminationAnswered
  <2>1. wire["active"] # <<>>
    BY <1>5 DEF ClassPad!TerminationAnswered, ClassPad!ThreeBytes
  <2>2. Wires' /\ UNCHANGED <<lost, damaged, late>>
    BY <1>1, <1>5, <2>1, PadTakes DEF ClassPad!TerminationAnswered, ClassPad!Take
  <2>3. pc' \in [ClassPad!Ends -> ClassPad!Places] /\ pc'["active"] = "ended"
    BY <1>1, <1>5, GoToIs DEF ClassPad!TerminationAnswered
  <2>4. terminated' \in [ClassPad!Ends -> BOOLEAN]
    BY <1>5 DEF ClassPad!TerminationAnswered, PadTypes, ClassPad!TypeOK
  <2> QED
    BY <1>5, <2>2, <2>3, <2>4, TypesKept DEF ClassPad!TerminationAnswered, PadTypes, ClassPad!TypeOK
<1>6. CASE ClassPad!ReceiverInitiated
  <2>1. Wires' /\ UNCHANGED <<lost, damaged, late>>
    <3>1. <<ClassPad!Byte("established")>> \in Seq(ClassPad!Packets)
      BY PadPackets
    <3>2. \/ ClassPad!TakeAndSend("passive", <<ClassPad!Byte("established")>>)
          \/ ClassPad!TakeAndSend("passive", <<>>)
      BY <1>6 DEF ClassPad!ReceiverInitiated, ClassPad!Take
    <3> QED
      BY <1>1, <1>6, <3>1, <3>2, PadTakes DEF ClassPad!ReceiverInitiated
  <2>2. pc' \in [ClassPad!Ends -> ClassPad!Places] /\ pc'["active"] = pc["active"]
    <3>1. CASE ClassPad!GoTo("passive", "idle", "OK")
      BY <1>1, <3>1, GoToIs, TwoEnds
    <3>2. CASE UNCHANGED pc
      BY <3>2 DEF PadTypes, ClassPad!TypeOK
    <3> QED
      BY <1>6, <3>1, <3>2 DEF ClassPad!ReceiverInitiated
  <2> QED
    BY <1>6, <2>1, <2>2, TypesKept DEF ClassPad!ReceiverInitiated, PadTypes, ClassPad!TypeOK
<1>7. CASE ClassPad!HandleCommand
  <2> DEFINE h == Head(wire["passive"])
             ack == ClassPad!Packet("ack", h.id)
  <2>1. wire["passive"] # <<>> /\ <<ack>> \in Seq(ClassPad!Packets) /\ ack \in ClassPad!Packets
    BY <1>1, <1>2, <1>7, PadPackets DEF ClassPad!HandleCommand, ClassPad!Receiving
  <2>2. CASE h.subtype = "discover"
    <3>1. /\ ClassPad!SendNumbered("passive", next_id["passive"], "information", 41)
          /\ ClassPad!TakeAndSend("passive", <<ack, sending'["passive"]>>)
          /\ ClassPad!GoTo("passive", "ack", "none") /\ UNCHANGED irrecoverable
      BY <1>7, <2>2 DEF ClassPad!HandleCommand
    <3>2. next_id["passive"] \in 0 .. Ids - 1 /\ "information" \in ClassPad!Subtypes
      BY <1>1 DEF PadTypes, ClassPad!TypeOK, ClassPad!Subtypes
    <3>3. next_id' \in [ClassPad!Ends -> 0 .. Ids - 1] /\ sending' \in [ClassPad!Ends -> ClassPad!Packets]
      BY <1>1, <3>1, <3>2, NumberedIs
    <3>4. <<ack, sending'["passive"]>> \in Seq(ClassPad!Packets)
      BY <1>1, <2>1, <3>3
    <3>5. Wires' /\ UNCHANGED <<lost, damaged, late>>
      BY <1>1, <2>1, <3>1, <3>4, PadTakes
    <3>6. pc' \in [ClassPad!Ends -> ClassPad!Places] /\ pc'["active"] = pc["active"]
      BY <1>1, <3>1, GoToIs, TwoEnds
    <3> QED
      BY <1>7, <3>1, <3>3, <3>5, <3>6, TypesKept DEF ClassPad!HandleCommand, PadTypes, ClassPad!TypeOK
  <2>3. CASE h.subtype # "discover"
    <3>1. ClassPad!TakeAndSend("passive", <<ack>>) /\ UNCHANGED <<next_id, sending>> /\ \E r : ClassPad!Fails("passive", r)
      BY <1>7, <2>3 DEF ClassPad!HandleCommand
    <3>2. irrecoverable' \in [ClassPad!Ends -> BOOLEAN]
      BY <1>7, <2>3 DEF ClassPad!HandleCommand, PadTypes, ClassPad!TypeOK
    <3>3. Wires' /\ UNCHANGED <<lost, damaged, late>>
      BY <1>1, <2>1, <3>1, PadTakes
    <3>4. pc' \in [ClassPad!Ends -> ClassPad!Places] /\ (pc'["active"] \in {"start", "start_nul"} => pc["active"] = pc'["active"])
      BY <1>1, <1>3, <3>1
    <3> QED
      BY <1>7, <3>1, <3>2, <3>3, <3>4, TypesKept DEF ClassPad!HandleCommand, PadTypes, ClassPad!TypeOK
  <2> QED
    BY <2>2, <2>3
<1> QED
  BY <1>4, <1>5, <1>6, <1>7

(* The steps of a ClassPad.                                                *)
LEMMA DeviceTypes ==
  ASSUME PadTypes, ClassPad!Device \/ ClassPad!ClassPadGives
  PROVE  PadTypes'
<1> USE DEF ClassPad!fixed, ClassPad!classPadVars
<1>1. /\ Wires /\ {"active", "passive"} = ClassPad!Ends /\ <<>> \in Seq(ClassPad!Packets)
      /\ {"receive", "open", "ack"} \subseteq ClassPad!Places
  BY WiresAreTyped, TwoEnds DEF ClassPad!Places
<1>2. \A e \in ClassPad!Ends : wire[e] # <<>> =>
         /\ Head(wire[e]).id \in 0 .. Ids - 1 /\ ClassPad!Packet("ack", Head(wire[e]).id) \in ClassPad!Packets
  BY <1>1, TakenFrom, PadPackets, NumberedPackets DEF Wires
<1>3. \A b \in {"established", "nul", "notice"} : <<ClassPad!Byte(b)>> \in Seq(ClassPad!Packets)
        /\ <<ClassPad!Byte(b), ClassPad!Byte(b)>> \in Seq(ClassPad!Packets)
  BY PadPackets
<1>4. CASE ClassPad!ClassPadStarted
  <2>1. Wires' /\ UNCHANGED <<lost, damaged, late>>
    <3>1. PICK ps \in Seq(ClassPad!Packets) : ClassPad!TakeAndSend("passive", ps)
      BY <1>3, <1>4 DEF ClassPad!ClassPadStarted
    <3> QED
      BY <1>1, <1>4, <3>1, PadTakes DEF ClassPad!ClassPadStarted
  <2>2. pc' \in [ClassPad!Ends -> ClassPad!Places] /\ pc'["active"] = pc["active"]
    <3>1. CASE ClassPad!GoTo("passive", "receive", "none")
      BY <1>1, <3>1, GoToIs, TwoEnds
    <3>2. CASE UNCHANGED pc
      BY <3>2 DEF PadTypes, ClassPad!TypeOK
    <3> QED
      BY <1>4, <3>1, <3>2 DEF ClassPad!ClassPadStarted
  <2> QED
    BY <1>4, <2>1, <2>2, TypesKept DEF ClassPad!ClassPadStarted, PadTypes, ClassPad!TypeOK
<1>5. ASSUME NEW e \in ClassPad!Ends, ClassPad!ClassPadCommand(e) PROVE PadTypes'
  <2> DEFINE ack == ClassPad!Packet("ack", Head(wire[e]).id)
             reply == IF identified THEN ClassPad!Packet("term", next_id[e])
                      ELSE ClassPad!Command(next_id[e], "information", 49)
  <2>1. wire[e] # <<>> /\ <<ack>> \in Seq(ClassPad!Packets) /\ ack \in ClassPad!Packets
    BY <1>2, <1>5 DEF ClassPad!ClassPadCommand
  <2>2. next_id[e] \in 0 .. Ids - 1 /\ expected \in 0 .. Ids - 1
    BY DEF PadTypes, ClassPad!TypeOK
  <2>3. reply \in ClassPad!Packets /\ ClassPad!Packet("order", expected) \in ClassPad!Packets
    BY <2>2, NumberedPackets
  <2> HIDE DEF reply, ack
  <2>4. <<ack, reply>> \in Seq(ClassPad!Packets) /\ <<ClassPad!Packet("order", expected)>> \in Seq(ClassPad!Packets)
    BY <2>1, <2>3
  <2>5. PICK ps \in {<<ack>>, <<ack, reply>>, <<ClassPad!Packet("order", expected)>>} : ClassPad!TakeAndSend(e, ps)
    BY <1>5 DEF ClassPad!ClassPadCommand, ack, reply
  <2>6. Wires' /\ UNCHANGED <<lost, damaged, late>>
    BY <1>1, <2>1, <2>4, <2>5, PadTakes
  <2>7. ClassPad!After(expected) \in 0 .. Ids - 1 /\ ClassPad!After(next_id[e]) \in 0 .. Ids - 1
    BY <2>2, NextIdentifier
  <2>8. next_id' \in {next_id, [next_id EXCEPT ![e] = ClassPad!After(next_id[e])]} /\ expected' \in {expected, ClassPad!After(expected)}
    BY <1>5 DEF ClassPad!ClassPadCommand
  <2>9. identified' \in BOOLEAN
    BY <1>5 DEF ClassPad!ClassPadCommand, PadTypes, ClassPad!TypeOK
  <2>10. next_id' \in [ClassPad!Ends -> 0 .. Ids - 1]
    BY <2>7, <2>8 DEF PadTypes, ClassPad!TypeOK
  <2>11. UNCHANGED <<library, discover, pc, sending, terminated, irrecoverable, attempts, calls>>
    BY <1>5 DEF ClassPad!ClassPadCommand
  <2> QED
    BY <2>2, <2>6, <2>7, <2>8, <2>9, <2>10, <2>11, TypesKept DEF PadTypes, ClassPad!TypeOK
<1>6. ASSUME NEW e \in ClassPad!Ends, ClassPad!ClassPadTakes(e) PROVE PadTypes'
  <2>1. PICK ps \in {<<>>, <<ClassPad!Byte("established")>>, <<ClassPad!Packet("ack", Head(wire[e]).id)>>} :
           ClassPad!TakeAndSend(e, ps)
    BY <1>6 DEF ClassPad!ClassPadTakes
  <2>2. ps \in Seq(ClassPad!Packets)
    <3>1. <<ClassPad!Packet("ack", Head(wire[e]).id)>> \in Seq(ClassPad!Packets)
      BY <1>2, <1>6, NumberedPackets DEF ClassPad!ClassPadTakes
    <3> QED
      BY <1>1, <1>3, <2>1, <3>1
  <2>3. Wires' /\ UNCHANGED <<lost, damaged, late>>
    BY <1>1, <1>6, <2>1, <2>2, PadTakes DEF ClassPad!ClassPadTakes
  <2>4. pc' \in [ClassPad!Ends -> ClassPad!Places] /\ (pc'["active"] \in {"start", "start_nul"} => pc["active"] = pc'["active"])
    <3>1. CASE ClassPad!CommandSent(e)
      BY <3>1, CommandSentIs, TwoEnds
    <3>2. CASE UNCHANGED pc
      BY <3>2 DEF PadTypes, ClassPad!TypeOK
    <3> QED
      BY <1>6, <3>1, <3>2 DEF ClassPad!ClassPadTakes
  <2>5. terminated' \in [ClassPad!Ends -> BOOLEAN]
    BY <1>6 DEF ClassPad!ClassPadTakes, PadTypes, ClassPad!TypeOK
  <2> QED
    BY <1>6, <2>3, <2>4, <2>5, TypesKept DEF ClassPad!ClassPadTakes, PadTypes, ClassPad!TypeOK
<1>7. CASE ClassPad!ClassPadGives
  <2>1. PICK subtype \in {"discover", "settings", "other"}, type \in {"command", "data"} :
          /\ next_id' = [next_id EXCEPT !["active"] = ClassPad!After(next_id["active"])]
          /\ sending' = [sending EXCEPT !["active"] =
               IF type = "data" THEN ClassPad!Packet("data", next_id["active"])
               ELSE ClassPad!Command(next_id["active"], subtype, 0)]
    BY <1>7 DEF ClassPad!ClassPadGives
  <2>2. next_id["active"] \in 0 .. Ids - 1
    BY <1>1 DEF PadTypes, ClassPad!TypeOK
  <2>3. /\ ClassPad!After(next_id["active"]) \in 0 .. Ids - 1
        /\ ClassPad!Packet("data", next_id["active"]) \in ClassPad!Packets
        /\ ClassPad!Command(next_id["active"], subtype, 0) \in ClassPad!Packets
    BY <2>2, NextIdentifier, NumberedPackets
  <2>4. next_id' \in [ClassPad!Ends -> 0 .. Ids - 1] /\ sending' \in [ClassPad!Ends -> ClassPad!Packets]
    BY <2>1, <2>3 DEF PadTypes, ClassPad!TypeOK
  <2>5. <<sending'["active"]>> \in Seq(ClassPad!Packets)
    BY <1>1, <2>4
  <2>6. Wires' /\ UNCHANGED <<lost, damaged, late>>
    BY <1>1, <1>7, <2>5, PadSends DEF ClassPad!ClassPadGives
  <2>7. pc' \in [ClassPad!Ends -> ClassPad!Places] /\ pc'["active"] = "ack"
    BY <1>1, <1>7, GoToIs DEF ClassPad!ClassPadGives
  <2>8. calls' \in [ClassPad!Ends -> 0 .. MaxCalls]
    <3>1. MaxCalls \in Nat /\ calls \in [ClassPad!Ends -> 0 .. MaxCalls]
      BY BoundsAssumption DEF PadTypes, ClassPad!TypeOK
    <3> QED
      BY <1>1, <1>7, <3>1 DEF ClassPad!ClassPadGives
  <2>9. UNCHANGED <<library, discover, terminated, irrecoverable, attempts, expected, identified>>
    BY <1>7 DEF ClassPad!ClassPadGives
  <2> QED
    BY <2>4, <2>6, <2>7, <2>8, <2>9, TypesKept DEF PadTypes, ClassPad!TypeOK
<1> QED
  BY <1>4, <1>5, <1>6, <1>7 DEF ClassPad!Device, ClassPad!ClassPad

(* The calls of the programs, and the faults.                              *)
LEMMA CallTypes ==
  ASSUME PadTypes, ClassPad!Program \/ ClassPad!Lose \/ ClassPad!Damage
  PROVE  PadTypes'
<1> USE DEF ClassPad!fixed, ClassPad!classPadVars, ClassPad!wireVars
<1>1. /\ Wires /\ {"active", "passive"} = ClassPad!Ends /\ <<ClassPad!Byte("start")>> \in Seq(ClassPad!Packets)
      /\ {"start", "ack", "receive", "ended", "terminate"} \subseteq ClassPad!Places
  BY WiresAreTyped, TwoEnds, PadPackets DEF ClassPad!Places
<1>2. CASE ClassPad!BeginInitiate
  <2>1. Wires' /\ UNCHANGED <<lost, damaged, late>>
    BY <1>1, <1>2, PadSends DEF ClassPad!BeginInitiate
  <2>2. pc' \in [ClassPad!Ends -> ClassPad!Places]
    BY <1>1, <1>2, GoToIs DEF ClassPad!BeginInitiate
  <2>3. attempts' \in 0 .. InitAttempts /\ attempts' > 0
    BY <1>2, AttemptsAssumption DEF ClassPad!BeginInitiate
  <2> QED
    BY <1>2, <2>1, <2>2, <2>3, TypesKept DEF ClassPad!BeginInitiate, PadTypes, ClassPad!TypeOK
<1>3. CASE ClassPad!Detected
  <2>1. PICK id \in 1 .. Ids - 1 : expected' = id /\ ClassPad!SendNumbered("active", id, "discover", 0)
    BY <1>3 DEF ClassPad!Detected
  <2>2. id \in 0 .. Ids - 1 /\ "discover" \in ClassPad!Subtypes
    BY IdsAssumption DEF ClassPad!Subtypes
  <2>3. next_id' \in [ClassPad!Ends -> 0 .. Ids - 1] /\ sending' \in [ClassPad!Ends -> ClassPad!Packets]
    BY <1>1, <2>1, <2>2, NumberedIs
  <2>4. <<sending'["active"]>> \in Seq(ClassPad!Packets)
    BY <1>1, <2>3
  <2>5. Wires' /\ UNCHANGED <<lost, damaged, late>>
    BY <1>1, <1>3, <2>4, PadSends DEF ClassPad!Detected
  <2>6. pc' \in [ClassPad!Ends -> ClassPad!Places] /\ pc'["active"] = "ack"
    BY <1>1, <1>3 DEF ClassPad!Detected, PadTypes, ClassPad!TypeOK
  <2> QED
    BY <1>3, <2>1, <2>2, <2>3, <2>5, <2>6, TypesKept DEF ClassPad!Detected, PadTypes, ClassPad!TypeOK
<1>4. CASE ClassPad!BeginReceive
  <2>1. pc' \in [ClassPad!Ends -> ClassPad!Places] /\ pc'["active"] = pc["active"]
    BY <1>1, <1>4, GoToIs, TwoEnds DEF ClassPad!BeginReceive
  <2> QED
    BY <1>1, <1>4, <2>1, TypesKept DEF ClassPad!BeginReceive, PadTypes, ClassPad!TypeOK, Wires
<1>5. CASE ClassPad!CallReceive
  <2>1. pc' \in [ClassPad!Ends -> ClassPad!Places] /\ pc'["active"] = pc["active"]
    BY <1>1, <1>5, GoToIs, TwoEnds DEF ClassPad!CallReceive
  <2>2. calls' \in [ClassPad!Ends -> 0 .. MaxCalls]
    <3>1. MaxCalls \in Nat /\ calls \in [ClassPad!Ends -> 0 .. MaxCalls]
      BY BoundsAssumption DEF PadTypes, ClassPad!TypeOK
    <3> QED
      BY <1>1, <1>5, <3>1 DEF ClassPad!CallReceive
  <2> QED
    BY <1>5, <2>1, <2>2, TypesKept DEF ClassPad!CallReceive, PadTypes, ClassPad!TypeOK, Wires
<1>6. CASE ClassPad!ClosePassive
  <2>1. pc' \in [ClassPad!Ends -> ClassPad!Places] /\ pc'["active"] = pc["active"]
    BY <1>1, <1>6 DEF ClassPad!ClosePassive, PadTypes, ClassPad!TypeOK
  <2> QED
    BY <1>6, <2>1, TypesKept DEF ClassPad!ClosePassive, PadTypes, ClassPad!TypeOK, Wires
<1>7. CASE ClassPad!CloseActive
  <2>1. pc' \in [ClassPad!Ends -> ClassPad!Places] /\ pc'["active"] \in {"ended", "terminate"}
    BY <1>1, <1>7, GoToIs DEF ClassPad!CloseActive
  <2>2. Wires' /\ UNCHANGED <<lost, damaged, late>>
    <3>1. CASE terminated["active"] \/ irrecoverable["active"]
      BY <1>1, <1>7, <3>1 DEF ClassPad!CloseActive, Wires
    <3>2. CASE ~(terminated["active"] \/ irrecoverable["active"])
      <4>1. next_id["active"] \in 0 .. Ids - 1
        BY <1>1 DEF PadTypes, ClassPad!TypeOK
      <4>2. <<ClassPad!Packet("term", next_id["active"])>> \in Seq(ClassPad!Packets)
        BY <4>1, NumberedPackets
      <4> QED
        BY <1>1, <1>7, <3>2, <4>2, PadSends DEF ClassPad!CloseActive
    <3> QED
      BY <3>1, <3>2
  <2> QED
    BY <1>7, <2>1, <2>2, TypesKept DEF ClassPad!CloseActive, PadTypes, ClassPad!TypeOK
<1>8. CASE ClassPad!Lose \/ ClassPad!Damage
  <2>1. /\ Wires'
        /\ \/ lost < MaxLost /\ lost' = lost + 1 /\ damaged' = damaged
           \/ damaged < MaxDamaged /\ damaged' = damaged + 1 /\ lost' = lost
    BY <1>1, <1>8, PadLoses
  <2>2. lost \in 0 .. MaxLost /\ damaged \in 0 .. MaxDamaged /\ MaxLost \in Nat /\ MaxDamaged \in Nat
    BY BoundsAssumption DEF PadTypes, ClassPad!TypeOK
  <2>3. lost' \in 0 .. MaxLost /\ damaged' \in 0 .. MaxDamaged
    BY <2>1, <2>2
  <2> QED
    BY <1>8, <2>1, <2>3, TypesKept
       DEF ClassPad!Lose, ClassPad!Damage, ClassPad!endVars, PadTypes, ClassPad!TypeOK
<1> QED
  BY <1>2, <1>3, <1>4, <1>5, <1>6, <1>7, <1>8 DEF ClassPad!Program

LEMMA PadStepTypes == ASSUME PadTypes, ClassPad!Next PROVE PadTypes'
<1>1. /\ "active" \in ClassPad!Ends /\ "passive" \in ClassPad!Ends
  BY TwoEnds
<1> QED
  BY <1>1, InitTypes, ReceiveTypes, CommandTypes, DeviceTypes, CallTypes
     DEF ClassPad!Next, ClassPad!Active, ClassPad!Passive

(* A wire that keeps its packets in order, loses the first ones or not, and *)
(* gets at most those of B behind them.                                    *)
Grows(w, v, B) ==
  /\ PacketsIn(v) \subseteq PacketsIn(w) \cup B
  /\ \A S, T : NoneBehind(w, S, T) /\ B \intersect T = {} => NoneBehind(v, S, T)

LEMMA TwoSent ==
  ASSUME NEW P, NEW w \in Seq(P), NEW a \in P, NEW b \in P
  PROVE  w \o <<a, b>> = (w \o <<a>>) \o <<b>> /\ w \o <<a>> \in Seq(P)
<1> DEFINE u == w \o <<a>>
           v == w \o <<a, b>>
<1>1. /\ Len(w) \in Nat /\ u \in Seq(P) /\ Len(u) = Len(w) + 1 /\ u[Len(w) + 1] = a
      /\ \A i \in 1 .. Len(w) : u[i] = w[i]
  OBVIOUS
<1>2. /\ v \in Seq(P) /\ Len(v) = Len(w) + 2 /\ v[Len(w) + 1] = a /\ v[Len(w) + 2] = b
      /\ \A i \in 1 .. Len(w) : v[i] = w[i]
  OBVIOUS
<1> HIDE DEF u, v
<1>3. /\ u \o <<b>> \in Seq(P) /\ Len(u \o <<b>>) = Len(u) + 1 /\ (u \o <<b>>)[Len(u) + 1] = b
      /\ \A i \in 1 .. Len(u) : (u \o <<b>>)[i] = u[i]
  BY <1>1
<1> DEFINE t == u \o <<b>>
           n == Len(w)
<1>4. t \in Seq(P) /\ v \in Seq(P) /\ Len(t) = Len(v)
  BY <1>1, <1>2, <1>3
<1>5. n \in Nat /\ Len(u) = n + 1 /\ Len(v) = n + 2
  BY <1>1, <1>2
<1>6. \A i \in 1 .. n : t[i] = v[i]
  BY <1>1, <1>2, <1>3, <1>5
<1>7. t[n + 1] = v[n + 1] /\ t[n + 2] = v[n + 2]
  BY <1>1, <1>2, <1>3, <1>5
<1> HIDE DEF t, n
<1>8. \A i \in 1 .. Len(v) : i \in 1 .. n \/ i = n + 1 \/ i = n + 2
  BY <1>5
<1>9. t = v
  BY <1>4, <1>6, <1>7, <1>8
<1> QED
  BY <1>1, <1>9 DEF t, u, v

LEMMA GrowsBy ==
  ASSUME NEW P, NEW w \in Seq(P), NEW v, NEW B,
         \/ v = w
         \/ v = Tail(w) /\ w # <<>>
         \/ \E b \in B \intersect P : v = w \o <<b>>
         \/ \E a, b \in B \intersect P : v = w \o <<a, b>>
  PROVE  Grows(w, v, B)
<1>1. CASE v = w
  BY <1>1 DEF Grows
<1>2. CASE v = Tail(w) /\ w # <<>>
  BY <1>2, TakenFrom DEF Grows
<1>3. ASSUME NEW b \in B \intersect P, v = w \o <<b>> PROVE Grows(w, v, B)
  <2>1. PacketsIn(v) = PacketsIn(w) \cup {b}
    BY <1>3, SentTo
  <2>2. ASSUME NEW S, NEW T, NoneBehind(w, S, T), B \intersect T = {} PROVE NoneBehind(v, S, T)
    BY <1>3, <2>2, SentTo
  <2> QED
    BY <2>1, <2>2 DEF Grows
<1>4. ASSUME NEW a \in B \intersect P, NEW b \in B \intersect P, v = w \o <<a, b>> PROVE Grows(w, v, B)
  <2> DEFINE u == w \o <<a>>
  <2>1. v = u \o <<b>> /\ u \in Seq(P)
    <3>1. a \in P /\ b \in P
      OBVIOUS
    <3>2. w \o <<a, b>> = (w \o <<a>>) \o <<b>> /\ w \o <<a>> \in Seq(P)
      BY <3>1, TwoSent
    <3> QED
      BY <1>4, <3>2
  <2>2. PacketsIn(u) = PacketsIn(w) \cup {a} /\ \A S, T : NoneBehind(w, S, T) /\ a \notin T => NoneBehind(u, S, T)
    BY SentTo
  <2> HIDE DEF u
  <2>3. PacketsIn(v) = PacketsIn(u) \cup {b} /\ \A S, T : NoneBehind(u, S, T) /\ b \notin T => NoneBehind(v, S, T)
    BY <2>1, SentTo
  <2>4. PacketsIn(v) \subseteq PacketsIn(w) \cup B
    BY <2>2, <2>3
  <2>5. ASSUME NEW S, NEW T, NoneBehind(w, S, T), B \intersect T = {} PROVE NoneBehind(v, S, T)
    <3>1. a \notin T /\ b \notin T
      BY <2>5
    <3> QED
      BY <2>2, <2>3, <2>5, <3>1
  <2> QED
    BY <2>4, <2>5 DEF Grows
<1> QED
  BY <1>1, <1>2, <1>3, <1>4

(* The packets that come to each end grow by what the other sends.         *)
LEMMA PadTakesGrows ==
  ASSUME Wires, NEW e \in ClassPad!Ends, wire[e] # <<>>, NEW ps, NEW B \in SUBSET ClassPad!Packets,
         \/ ps = <<>>
         \/ \E b \in B : ps = <<b>>
         \/ \E a, b \in B : ps = <<a, b>>,
         ClassPad!TakeAndSend(e, ps)
  PROVE  /\ Wires' /\ wire'[e] = Tail(wire[e]) /\ Grows(wire[e], wire'[e], {})
         /\ Grows(wire[ClassPad!Other(e)], wire'[ClassPad!Other(e)], B)
         /\ pc[ClassPad!Other(e)] = "ended" => wire'[ClassPad!Other(e)] = wire[ClassPad!Other(e)]
         /\ UNCHANGED <<lost, damaged, late>>
<1>1. ps \in Seq(ClassPad!Packets)
  <2>1. <<>> \in Seq(ClassPad!Packets) /\ \A a, b \in B : <<b>> \in Seq(ClassPad!Packets) /\ <<a, b>> \in Seq(ClassPad!Packets)
    OBVIOUS
  <2> QED
    BY <2>1
<1>2. ClassPad!Other(e) \in ClassPad!Ends /\ wire[e] \in Seq(ClassPad!Packets) /\ wire[ClassPad!Other(e)] \in Seq(ClassPad!Packets)
  BY TwoEnds DEF Wires
<1> DEFINE o == wire[ClassPad!Other(e)]
           n == wire'[ClassPad!Other(e)]
<1>3. Wires' /\ wire'[e] = Tail(wire[e]) /\ n \in {o, o \o ps} /\ UNCHANGED <<lost, damaged, late>>
      /\ (pc[ClassPad!Other(e)] = "ended" => n = o)
  BY <1>1, PadTakes
<1>4. Grows(wire[e], wire'[e], {})
  BY <1>2, <1>3, GrowsBy
<1>5. o \in Seq(ClassPad!Packets)
  BY <1>2
<1> HIDE DEF o, n
<1>6. \/ n = o
      \/ \E b \in B \intersect ClassPad!Packets : n = o \o <<b>>
      \/ \E a, b \in B \intersect ClassPad!Packets : n = o \o <<a, b>>
  <2>1. CASE ps = <<>>
    BY <1>3, <1>5, <2>1
  <2>2. CASE \E b \in B : ps = <<b>>
    BY <1>3, <2>2
  <2>3. CASE \E a, b \in B : ps = <<a, b>>
    BY <1>3, <2>3
  <2> QED
    BY <2>1, <2>2, <2>3
<1>7. Grows(o, n, B)
  BY <1>5, <1>6, GrowsBy
<1> QED
  BY <1>3, <1>4, <1>7 DEF o, n

LEMMA PadSendsGrows ==
  ASSUME Wires, NEW e \in ClassPad!Ends, NEW ps, NEW B \in SUBSET ClassPad!Packets,
         ps = <<>> \/ \E b \in B : ps = <<b>>,
         ClassPad!Send(e, ps)
  PROVE  /\ Wires' /\ wire'[e] = wire[e] /\ Grows(wire[e], wire'[e], {})
         /\ Grows(wire[ClassPad!Other(e)], wire'[ClassPad!Other(e)], B)
         /\ pc[ClassPad!Other(e)] = "ended" => wire'[ClassPad!Other(e)] = wire[ClassPad!Other(e)]
         /\ UNCHANGED <<lost, damaged>>
<1>1. ps \in Seq(ClassPad!Packets)
  <2>1. <<>> \in Seq(ClassPad!Packets) /\ \A a, b \in B : <<b>> \in Seq(ClassPad!Packets) /\ <<a, b>> \in Seq(ClassPad!Packets)
    OBVIOUS
  <2> QED
    BY <2>1
<1>2. ClassPad!Other(e) \in ClassPad!Ends /\ wire[e] \in Seq(ClassPad!Packets) /\ wire[ClassPad!Other(e)] \in Seq(ClassPad!Packets)
  BY TwoEnds DEF Wires
<1> DEFINE o == wire[ClassPad!Other(e)]
           n == wire'[ClassPad!Other(e)]
<1>3. Wires' /\ wire'[e] = wire[e] /\ n \in {o, o \o ps} /\ UNCHANGED <<lost, damaged>>
      /\ (pc[ClassPad!Other(e)] = "ended" => n = o)
  BY <1>1, PadSends
<1>4. Grows(wire[e], wire'[e], {})
  BY <1>2, <1>3, GrowsBy
<1>5. o \in Seq(ClassPad!Packets)
  BY <1>2
<1> HIDE DEF o, n
<1>6. n = o \/ \E b \in B \intersect ClassPad!Packets : n = o \o <<b>>
  <2>1. CASE ps = <<>>
    BY <1>3, <1>5, <2>1
  <2>2. CASE \E b \in B : ps = <<b>>
    BY <1>3, <2>2
  <2> QED
    BY <2>1, <2>2
<1>7. Grows(o, n, B)
  BY <1>5, <1>6, GrowsBy
<1> QED
  BY <1>3, <1>4, <1>7 DEF o, n

(* An end of the library has sent a command, with this identifier.         *)
HasSent(e) == sending[e].type = "command"
Used(e) == sending[e].id

(* What a ClassPad answers to the commands of before the one with the      *)
(* identifier x, and to this one; and these commands.                      *)
Answers == {p \in ClassPad!Packets : p.type \in {"ack", "order"}}
Earlier(x) == {p \in Answers : IF p.type = "ack" THEN ClassPad!After(p.id) = x ELSE p.id = x}
Later(x) == {p \in Answers : IF p.type = "ack" THEN p.id = x ELSE p.id = ClassPad!After(x)}
Copies(x) == {p \in ClassPad!Packets : p.type = "command" /\ p.id = x}
Stale(x) == {p \in ClassPad!Packets : p.type = "command" /\ ClassPad!After(p.id) = x}

(* The passive end sends the command x until the ClassPad expects the next. *)
Asking(x) ==
  /\ expected = x /\ \A p \in PacketsIn(wire["passive"]) : p \notin Later(x)
  /\ pc["passive"] = "ack" \/ terminated["passive"]

Answered(x) ==
  /\ expected = ClassPad!After(x) /\ \A p \in PacketsIn(wire["active"]) : p \notin Stale(x)
  /\ pc["passive"] # "ack" /\ ~terminated["passive"]
       => \A p \in PacketsIn(wire["passive"]) : p \notin Earlier(x)

PassiveSends(x) ==
  /\ next_id["passive"] = ClassPad!After(x) /\ sending["passive"].subtype = "information"
  /\ \A p \in PacketsIn(wire["passive"]) : p \in Answers => p \in Earlier(x) \cup Later(x)
  /\ NoneBehind(wire["passive"], Later(x), Earlier(x))
  /\ \A p \in PacketsIn(wire["active"]) : p.type = "command" => p \in Stale(x) \cup Copies(x)
  /\ NoneBehind(wire["active"], Copies(x), Stale(x))
  /\ Asking(x) \/ Answered(x)

PassiveInv ==
  /\ \A p \in PacketsIn(wire["passive"]) : p.type \in {"start", "command", "data", "ack", "order", "term"}
  /\ \A p \in PacketsIn(wire["active"]) : p.type \in {"established", "ack", "command"} /\ p.subtype # "discover"
  /\ terminated["passive"] => pc["passive"] \in {"idle", "ended"}
  /\ HasSent("passive") => PassiveSends(Used("passive"))
  /\ ~HasSent("passive") =>
       /\ next_id["passive"] = 0 /\ expected = 0 /\ pc["passive"] # "ack"
       /\ \A p \in PacketsIn(wire["active"]) : p.type # "command"
       /\ \A p \in PacketsIn(wire["passive"]) : p \notin Answers

(* The steps that neither send nor answer a command of the passive end.    *)
LEMMA PassiveAside ==
  ASSUME PassiveInv, NEW A \in SUBSET ClassPad!Packets, NEW B \in SUBSET ClassPad!Packets,
         Grows(wire["passive"], wire'["passive"], A), Grows(wire["active"], wire'["active"], B),
         \A p \in A : p.type \in {"start", "command", "data", "term"},
         \A p \in B : p.type \in {"established", "ack"} /\ p.subtype # "discover",
         sending'["passive"] = sending["passive"], expected' = expected,
         \/ next_id'["passive"] = next_id["passive"]
         \/ HasSent("passive") /\ next_id'["passive"] = ClassPad!After(Used("passive")),
         pc'["passive"] = "ack" => pc["passive"] = "ack",
         pc["passive"] = "ack" => pc'["passive"] = "ack" \/ terminated'["passive"],
         terminated["passive"] => terminated'["passive"],
         terminated'["passive"] => pc'["passive"] \in {"idle", "ended"}
  PROVE  PassiveInv'
<1> DEFINE w == PacketsIn(wire["passive"])
           v == PacketsIn(wire["active"])
           x == Used("passive")
<1>1. w' \subseteq w \cup A /\ v' \subseteq v \cup B
  BY DEF Grows
<1>2. \A p \in A : p \notin Answers
  BY DEF Answers
<1>3. \A p \in B : p.type # "command"
  OBVIOUS
<1>4. HasSent("passive")' = HasSent("passive") /\ x' = x
  BY DEF HasSent, Used
<1> USE DEF Earlier, Later, Stale, Copies
<1>5. A \intersect Earlier(x) = {} /\ A \intersect Later(x) = {} /\ B \intersect Stale(x) = {}
  BY <1>2, <1>3
<1>6. HasSent("passive") => PassiveSends(x)'
  <2> SUFFICES ASSUME HasSent("passive") PROVE PassiveSends(x)'
    OBVIOUS
  <2>1. PassiveSends(x)
    BY DEF PassiveInv
  <2> HIDE DEF Earlier, Later, Stale, Copies
  <2>2. NoneBehind(wire'["passive"], Later(x), Earlier(x)) /\ NoneBehind(wire'["active"], Copies(x), Stale(x))
    BY <1>5, <2>1 DEF PassiveSends, Grows
  <2>3. \A p \in w' : p \in Answers => p \in Earlier(x) \cup Later(x)
    BY <1>1, <1>2, <2>1 DEF PassiveSends
  <2>4. \A p \in v' : p.type = "command" => p \in Stale(x) \cup Copies(x)
    BY <1>1, <1>3, <2>1 DEF PassiveSends
  <2>5. Asking(x) => Asking(x)'
    <3> SUFFICES ASSUME Asking(x) PROVE Asking(x)'
      OBVIOUS
    <3>1. \A p \in w' : p \notin Later(x)
      BY <1>1, <1>5 DEF Asking
    <3> QED
      BY <1>4, <3>1 DEF Asking, Later
  <2>6. Answered(x) => Answered(x)'
    <3> SUFFICES ASSUME Answered(x) PROVE Answered(x)'
      OBVIOUS
    <3>1. \A p \in v' : p \notin Stale(x)
      BY <1>1, <1>5 DEF Answered
    <3>2. pc'["passive"] # "ack" /\ ~terminated'["passive"] => \A p \in w' : p \notin Earlier(x)
      BY <1>1, <1>5 DEF Answered
    <3> QED
      BY <1>4, <3>1, <3>2 DEF Answered, Stale, Earlier
  <2>7. next_id'["passive"] = ClassPad!After(x) /\ sending'["passive"].subtype = "information"
    BY <2>1 DEF PassiveSends
  <2>8. x' = x
    BY <1>4
  <2> HIDE DEF x
  <2> QED
    BY <2>1, <2>2, <2>3, <2>4, <2>5, <2>6, <2>7, <2>8 DEF PassiveSends, Earlier, Later, Stale, Copies
<1> QED
  BY <1>1, <1>2, <1>3, <1>4, <1>6 DEF PassiveInv

LEMMA NoneOfThem == ASSUME NEW w, NEW S, NEW T, \A p \in PacketsIn(w) : p \notin S PROVE NoneBehind(w, S, T)
BY DEF PacketsIn, NoneBehind

LEMMA SetsOfPackets ==
  ASSUME NEW x \in 0 .. Ids - 1
  PROVE  /\ Earlier(x) \intersect Later(x) = {} /\ Stale(x) \intersect Copies(x) = {}
         /\ Earlier(ClassPad!After(x)) = Later(x) /\ Stale(ClassPad!After(x)) = Copies(x)
<1>1. ClassPad!After(x) # x /\ ClassPad!After(x) \in 0 .. Ids - 1
  BY NextIdentifier
<1>2. \A p \in ClassPad!Packets : p.id \in 0 .. Ids - 1
  BY PadPackets
<1>3. \A p \in ClassPad!Packets : ClassPad!After(p.id) = ClassPad!After(x) <=> p.id = x
  BY <1>2, IdentifiersDiffer
<1> QED
  BY <1>1, <1>3 DEF Earlier, Later, Stale, Copies, Answers

(* The passive end sends a command of its own, that the ClassPad expects.  *)
LEMMA PassiveNumbers ==
  ASSUME PassiveInv, NEW y \in 0 .. Ids - 1, NEW z, NEW B \in SUBSET ClassPad!Packets,
         Grows(wire["passive"], wire'["passive"], {}), Grows(wire["active"], wire'["active"], B),
         \A p \in B : p \in Copies(y) \/ p.type = "ack", \A p \in B : p.subtype # "discover",
         sending'["passive"] = ClassPad!Command(y, "information", z),
         next_id'["passive"] = ClassPad!After(y), expected = y, expected' = y,
         pc'["passive"] = "ack", terminated'["passive"] = terminated["passive"], ~terminated["passive"],
         \A p \in PacketsIn(wire'["passive"]) : p \in Answers => p \in Earlier(y),
         \A p \in PacketsIn(wire["active"]) : p.type = "command" => p \in Stale(y)
  PROVE  PassiveInv'
<1> DEFINE w == PacketsIn(wire["passive"])
           v == PacketsIn(wire["active"])
<1>1. w' \subseteq w /\ v' \subseteq v \cup B
  BY DEF Grows
<1>2. HasSent("passive")' /\ Used("passive")' = y /\ sending'["passive"].subtype = "information"
  BY DEF HasSent, Used, ClassPad!Command
<1>3. Earlier(y) \intersect Later(y) = {} /\ Stale(y) \intersect Copies(y) = {}
  BY SetsOfPackets
<1>4. \A p \in w' : p \notin Later(y)
  BY <1>3 DEF Later
<1>5. NoneBehind(wire'["passive"], Later(y), Earlier(y))
  BY <1>4, NoneOfThem
<1>6. NoneBehind(wire["active"], Copies(y), Stale(y))
  <2>1. \A p \in v : p \notin Copies(y)
    BY <1>3 DEF Copies
  <2> QED
    BY <2>1, NoneOfThem
<1>7. B \intersect Stale(y) = {}
  BY <1>3 DEF Stale
<1>8. NoneBehind(wire'["active"], Copies(y), Stale(y))
  BY <1>6, <1>7 DEF Grows
<1>9. \A p \in v' : p.type = "command" => p \in Stale(y) \cup Copies(y)
  BY <1>1
<1>10. PassiveSends(y)'
  BY <1>2, <1>4, <1>5, <1>8, <1>9 DEF PassiveSends, Asking, Later, Earlier, Stale, Copies
<1>11. \A p \in B : p.type \in {"ack", "command"}
  BY DEF Copies
<1>12. PassiveSends(Used("passive"))'
  BY <1>2, <1>10
<1> QED
  BY <1>1, <1>2, <1>11, <1>12 DEF PassiveInv

(* It sends its command again.                                             *)
LEMMA PassiveRepeats ==
  ASSUME PassiveInv, HasSent("passive"), Used("passive") \in 0 .. Ids - 1, NEW B \in SUBSET ClassPad!Packets,
         Grows(wire["passive"], wire'["passive"], {}), Grows(wire["active"], wire'["active"], B),
         \A p \in B : p \in Copies(Used("passive")) /\ p.subtype # "discover",
         HasSent("passive")', Used("passive")' = Used("passive"),
         sending'["passive"].subtype = sending["passive"].subtype,
         next_id'["passive"] = ClassPad!After(Used("passive")), expected' = expected,
         pc'["passive"] = pc["passive"], terminated'["passive"] = terminated["passive"]
  PROVE  PassiveInv'
<1> DEFINE w == PacketsIn(wire["passive"])
           v == PacketsIn(wire["active"])
           x == Used("passive")
<1>1. w' \subseteq w /\ v' \subseteq v \cup B
  BY DEF Grows
<1>2. PassiveSends(x)
  BY DEF PassiveInv
<1>3. B \intersect Stale(x) = {}
  BY SetsOfPackets
<1>4. NoneBehind(wire'["active"], Copies(x), Stale(x)) /\ NoneBehind(wire'["passive"], Later(x), Earlier(x))
  BY <1>2, <1>3 DEF Grows, PassiveSends
<1>5. \A p \in w' : p \in Answers => p \in Earlier(x) \cup Later(x)
  BY <1>1, <1>2 DEF PassiveSends
<1>6. \A p \in v' : p.type = "command" => p \in Stale(x) \cup Copies(x)
  BY <1>1, <1>2 DEF PassiveSends
<1>7. Asking(x) => Asking(x)'
  <2> SUFFICES ASSUME Asking(x) PROVE Asking(x)'
    OBVIOUS
  <2>1. \A p \in w' : p \notin Later(x)
    BY <1>1 DEF Asking
  <2> QED
    BY <2>1 DEF Asking, Later
<1>8. Answered(x) => Answered(x)'
  <2> SUFFICES ASSUME Answered(x) PROVE Answered(x)'
    OBVIOUS
  <2>1. \A p \in v' : p \notin Stale(x)
    BY <1>1, <1>3 DEF Answered
  <2>2. pc'["passive"] # "ack" /\ ~terminated'["passive"] => \A p \in w' : p \notin Earlier(x)
    BY <1>1 DEF Answered
  <2> QED
    BY <2>1, <2>2 DEF Answered, Stale, Earlier
<1>9. x' = x /\ \A p \in B : p.type = "command"
  BY DEF Copies
<1> HIDE DEF x
<1>10. sending'["passive"].subtype = "information"
  BY <1>2 DEF PassiveSends
<1>11. PassiveSends(x)'
  BY <1>2, <1>4, <1>5, <1>6, <1>7, <1>8, <1>9, <1>10 DEF PassiveSends, Earlier, Later, Stale, Copies, x
<1> QED
  BY <1>1, <1>9, <1>11 DEF PassiveInv, x

(* The steps of the ClassPad, at the active end, and of its program.       *)
ActiveSending == pc["active"] = "ack" => sending["active"].type \in {"command", "data"}

LEMMA ActivePadKeepsInv ==
  ASSUME PadTypes, library = {"passive"}, PassiveInv, ActiveSending,
         \/ ClassPad!Active \/ ClassPad!BeginInitiate \/ ClassPad!CloseActive \/ ClassPad!ClassPadGives
         \/ ClassPad!ClassPadTakes("active")
  PROVE  PassiveInv' /\ ActiveSending'
<1> USE DEF ClassPad!fixed, ClassPad!classPadVars, ClassPad!endVars, ClassPad!wireVars
<1>1. Wires /\ ClassPad!Ends = {"active", "passive"} /\ ClassPad!Other("active") = "passive" /\ "active" \notin library
  BY WiresAreTyped, TwoEnds
<1>2. /\ pc \in [ClassPad!Ends -> ClassPad!Places] /\ sending \in [ClassPad!Ends -> ClassPad!Packets]
      /\ next_id \in [ClassPad!Ends -> 0 .. Ids - 1]
      /\ terminated \in [ClassPad!Ends -> BOOLEAN]
  BY DEF PadTypes, ClassPad!TypeOK
<1>3. terminated["passive"] => pc["passive"] \in {"idle", "ended"}
  BY DEF PassiveInv
<1> DEFINE Alone == pc'["passive"] = pc["passive"] /\ next_id'["passive"] = next_id["passive"]
                    /\ sending'["passive"] = sending["passive"] /\ terminated'["passive"] = terminated["passive"]
                    /\ expected' = expected
           Safe == pc'["active"] = "ack" => sending'["active"].type \in {"command", "data"}
<1>4. ASSUME Alone, Safe, NEW A \in SUBSET ClassPad!Packets, \A p \in A : p.type \in {"start", "command", "data", "term"},
             Grows(wire["passive"], wire'["passive"], A), Grows(wire["active"], wire'["active"], {})
      PROVE  PassiveInv' /\ ActiveSending'
  <2>1. PassiveInv'
    BY <1>3, <1>4, PassiveAside
  <2> QED
    BY <1>4, <2>1 DEF ActiveSending
<1>5. ASSUME NEW place \in ClassPad!Places, NEW r, ClassPad!GoTo("active", place, r)
      PROVE  pc'["passive"] = pc["passive"] /\ pc'["active"] = place
  BY <1>1, <1>5, GoToIs
<1>6. {"start", "start_nul", "ended", "open", "terminate", "ack"} \subseteq ClassPad!Places
  BY DEF ClassPad!Places
<1>7. ClassPad!Byte("start") \in ClassPad!Packets /\ ClassPad!Byte("start").type = "start"
  BY PadPackets
<1>8. ASSUME ClassPad!NextAttempt PROVE pc'["passive"] = pc["passive"] /\ pc'["active"] \in {"start", "ended"}
  BY <1>5, <1>6, <1>8 DEF ClassPad!NextAttempt
<1>9. CASE ClassPad!InitTimesOut
  <2>1. Alone /\ Safe
    BY <1>8, <1>9 DEF ClassPad!InitTimesOut
  <2>2. Grows(wire["passive"], wire'["passive"], {ClassPad!Byte("start")}) /\ Grows(wire["active"], wire'["active"], {})
    BY <1>1, <1>7, <1>9, PadSendsGrows DEF ClassPad!InitTimesOut
  <2> QED
    BY <1>4, <1>7, <2>1, <2>2
<1>10. CASE ClassPad!InitNotice
  <2>1. Alone /\ Safe
    BY <1>8, <1>10 DEF ClassPad!InitNotice
  <2>2. Grows(wire["passive"], wire'["passive"], {ClassPad!Byte("start")}) /\ Grows(wire["active"], wire'["active"], {})
    BY <1>1, <1>7, <1>10, PadTakesGrows DEF ClassPad!InitNotice
  <2> QED
    BY <1>4, <1>7, <2>1, <2>2
<1>11. ASSUME ClassPad!Take("active"), wire["active"] # <<>>
       PROVE  Grows(wire["passive"], wire'["passive"], {}) /\ Grows(wire["active"], wire'["active"], {})
  BY <1>1, <1>11, PadTakesGrows DEF ClassPad!Take
<1>12. CASE ClassPad!InitNul
  <2>1. Alone /\ Safe
    BY <1>5, <1>6, <1>12 DEF ClassPad!InitNul
  <2> QED
    BY <1>4, <1>11, <1>12, <2>1 DEF ClassPad!InitNul
<1>13. CASE ClassPad!Initiated
  <2>1. ClassPad!Take("active") /\ ClassPad!GoTo("active", "open", "OK") /\ UNCHANGED <<next_id, sending>>
    BY <1>1, <1>13 DEF ClassPad!Initiated
  <2>2. Alone /\ Safe
    BY <1>5, <1>6, <1>13, <2>1 DEF ClassPad!Initiated
  <2> QED
    BY <1>4, <1>11, <1>13, <2>1, <2>2 DEF ClassPad!Initiated
<1>14. CASE ClassPad!AckTimesOut("active")
  <2>1. Alone /\ Safe
    BY <1>14 DEF ClassPad!AckTimesOut, ActiveSending
  <2>2. sending["active"] \in ClassPad!Packets /\ sending["active"].type \in {"command", "data"}
    BY <1>1, <1>2, <1>14 DEF ClassPad!AckTimesOut, ActiveSending
  <2>3. Grows(wire["passive"], wire'["passive"], {sending["active"]}) /\ Grows(wire["active"], wire'["active"], {})
    BY <1>1, <1>14, <2>2, PadSendsGrows DEF ClassPad!AckTimesOut
  <2> QED
    BY <1>4, <2>1, <2>2, <2>3
<1>15. CASE ClassPad!TerminationAnswered
  <2>1. wire["active"] # <<>>
    BY <1>15 DEF ClassPad!TerminationAnswered, ClassPad!ThreeBytes
  <2>2. Alone /\ Safe
    BY <1>1, <1>2, <1>5, <1>6, <1>15 DEF ClassPad!TerminationAnswered
  <2> QED
    BY <1>4, <1>11, <1>15, <2>1, <2>2 DEF ClassPad!TerminationAnswered
<1>16. CASE ClassPad!BeginInitiate
  <2>1. Alone /\ Safe
    BY <1>5, <1>6, <1>16 DEF ClassPad!BeginInitiate
  <2>2. Grows(wire["passive"], wire'["passive"], {ClassPad!Byte("start")}) /\ Grows(wire["active"], wire'["active"], {})
    BY <1>1, <1>7, <1>16, PadSendsGrows DEF ClassPad!BeginInitiate
  <2> QED
    BY <1>4, <1>7, <2>1, <2>2
<1>17. CASE ClassPad!CloseActive
  <2>1. Alone /\ Safe
    BY <1>5, <1>6, <1>17 DEF ClassPad!CloseActive
  <2>2. CASE UNCHANGED wire
    <3>1. Grows(wire["passive"], wire'["passive"], {}) /\ Grows(wire["active"], wire'["active"], {})
      BY <1>1, <2>2, GrowsBy DEF Wires
    <3> QED
      BY <1>4, <2>1, <3>1
  <2>3. CASE ClassPad!Send("active", <<ClassPad!Packet("term", next_id["active"])>>)
    <3> DEFINE t == ClassPad!Packet("term", next_id["active"])
    <3>1. t \in ClassPad!Packets /\ t.type = "term"
      BY <1>1, <1>2, NumberedPackets DEF ClassPad!Packet
    <3>2. Grows(wire["passive"], wire'["passive"], {t}) /\ Grows(wire["active"], wire'["active"], {})
      BY <1>1, <2>3, <3>1, PadSendsGrows
    <3> QED
      BY <1>4, <2>1, <3>1, <3>2
  <2> QED
    BY <1>17, <2>2, <2>3 DEF ClassPad!CloseActive
<1>18. CASE ClassPad!ClassPadGives
  <2>1. PICK subtype \in {"discover", "settings", "other"}, type \in {"command", "data"} :
          /\ next_id' = [next_id EXCEPT !["active"] = ClassPad!After(next_id["active"])]
          /\ sending' = [sending EXCEPT !["active"] =
               IF type = "data" THEN ClassPad!Packet("data", next_id["active"])
               ELSE ClassPad!Command(next_id["active"], subtype, 0)]
    BY <1>18 DEF ClassPad!ClassPadGives
  <2>2. next_id["active"] \in 0 .. Ids - 1
    BY <1>1, <1>2
  <2>3. sending'["active"] \in ClassPad!Packets /\ sending'["active"].type \in {"command", "data"}
    BY <1>1, <1>2, <2>1, <2>2, NumberedPackets DEF ClassPad!Packet, ClassPad!Command
  <2>4. Alone
    BY <1>1, <1>2, <1>5, <1>6, <1>18, <2>1 DEF ClassPad!ClassPadGives
  <2>5. Grows(wire["passive"], wire'["passive"], {sending'["active"]}) /\ Grows(wire["active"], wire'["active"], {})
    BY <1>1, <1>18, <2>3, PadSendsGrows DEF ClassPad!ClassPadGives
  <2> QED
    BY <1>4, <2>3, <2>4, <2>5
<1>19. CASE ClassPad!ClassPadTakes("active")
  <2>1. Head(wire["active"]) \in PacketsIn(wire["active"]) /\ wire["active"] # <<>>
    BY <1>1, <1>19, TakenFrom DEF Wires, ClassPad!ClassPadTakes
  <2>2. Head(wire["active"]).type \notin {"start", "term"}
    BY <2>1 DEF PassiveInv
  <2>3. ClassPad!TakeAndSend("active", <<>>)
    BY <1>19, <2>2 DEF ClassPad!ClassPadTakes
  <2>4. Grows(wire["passive"], wire'["passive"], {}) /\ Grows(wire["active"], wire'["active"], {})
    BY <1>1, <2>1, <2>3, PadTakesGrows
  <2>5. pc'["passive"] = pc["passive"] /\ (pc'["active"] = "ack" => pc["active"] = "ack")
    <3>1. CASE ClassPad!CommandSent("active")
      BY <1>1, <3>1, CommandSentIs
    <3> QED
      BY <1>19, <3>1 DEF ClassPad!ClassPadTakes
  <2>6. Alone /\ Safe
    BY <1>1, <1>2, <1>19, <2>5 DEF ClassPad!ClassPadTakes, ActiveSending
  <2> QED
    BY <1>4, <2>4, <2>6
<1>20. ~ClassPad!ReceiveReply /\ (ClassPad!Receive("active") => ClassPad!AckTimesOut("active"))
  BY <1>1 DEF ClassPad!ReceiveReply, ClassPad!Receive, ClassPad!Receiving, ClassPad!AnswerStart, ClassPad!ReceiveDamaged,
     ClassPad!ReceiveTerm, ClassPad!ReceiveOrder, ClassPad!ReceiveAck, ClassPad!ForgetCommand
<1> QED
  BY <1>9, <1>10, <1>12, <1>13, <1>14, <1>15, <1>16, <1>17, <1>18, <1>19, <1>20 DEF ClassPad!Active

(* The ClassPad, at the active end, takes a command of the passive end.    *)
LEMMA AnswerKeepsInv ==
  ASSUME PadTypes, library = {"passive"}, PassiveInv, ActiveSending, ClassPad!ClassPadCommand("active")
  PROVE  PassiveInv' /\ ActiveSending'
<1> USE DEF ClassPad!fixed, ClassPad!classPadVars
<1> DEFINE x == Used("passive")
           p == Head(wire["active"])
           w == PacketsIn(wire["passive"])
           v == PacketsIn(wire["active"])
<1>1. Wires /\ ClassPad!Ends = {"active", "passive"} /\ ClassPad!Other("active") = "passive"
  BY WiresAreTyped, TwoEnds
<1>2. wire["active"] # <<>> /\ p \in v /\ p \in ClassPad!Packets /\ p.type = "command" /\ wire["active"] \in Seq(ClassPad!Packets)
  BY <1>1, TakenFrom DEF Wires, ClassPad!ClassPadCommand
<1>3. HasSent("passive") /\ p.subtype # "discover" /\ p \in Stale(x) \cup Copies(x) /\ PassiveSends(x)
  BY <1>2 DEF PassiveInv, PassiveSends
<1>4. x \in 0 .. Ids - 1 /\ p.id \in 0 .. Ids - 1 /\ expected \in 0 .. Ids - 1
  BY <1>1, <1>2, PadPackets DEF Used, PadTypes, ClassPad!TypeOK
<1>5. /\ ClassPad!After(x) # x /\ ClassPad!After(p.id) # p.id
      /\ Earlier(x) \intersect Later(x) = {} /\ Stale(x) \intersect Copies(x) = {}
  BY <1>4, NextIdentifier, SetsOfPackets
<1>6. /\ UNCHANGED <<pc, sending, terminated, library>>
      /\ next_id \in [ClassPad!Ends -> 0 .. Ids - 1]
      /\ next_id' \in {next_id, [next_id EXCEPT !["active"] = ClassPad!After(next_id["active"])]}
  BY DEF PadTypes, ClassPad!TypeOK, ClassPad!ClassPadCommand
<1>7. /\ HasSent("passive")' /\ Used("passive")' = x /\ sending'["passive"].subtype = "information"
      /\ next_id'["passive"] = ClassPad!After(x)
  BY <1>1, <1>3, <1>6 DEF HasSent, Used, PassiveSends
<1>8. ASSUME NEW a \in ClassPad!Packets, ClassPad!TakeAndSend("active", <<a>>), a \in Earlier(x) \cup Later(x),
             a \in Earlier(x) => expected = x,
             expected' = ClassPad!After(x) => p \in Copies(x) /\ a \in Later(x),
             expected' = x => expected = x /\ a \in Earlier(x), expected' \in {x, ClassPad!After(x)}
      PROVE  PassiveInv'
  <2>1. /\ Grows(wire["passive"], wire'["passive"], {a}) /\ Grows(wire["active"], wire'["active"], {})
        /\ wire'["active"] = Tail(wire["active"])
        /\ Wires'
    BY <1>1, <1>2, <1>8, PadTakesGrows
  <2>2. w' \subseteq w \cup {a} /\ v' \subseteq v
    BY <2>1 DEF Grows
  <2>3. NoneBehind(wire'["active"], Copies(x), Stale(x))
    BY <1>3, <2>1 DEF PassiveSends, Grows
  <2>4. NoneBehind(wire'["passive"], Later(x), Earlier(x))
    <3>1. CASE a \in Later(x)
      <4>1. {a} \intersect Earlier(x) = {}
        BY <1>5, <3>1
      <4> QED
        BY <1>3, <2>1, <4>1 DEF PassiveSends, Grows
    <3>2. CASE a \in Earlier(x)
      <4>1. \A q \in w : q \notin Later(x)
        BY <1>3, <1>5, <1>8, <3>2 DEF PassiveSends, Asking, Answered
      <4>2. \A q \in w' : q \notin Later(x)
        BY <1>5, <2>2, <3>2, <4>1
      <4> QED
        BY <4>2, NoneOfThem
    <3> QED
      BY <1>8, <3>1, <3>2
  <2>5. \A q \in w' : q \in Answers => q \in Earlier(x) \cup Later(x)
    BY <1>3, <1>8, <2>2 DEF PassiveSends
  <2>6. \A q \in v' : q.type = "command" => q \in Stale(x) \cup Copies(x)
    BY <1>3, <2>2 DEF PassiveSends
  <2>7. ASSUME expected' = x PROVE PassiveSends(x)'
    <3>1. Asking(x)
      BY <1>3, <1>5, <1>8, <2>7 DEF PassiveSends, Answered
    <3>2. \A q \in w' : q \notin Later(x)
      BY <1>5, <1>8, <2>2, <2>7, <3>1 DEF Asking
    <3>3. Asking(x)'
      BY <1>6, <1>7, <2>7, <3>1, <3>2 DEF Asking, Later
    <3>4. PassiveSends(x)'
      BY <1>7, <2>3, <2>4, <2>5, <2>6, <3>3 DEF PassiveSends, Earlier, Later, Stale, Copies
    <3> QED
      BY <3>4
  <2>8. ASSUME expected' = ClassPad!After(x) PROVE PassiveSends(x)'
    <3>1. \A q \in v' : q \notin Stale(x)
      BY <1>2, <1>3, <1>8, <2>1, <2>8, TakenFrom DEF PassiveSends
    <3>2. pc'["passive"] # "ack" /\ ~terminated'["passive"] => \A q \in w' : q \notin Earlier(x)
      BY <1>3, <1>5, <1>6, <1>8, <2>2, <2>8 DEF PassiveSends, Asking, Answered
    <3>3. Answered(x)'
      BY <1>7, <2>8, <3>1, <3>2 DEF Answered, Earlier, Stale
    <3> QED
      BY <1>7, <2>3, <2>4, <2>5, <2>6, <3>3 DEF PassiveSends, Earlier, Later, Stale, Copies
  <2>9. PassiveSends(x)'
    BY <1>8, <2>7, <2>8
  <2>10. \A q \in w' : q.type \in {"start", "command", "data", "ack", "order", "term"}
    BY <1>8, <2>2 DEF PassiveInv, Earlier, Later, Answers
  <2>11. \A q \in v' : q.type \in {"established", "ack", "command"} /\ q.subtype # "discover"
    BY <2>2 DEF PassiveInv
  <2>12. terminated'["passive"] => pc'["passive"] \in {"idle", "ended"}
    BY <1>6 DEF PassiveInv
  <2> QED
    BY <1>7, <2>9, <2>10, <2>11, <2>12 DEF PassiveInv
<1> DEFINE ack == ClassPad!Packet("ack", p.id)
           order == ClassPad!Packet("order", expected)
<1>9. /\ ack \in ClassPad!Packets /\ ack.type = "ack" /\ ack.id = p.id
      /\ order \in ClassPad!Packets /\ order.type = "order" /\ order.id = expected
      /\ ack \in Answers /\ order \in Answers
  BY <1>4, NumberedPackets DEF ClassPad!Packet, Answers
<1>10. expected \in {x, ClassPad!After(x)} /\ (p \in Stale(x) => expected = x)
  BY <1>2, <1>3 DEF PassiveSends, Asking, Answered
<1>11. (p \in Copies(x) <=> p.id = x) /\ (p \in Stale(x) <=> ClassPad!After(p.id) = x)
  BY <1>2 DEF Copies, Stale
<1>12. (ack \in Later(x) <=> p.id = x) /\ (ack \in Earlier(x) <=> ClassPad!After(p.id) = x)
       /\ (order \in Later(x) <=> expected = ClassPad!After(x)) /\ (order \in Earlier(x) <=> expected = x)
  <2> HIDE DEF ack, order
  <2> QED
    BY <1>9 DEF Earlier, Later
<1> HIDE DEF ack, order
<1>13. CASE p.id = expected /\ ClassPad!TakeAndSend("active", <<ack>>) /\ expected' = ClassPad!After(expected)
  <2>1. p \in Copies(x) /\ expected = x
    BY <1>3, <1>5, <1>10, <1>11, <1>13
  <2>2. ack \in Later(x) /\ ack \notin Earlier(x) /\ expected' = ClassPad!After(x)
    BY <1>5, <1>11, <1>12, <1>13, <2>1
  <2> QED
    BY <1>5, <1>6, <1>8, <1>9, <1>13, <2>1, <2>2 DEF ActiveSending
<1>14. CASE p.id # expected /\ ClassPad!TakeAndSend("active", <<order>>) /\ expected' = expected
  <2>1. CASE expected = x
    <3>1. order \in Earlier(x) /\ order \notin Later(x)
      BY <1>5, <1>12, <2>1
    <3> QED
      BY <1>5, <1>6, <1>8, <1>9, <1>14, <2>1, <3>1 DEF ActiveSending
  <2>2. CASE expected = ClassPad!After(x)
    <3>1. order \in Later(x) /\ order \notin Earlier(x) /\ p \in Copies(x)
      BY <1>3, <1>5, <1>10, <1>12, <2>2
    <3> QED
      BY <1>5, <1>6, <1>8, <1>9, <1>14, <2>2, <3>1 DEF ActiveSending
  <2> QED
    BY <1>10, <2>1, <2>2
<1>15. CASE ClassPad!After(p.id) = expected /\ ClassPad!TakeAndSend("active", <<ack>>) /\ expected' = expected
  <2>1. CASE expected = x
    <3>1. ack \in Earlier(x) /\ ack \notin Later(x)
      BY <1>5, <1>12, <1>15, <2>1
    <3> QED
      BY <1>5, <1>6, <1>8, <1>9, <1>15, <2>1, <3>1 DEF ActiveSending
  <2>2. CASE expected = ClassPad!After(x)
    <3>1. p.id = x /\ p \in Copies(x) /\ ack \in Later(x) /\ ack \notin Earlier(x)
      BY <1>3, <1>5, <1>10, <1>11, <1>12, <2>2
    <3> QED
      BY <1>5, <1>6, <1>8, <1>9, <1>15, <2>2, <3>1 DEF ActiveSending
  <2> QED
    BY <1>10, <2>1, <2>2
<1> QED
  BY <1>3, <1>13, <1>14, <1>15 DEF ClassPad!ClassPadCommand, ack, order

(* The steps of the passive end, run by the library, and of its program.   *)
LEMMA PassiveKeepsInv ==
  ASSUME PadTypes, library = {"passive"}, PassiveInv, ActiveSending,
         \/ ClassPad!Passive \/ ClassPad!BeginReceive \/ ClassPad!CallReceive \/ ClassPad!ClosePassive
         \/ ClassPad!Lose
  PROVE  PassiveInv' /\ ActiveSending'
<1> USE DEF ClassPad!fixed, ClassPad!classPadVars, ClassPad!endVars, ClassPad!wireVars
<1> DEFINE x == Used("passive")
           p == Head(wire["passive"])
           w == PacketsIn(wire["passive"])
           v == PacketsIn(wire["active"])
<1>1. /\ Wires /\ ClassPad!Ends = {"active", "passive"} /\ ClassPad!Other("passive") = "active" /\ "passive" \in library
      /\ wire["active"] \in Seq(ClassPad!Packets) /\ wire["passive"] \in Seq(ClassPad!Packets)
  BY WiresAreTyped, TwoEnds DEF Wires
<1>2. /\ pc \in [ClassPad!Ends -> ClassPad!Places] /\ sending \in [ClassPad!Ends -> ClassPad!Packets]
      /\ next_id \in [ClassPad!Ends -> 0 .. Ids - 1]
      /\ terminated \in [ClassPad!Ends -> BOOLEAN] /\ x \in 0 .. Ids - 1 /\ ClassPad!After(x) \in 0 .. Ids - 1
  <2>1. /\ pc \in [ClassPad!Ends -> ClassPad!Places] /\ sending \in [ClassPad!Ends -> ClassPad!Packets]
        /\ next_id \in [ClassPad!Ends -> 0 .. Ids - 1]
        /\ terminated \in [ClassPad!Ends -> BOOLEAN]
    BY DEF PadTypes, ClassPad!TypeOK
  <2>2. sending["passive"].id \in 0 .. Ids - 1
    BY <1>1, <2>1, PadPackets
  <2> QED
    BY <2>1, <2>2, NextIdentifier DEF Used
<1>3. terminated["passive"] => pc["passive"] \in {"idle", "ended"}
  BY DEF PassiveInv
<1>4. wire["passive"] # <<>> => p \in w /\ p \in ClassPad!Packets /\ p.id \in 0 .. Ids - 1
  BY <1>1, TakenFrom, PadPackets
<1> DEFINE Alone == sending'["passive"] = sending["passive"] /\ expected' = expected
                    /\ pc'["active"] = pc["active"] /\ sending'["active"] = sending["active"]
           PcKept == /\ pc'["passive"] = "ack" => pc["passive"] = "ack"
                     /\ pc["passive"] = "ack" => pc'["passive"] = "ack" \/ terminated'["passive"]
                     /\ terminated["passive"] => terminated'["passive"]
                     /\ terminated'["passive"] => pc'["passive"] \in {"idle", "ended"}
<1>5. ASSUME Alone, PcKept, next_id'["passive"] = next_id["passive"], NEW B \in SUBSET ClassPad!Packets,
             \A q \in B : q.type \in {"established", "ack"} /\ q.subtype # "discover",
             Grows(wire["passive"], wire'["passive"], {}), Grows(wire["active"], wire'["active"], B)
      PROVE  PassiveInv' /\ ActiveSending'
  <2>1. PassiveInv'
    BY <1>5, PassiveAside
  <2> QED
    BY <1>5, <2>1 DEF ActiveSending
<1>6. ASSUME NEW place \in ClassPad!Places, NEW r, ClassPad!GoTo("passive", place, r)
      PROVE  pc'["active"] = pc["active"] /\ pc'["passive"] = place
  BY <1>1, <1>6, GoToIs
<1>7. ASSUME NEW r, ClassPad!Fails("passive", r) PROVE pc'["active"] = pc["active"] /\ pc'["passive"] = "idle"
  BY <1>1, <1>7, FailsIs
<1>8. {"start", "ended", "receive", "ack", "idle"} \subseteq ClassPad!Places
  BY DEF ClassPad!Places
<1>9. \A ts : ClassPad!Receiving("passive", ts) =>
        /\ wire["passive"] # <<>> /\ pc["passive"] \in {"ack", "reply", "receive"} /\ ~terminated["passive"] /\ p.type \in ts
  BY <1>3 DEF ClassPad!Receiving
<1>10. ClassPad!Byte("established") \in ClassPad!Packets /\ ClassPad!Byte("established").type = "established"
        /\ ClassPad!Byte("established").subtype = "none"
  BY PadPackets
<1> DEFINE ack == ClassPad!Packet("ack", p.id)
<1>11. wire["passive"] # <<>> => ack \in ClassPad!Packets /\ ack.type = "ack" /\ ack.subtype = "none"
  BY <1>4, NumberedPackets DEF ClassPad!Packet
<1> HIDE DEF ack
<1>12. ASSUME NEW b \in ClassPad!Packets, b.type \in {"established", "ack"} /\ b.subtype # "discover", wire["passive"] # <<>>,
              ClassPad!TakeAndSend("passive", <<b>>), Alone, PcKept, next_id'["passive"] = next_id["passive"]
       PROVE  PassiveInv' /\ ActiveSending'
  <2>1. Grows(wire["passive"], wire'["passive"], {}) /\ Grows(wire["active"], wire'["active"], {b})
    BY <1>1, <1>12, PadTakesGrows
  <2> QED
    BY <1>5, <1>12, <2>1
<1>13. ASSUME ClassPad!Take("passive"), wire["passive"] # <<>>
       PROVE  Grows(wire["passive"], wire'["passive"], {}) /\ Grows(wire["active"], wire'["active"], {})
  BY <1>1, <1>13, PadTakesGrows DEF ClassPad!Take
<1>14. CASE ClassPad!BeginReceive \/ ClassPad!CallReceive \/ ClassPad!ClosePassive
  <2>1. Grows(wire["passive"], wire'["passive"], {}) /\ Grows(wire["active"], wire'["active"], {})
    BY <1>1, <1>14, GrowsBy DEF ClassPad!BeginReceive, ClassPad!CallReceive, ClassPad!ClosePassive
  <2>2. CASE ClassPad!BeginReceive
    BY <1>1, <1>2, <1>3, <1>5, <1>6, <1>8, <2>1, <2>2 DEF ClassPad!BeginReceive
  <2>3. CASE ClassPad!CallReceive
    BY <1>1, <1>2, <1>3, <1>5, <1>6, <1>8, <2>1, <2>3 DEF ClassPad!CallReceive
  <2>4. CASE ClassPad!ClosePassive
    BY <1>1, <1>2, <1>3, <1>5, <1>8, <2>1, <2>4 DEF ClassPad!ClosePassive
  <2> QED
    BY <1>14, <2>2, <2>3, <2>4
<1>15. CASE ClassPad!Lose
  <2>1. PICK e \in ClassPad!Ends : wire[e] # <<>> /\ wire' = [wire EXCEPT ![e] = Tail(@)]
    BY <1>15 DEF ClassPad!Lose
  <2>2. \A o \in ClassPad!Ends : wire'[o] = wire[o] \/ (wire'[o] = Tail(wire[o]) /\ wire[o] # <<>>)
    BY <1>1, <2>1 DEF Wires
  <2>3. Grows(wire["passive"], wire'["passive"], {}) /\ Grows(wire["active"], wire'["active"], {})
    BY <1>1, <2>2, GrowsBy
  <2> QED
    BY <1>3, <1>5, <1>15, <2>3 DEF ClassPad!Lose
<1>16. CASE ClassPad!ReceiverInitiated
  <2>1. CASE ClassPad!TakeAndSend("passive", <<ClassPad!Byte("established")>>) /\ ClassPad!GoTo("passive", "idle", "OK")
    <3>1. Alone /\ PcKept
      BY <1>1, <1>2, <1>3, <1>6, <1>8, <1>16, <2>1 DEF ClassPad!ReceiverInitiated
    <3> QED
      BY <1>10, <1>12, <1>16, <2>1, <3>1 DEF ClassPad!ReceiverInitiated
  <2>2. CASE ClassPad!Take("passive") /\ UNCHANGED <<pc, result>>
    <3>1. Alone /\ PcKept
      BY <1>3, <1>16, <2>2 DEF ClassPad!ReceiverInitiated
    <3> QED
      BY <1>5, <1>13, <1>16, <2>2, <3>1 DEF ClassPad!ReceiverInitiated
  <2> QED
    BY <1>16, <2>1, <2>2 DEF ClassPad!ReceiverInitiated
<1>17. CASE ClassPad!AnswerStart("passive")
  <2>1. Alone /\ PcKept
    BY <1>1, <1>2, <1>9, <1>17 DEF ClassPad!AnswerStart
  <2> QED
    BY <1>9, <1>10, <1>12, <1>17, <2>1 DEF ClassPad!AnswerStart
<1>18. ~ClassPad!ReceiveDamaged("passive")
  BY <1>4, <1>9 DEF ClassPad!ReceiveDamaged, PassiveInv
<1>19. CASE ClassPad!ReceiveTerm("passive")
  <2>1. Alone /\ PcKept
    BY <1>1, <1>2, <1>7, <1>19 DEF ClassPad!ReceiveTerm
  <2>2. ClassPad!TakeAndSend("passive", <<ack>>)
    BY <1>19 DEF ClassPad!ReceiveTerm, ack
  <2> QED
    BY <1>9, <1>11, <1>12, <1>19, <2>1, <2>2 DEF ClassPad!ReceiveTerm
<1>20. CASE ClassPad!ForgetCommand("passive")
  <2>1. Alone /\ PcKept
    BY <1>3, <1>20 DEF ClassPad!ForgetCommand
  <2>2. ClassPad!TakeAndSend("passive", <<ack>>)
    BY <1>20 DEF ClassPad!ForgetCommand, ack
  <2> QED
    BY <1>9, <1>11, <1>12, <1>20, <2>1, <2>2 DEF ClassPad!ForgetCommand
<1>21. pc["passive"] = "ack" => HasSent("passive")
  BY DEF PassiveInv
<1>22. HasSent("passive") => PassiveSends(x)
  BY DEF PassiveInv
<1>23. CASE ClassPad!AckTimesOut("passive")
  <2>1. HasSent("passive") /\ PassiveSends(x)
    BY <1>21, <1>22, <1>23 DEF ClassPad!AckTimesOut
  <2> DEFINE c == sending["passive"]
  <2>2. c \in ClassPad!Packets /\ c \in Copies(x) /\ c.subtype = "information"
    BY <1>1, <1>2, <2>1 DEF Copies, HasSent, Used, PassiveSends
  <2>3. Grows(wire["passive"], wire'["passive"], {}) /\ Grows(wire["active"], wire'["active"], {c})
    BY <1>1, <1>23, <2>2, PadSendsGrows DEF ClassPad!AckTimesOut
  <2>4. UNCHANGED <<pc, terminated, sending, expected, next_id>>
    BY <1>23 DEF ClassPad!AckTimesOut
  <2>5. HasSent("passive")' /\ x' = x /\ next_id'["passive"] = ClassPad!After(x)
    BY <2>1, <2>4 DEF HasSent, Used, PassiveSends
  <2> HIDE DEF c
  <2>6. PassiveInv'
    BY <1>2, <2>1, <2>2, <2>3, <2>4, <2>5, PassiveRepeats
  <2> QED
    BY <2>4, <2>6 DEF ActiveSending
<1>24. CASE ClassPad!ReceiveAck("passive")
  <2>1. /\ Grows(wire["passive"], wire'["passive"], {}) /\ Grows(wire["active"], wire'["active"], {})
        /\ wire'["passive"] = Tail(wire["passive"]) /\ wire'["active"] = wire["active"]
    <3>1. wire["passive"] # <<>> /\ ClassPad!TakeAndSend("passive", <<>>)
      BY <1>9, <1>24 DEF ClassPad!ReceiveAck, ClassPad!Take
    <3>2. wire["active"] \o <<>> = wire["active"]
      BY <1>1
    <3>3. <<>> \in Seq(ClassPad!Packets)
      OBVIOUS
    <3> QED
      BY <1>1, <3>1, <3>2, <3>3, PadTakesGrows, PadTakes
  <2>2. UNCHANGED <<terminated, sending, expected, next_id>>
    BY <1>24 DEF ClassPad!ReceiveAck
  <2>3. CASE pc["passive"] # "ack"
    <3>1. ClassPad!Fails("passive", "UNKNOWN")
      BY <1>24, <2>3 DEF ClassPad!ReceiveAck
    <3>2. Alone /\ PcKept
      BY <1>7, <1>9, <1>24, <2>2, <2>3, <3>1 DEF ClassPad!ReceiveAck
    <3> QED
      BY <1>5, <2>1, <2>2, <3>2
  <2>4. CASE pc["passive"] = "ack" /\ p.id # sending["passive"].id
    <3>1. UNCHANGED pc
      BY <1>24, <2>4 DEF ClassPad!ReceiveAck
    <3>2. Alone /\ PcKept
      BY <1>3, <2>2, <3>1
    <3> QED
      BY <1>5, <2>1, <2>2, <3>2
  <2>5. CASE pc["passive"] = "ack" /\ p.id = sending["passive"].id
    <3>1. ClassPad!CommandSent("passive") /\ ~terminated["passive"] /\ p.type = "ack" /\ p \in w /\ p \in ClassPad!Packets
      BY <1>4, <1>9, <1>24, <2>5 DEF ClassPad!ReceiveAck
    <3>2. pc'["passive"] = "receive" /\ pc'["active"] = pc["active"]
      BY <1>1, <3>1, CommandSentIs
    <3>3. HasSent("passive") /\ PassiveSends(x)
      BY <1>21, <1>22, <2>5
    <3>4. p \in Later(x)
      BY <2>5, <3>1 DEF Later, Answers, Used
    <3>5. \A q \in w' : q \notin Earlier(x)
      BY <1>1, <1>9, <1>24, <2>1, <3>3, <3>4, TakenFrom DEF ClassPad!ReceiveAck, PassiveSends
    <3>6. Answered(x)
      BY <3>1, <3>3, <3>4 DEF PassiveSends, Asking
    <3>7. w' \subseteq w /\ v' = v
      BY <2>1 DEF Grows
    <3>8. x' = x /\ HasSent("passive")'
      BY <2>2, <3>3 DEF Used, HasSent
    <3> HIDE DEF x
    <3>9. Answered(x)'
      BY <2>2, <3>5, <3>6, <3>7, <3>8 DEF Answered, Earlier, Stale
    <3>10. NoneBehind(wire'["passive"], Later(x), Earlier(x)) /\ NoneBehind(wire'["active"], Copies(x), Stale(x))
      BY <2>1, <3>3 DEF PassiveSends, Grows
    <3>11. PassiveSends(x)'
      BY <2>2, <3>3, <3>7, <3>8, <3>9, <3>10 DEF PassiveSends, Earlier, Later, Stale, Copies
    <3>12. ~terminated'["passive"]
      BY <2>2, <3>1
    <3>13. PassiveInv'
      BY <2>2, <3>2, <3>7, <3>8, <3>11, <3>12 DEF PassiveInv, x
    <3> QED
      BY <2>2, <3>2, <3>13 DEF ActiveSending
  <2> QED
    BY <2>3, <2>4, <2>5
<1>25. CASE ClassPad!ReceiveOrder("passive")
  <2>1. /\ wire["passive"] # <<>> /\ p.type = "order" /\ p \in w /\ p \in ClassPad!Packets /\ p.id \in 0 .. Ids - 1
        /\ ~terminated["passive"] /\ UNCHANGED <<terminated, expected>> /\ p \in Answers
    BY <1>4, <1>9, <1>25 DEF ClassPad!ReceiveOrder, Answers
  <2>2. HasSent("passive") /\ PassiveSends(x) /\ p.id \in {x, ClassPad!After(x)}
    <3>1. HasSent("passive") /\ PassiveSends(x)
      BY <1>22, <2>1 DEF PassiveInv
    <3>2. p \in Earlier(x) \cup Later(x)
      BY <2>1, <3>1 DEF PassiveSends
    <3> QED
      BY <2>1, <3>1, <3>2 DEF Earlier, Later
  <2>3. CASE pc["passive"] # "ack"
    <3>1. next_id' = [next_id EXCEPT !["passive"] = p.id] /\ ClassPad!Take("passive") /\ ClassPad!Fails("passive", "UNKNOWN") /\ UNCHANGED sending
      BY <1>25, <2>3 DEF ClassPad!ReceiveOrder
    <3>2. Alone /\ PcKept
      BY <1>7, <2>1, <2>3, <3>1
    <3>3. p \notin Earlier(x)
      BY <1>2, <2>1, <2>2, <2>3, NextIdentifier DEF PassiveSends, Asking, Answered
    <3>4. p.id = ClassPad!After(x)
      BY <2>1, <2>2, <3>3 DEF Earlier
    <3>5. next_id'["passive"] = next_id["passive"]
      BY <1>1, <1>2, <2>2, <3>1, <3>4 DEF PassiveSends
    <3> QED
      BY <1>5, <1>13, <2>1, <3>1, <3>2, <3>5
  <2>4. CASE pc["passive"] = "ack"
    <3>1. /\ ClassPad!SendNumbered("passive", p.id, sending["passive"].subtype, sending["passive"].size)
          /\ ClassPad!TakeAndSend("passive", <<sending'["passive"]>>) /\ UNCHANGED <<pc, result>>
      BY <1>25, <2>4 DEF ClassPad!ReceiveOrder
    <3> DEFINE c == sending'["passive"]
               z == sending["passive"].size
    <3>2. sending["passive"].subtype = "information" /\ z \in {0, 41, 49} /\ "information" \in ClassPad!Subtypes
      BY <1>1, <1>2, <2>2, PadPackets DEF PassiveSends, ClassPad!Subtypes
    <3>3. /\ c = ClassPad!Command(p.id, "information", z) /\ next_id'["passive"] = ClassPad!After(p.id)
          /\ sending'["active"] = sending["active"] /\ sending' \in [ClassPad!Ends -> ClassPad!Packets]
      BY <1>1, <2>1, <3>1, <3>2, NumberedIs
    <3> HIDE DEF c, z
    <3>4. c \in ClassPad!Packets /\ c \in Copies(p.id) /\ c.subtype = "information" /\ c.id = p.id /\ c.type = "command"
      BY <1>1, <3>3 DEF ClassPad!Command, Copies, c
    <3>5. /\ Grows(wire["passive"], wire'["passive"], {}) /\ Grows(wire["active"], wire'["active"], {c})
          /\ wire'["passive"] = Tail(wire["passive"])
      BY <1>1, <2>1, <3>1, <3>4, PadTakesGrows DEF c
    <3>6. CASE p.id = x
      <4>1. HasSent("passive")' /\ x' = x /\ sending'["passive"].subtype = sending["passive"].subtype
        BY <3>2, <3>4, <3>6 DEF HasSent, Used, c
      <4> HIDE DEF x
      <4>2. PassiveInv'
        BY <1>2, <2>1, <2>2, <3>1, <3>3, <3>4, <3>5, <3>6, <4>1, PassiveRepeats DEF x
      <4> QED
        BY <3>1, <3>3, <4>2 DEF ActiveSending
    <3>7. CASE p.id = ClassPad!After(x)
      <4> DEFINE y == ClassPad!After(x)
      <4>1. p \in Later(x)
        BY <1>2, <2>1, <3>7 DEF Later
      <4>2. expected = y /\ Answered(x)
        BY <2>1, <2>2, <4>1 DEF PassiveSends, Asking, Answered
      <4>3. \A q \in PacketsIn(wire'["passive"]) : q \notin Earlier(x) /\ q \in w
        BY <1>1, <2>1, <2>2, <3>5, <4>1, TakenFrom DEF PassiveSends
      <4>4. Earlier(y) = Later(x) /\ Stale(y) = Copies(x)
        BY <1>2, SetsOfPackets
      <4>5. \A q \in PacketsIn(wire'["passive"]) : q \in Answers => q \in Earlier(y)
        BY <2>2, <4>3, <4>4 DEF PassiveSends
      <4>6. \A q \in v : q.type = "command" => q \in Stale(y)
        BY <2>2, <4>2, <4>4 DEF PassiveSends, Answered
      <4>7. y \in 0 .. Ids - 1 /\ sending'["passive"] = ClassPad!Command(y, "information", z)
              /\ next_id'["passive"] = ClassPad!After(y)
        BY <1>2, <3>3, <3>7 DEF c
      <4>8. expected' = y /\ pc'["passive"] = "ack" /\ terminated'["passive"] = terminated["passive"] /\ ~terminated["passive"]
        BY <2>1, <2>4, <3>1, <4>2
      <4>9. \A q \in {c} : (q \in Copies(y) \/ q.type = "ack") /\ q.subtype # "discover"
        BY <3>4, <3>7
      <4> HIDE DEF y
      <4>10. PassiveInv'
        BY <3>4, <3>5, <4>2, <4>5, <4>6, <4>7, <4>8, <4>9, PassiveNumbers
      <4> QED
        BY <3>1, <3>3, <4>10 DEF ActiveSending
    <3> QED
      BY <2>2, <3>6, <3>7
  <2> QED
    BY <2>3, <2>4
<1>26. CASE ClassPad!HandleCommand
  <2>1. /\ wire["passive"] # <<>> /\ pc["passive"] = "receive" /\ ~terminated["passive"]
        /\ UNCHANGED <<terminated, expected>>
    BY <1>9, <1>26 DEF ClassPad!HandleCommand
  <2>2. CASE p.subtype # "discover"
    <3>1. ClassPad!TakeAndSend("passive", <<ack>>) /\ UNCHANGED <<next_id, sending>> /\ \E r : ClassPad!Fails("passive", r)
      BY <1>26, <2>2 DEF ClassPad!HandleCommand, ack
    <3>2. Alone /\ PcKept
      BY <1>7, <2>1, <3>1
    <3> QED
      BY <1>11, <1>12, <2>1, <3>1, <3>2
  <2>3. CASE p.subtype = "discover"
    <3> DEFINE y == next_id["passive"]
               c == sending'["passive"]
    <3>1. /\ ClassPad!SendNumbered("passive", y, "information", 41)
          /\ ClassPad!TakeAndSend("passive", <<ack, c>>)
          /\ ClassPad!GoTo("passive", "ack", "none")
      BY <1>26, <2>3 DEF ClassPad!HandleCommand, ack
    <3>2. y \in 0 .. Ids - 1 /\ "information" \in ClassPad!Subtypes
      BY <1>1, <1>2 DEF ClassPad!Subtypes
    <3>3. /\ c = ClassPad!Command(y, "information", 41) /\ next_id'["passive"] = ClassPad!After(y)
          /\ sending'["active"] = sending["active"]
      BY <1>1, <3>1, <3>2, NumberedIs
    <3> HIDE DEF c
    <3>4. c \in ClassPad!Packets /\ c \in Copies(y) /\ c.subtype = "information"
      <4>1. c \in ClassPad!Packets
        BY <3>2, <3>3, NumberedPackets
      <4> QED
        BY <3>3, <4>1 DEF ClassPad!Command, Copies
    <3>5. Grows(wire["passive"], wire'["passive"], {}) /\ Grows(wire["active"], wire'["active"], {ack, c})
      BY <1>1, <1>11, <2>1, <3>1, <3>4, PadTakesGrows DEF c
    <3>6. pc'["passive"] = "ack" /\ pc'["active"] = pc["active"]
      BY <1>6, <1>8, <3>1
    <3>7. /\ expected = y /\ \A q \in w : q \in Answers => q \in Earlier(y)
          /\ \A q \in v : q.type = "command" => q \in Stale(y)
      <4>1. CASE HasSent("passive")
        <5>1. PassiveSends(x)
          BY <1>22, <4>1
        <5>2. Answered(x) /\ y = ClassPad!After(x)
          BY <2>1, <5>1 DEF PassiveSends, Asking
        <5>3. Earlier(y) = Later(x) /\ Stale(y) = Copies(x)
          BY <1>2, <5>2, SetsOfPackets
        <5> QED
          BY <2>1, <5>1, <5>2, <5>3 DEF PassiveSends, Answered
      <4>2. CASE ~HasSent("passive")
        BY <4>2 DEF PassiveInv
      <4> QED
        BY <4>1, <4>2
    <3>8. \A q \in {ack, c} : (q \in Copies(y) \/ q.type = "ack") /\ q.subtype # "discover"
      BY <1>11, <2>1, <3>4
    <3>9. \A q \in PacketsIn(wire'["passive"]) : q \in Answers => q \in Earlier(y)
      BY <3>5, <3>7 DEF Grows
    <3>10. sending'["passive"] = ClassPad!Command(y, "information", 41)
      BY <3>3 DEF c
    <3>11. {ack, c} \in SUBSET ClassPad!Packets
      BY <1>11, <2>1, <3>4
    <3> HIDE DEF y
    <3>12. PassiveInv'
      BY <2>1, <3>2, <3>3, <3>5, <3>6, <3>7, <3>8, <3>9, <3>10, <3>11, PassiveNumbers
    <3> QED
      BY <3>3, <3>6, <3>12 DEF ActiveSending
  <2> QED
    BY <2>2, <2>3
<1> QED
  BY <1>14, <1>15, <1>16, <1>17, <1>18, <1>19, <1>20, <1>23, <1>24, <1>25, <1>26
     DEF ClassPad!Passive, ClassPad!Receive

(* The active end, run by the library: bytes, and packets that were        *)
(* damaged; answers to a discovery, and what may not come before one.      *)
Quiets == {p \in ClassPad!Packets : p.type \in ClassPad!Bytes \cup {"damaged"}}
Replies == {p \in ClassPad!Packets : p.type \in {"command", "data"}}
Leading == {p \in ClassPad!Packets : p.type \in {"order", "term", "command", "data"}}
Terms == {p \in ClassPad!Packets : p.type = "term"}
Quiet == PacketsIn(wire["active"]) \subseteq Quiets

(* Where it is: it opens the link with an answer of 49 bytes, that another *)
(* library does not give.                                                  *)
ActivePlaces ==
  /\ pc["active"] \notin {"receive", "idle"} /\ ~irrecoverable["active"]
  /\ terminated["active"] => pc["active"] = "ended"
  /\ result["active"] = "OK" => pc["active"] \in {"open", "ended"}
  /\ pc["active"] \in {"ack", "reply"} => HasSent("active")
  /\ pc["active"] \in {"closed", "start", "start_nul"} => ~HasSent("active")
  /\ pc["passive"] = "ack" => "passive" \in library /\ HasSent("active")
  /\ "passive" \in library =>
       /\ pc["active"] \in {"open", "terminate"} => ~HasSent("active")
       /\ sending["passive"].size # 49 /\ \A p \in PacketsIn(wire["active"]) : p.size # 49

(* It only sends the command that discovers, and then the termination.     *)
ActiveSends ==
  /\ \A p \in PacketsIn(wire["passive"]) :
       /\ p.type \in {"start", "command", "ack", "term", "damaged", "established"}
       /\ p.type = "command" => p.subtype = "discover" /\ HasSent("active")
       /\ p.type = "term" => pc["active"] \in {"terminate", "ended"}
  /\ HasSent("active") =>
       /\ pc["active"] # "ended" => next_id["active"] = ClassPad!After(Used("active"))
       /\ sending["active"] = ClassPad!Command(Used("active"), "discover", 0)
  /\ ~HasSent("active") =>
       /\ next_id["active"] = 0 /\ expected = 0 /\ ~identified
       /\ pc["active"] \notin {"terminate", "ended"} => Quiet

(* The acknowledgement of the termination comes from who has taken it.     *)
Over == terminated["passive"] /\ PacketsIn(wire["passive"]) = {}

ActiveEnds ==
  /\ pc["active"] = "terminate" =>
       /\ NoneBehind(wire["passive"], Terms, ClassPad!Packets)
       /\ Over \/ \A p \in PacketsIn(wire["active"]) : p.type = "ack" => p.id # next_id["active"]
  /\ pc["active"] = "ended" /\ result["active"] = "OK" => Over

(* A ClassPad that has taken the command, and nothing else, and the answer *)
(* that it gives once.                                                     *)
CommandsAre(x) == \A p \in PacketsIn(wire["passive"]) : p.type = "command" => p.id = x
AcksAre(x) == \A p \in PacketsIn(wire["active"]) : p.type = "ack" => p.id = x

Clean(x) ==
  /\ expected = ClassPad!After(x) /\ identified /\ CommandsAre(x)
  /\ pc["active"] \notin {"terminate", "ended"} => AcksAre(x)

Single(x) ==
  /\ ~identified => expected = x /\ CommandsAre(x) /\ Quiet
  /\ \/ PacketsIn(wire["active"]) \intersect Replies = {}
     \/ Clean(x) /\ NoneBehind(wire["active"], Leading, Replies)
  /\ pc["active"] \in {"open", "terminate"} => Clean(x)

ActiveInv ==
  /\ ActivePlaces /\ ActiveSends /\ ActiveEnds
  /\ library = {"active"} /\ HasSent("active") => Single(Used("active"))

(* What the steps of the passive end, and the faults, leave alone.         *)
ActiveAlone ==
  /\ UNCHANGED library
  /\ pc'["active"] = pc["active"] /\ result'["active"] = result["active"]
  /\ next_id'["active"] = next_id["active"] /\ sending'["active"] = sending["active"]
  /\ terminated'["active"] = terminated["active"] /\ irrecoverable'["active"] = irrecoverable["active"]

LEMMA PassiveEndKeeps ==
  ASSUME ActiveInv, ActiveAlone, NEW B \in SUBSET ClassPad!Packets,
         Grows(wire["passive"], wire'["passive"], {}), PacketsIn(wire'["active"]) \subseteq PacketsIn(wire["active"]) \cup B,
         "passive" \in library => sending'["passive"].size # 49 /\ \A p \in B : p.size # 49,
         pc'["passive"] = "ack" => "passive" \in library /\ HasSent("active"),
         ~HasSent("active") =>
           /\ expected' = expected /\ identified' = identified
           /\ B \subseteq Quiets \/ pc["active"] \in {"terminate", "ended"},
         Over => terminated'["passive"],
         pc["active"] = "terminate" =>
           (terminated'["passive"] /\ PacketsIn(wire'["passive"]) = {}) \/ \A p \in B : p.type = "ack" => p.id # next_id["active"],
         library = {"active"} /\ HasSent("active") => Single(Used("active"))'
  PROVE  ActiveInv'
<1>1. HasSent("active")' = HasSent("active") /\ Used("active")' = Used("active")
  BY DEF HasSent, Used, ActiveAlone
<1>2. /\ PacketsIn(wire'["passive"]) \subseteq PacketsIn(wire["passive"])
      /\ \A S, T : NoneBehind(wire["passive"], S, T) => NoneBehind(wire'["passive"], S, T)
  BY DEF Grows
<1>3. ActivePlaces'
  <2>1. \A p \in PacketsIn(wire'["active"]) : p \in PacketsIn(wire["active"]) \/ p \in B
    OBVIOUS
  <2> QED
    BY <1>1, <2>1 DEF ActiveInv, ActivePlaces, ActiveAlone
<1>4. ActiveSends'
  <2>1. Quiet /\ B \subseteq Quiets => Quiet'
    BY DEF Quiet, Quiets
  <2> QED
    BY <1>1, <1>2, <2>1 DEF ActiveInv, ActiveSends, ActiveAlone
<1>5. Over => Over'
  BY <1>2 DEF Over
<1>6. ActiveEnds'
  <2>1. pc["active"] = "terminate" => NoneBehind(wire'["passive"], Terms, ClassPad!Packets)
    BY <1>2 DEF ActiveInv, ActiveEnds
  <2>2. pc["active"] = "terminate" => Over' \/ \A p \in PacketsIn(wire'["active"]) : p.type = "ack" => p.id # next_id["active"]
    BY <1>5 DEF ActiveInv, ActiveEnds, Over
  <2> QED
    BY <1>5, <2>1, <2>2 DEF ActiveInv, ActiveEnds, ActiveAlone, Terms
<1> QED
  BY <1>1, <1>3, <1>4, <1>6 DEF ActiveInv, ActiveAlone

LEMMA SingleKept ==
  ASSUME NEW x, NEW B \in SUBSET ClassPad!Packets, Single(x),
         Grows(wire["passive"], wire'["passive"], {}), Grows(wire["active"], wire'["active"], B),
         B \intersect Replies = {}, expected' = expected, identified' = identified, pc'["active"] = pc["active"],
         ~identified => B \subseteq Quiets,
         Clean(x) /\ pc["active"] \notin {"terminate", "ended"} => \A p \in B : p.type = "ack" => p.id = x,
         NEW y, y = x
  PROVE  Single(y)'
<1>1. /\ PacketsIn(wire'["passive"]) \subseteq PacketsIn(wire["passive"])
      /\ PacketsIn(wire'["active"]) \subseteq PacketsIn(wire["active"]) \cup B
      /\ NoneBehind(wire["active"], Leading, Replies) => NoneBehind(wire'["active"], Leading, Replies)
  BY DEF Grows
<1>2. Leading' = Leading /\ Replies' = Replies /\ Quiets' = Quiets
  BY DEF Leading, Replies, Quiets
<1>3. CommandsAre(x) => \A p \in PacketsIn(wire'["passive"]) : p.type = "command" => p.id = x
  BY <1>1 DEF CommandsAre
<1>4. ~identified => PacketsIn(wire'["active"]) \subseteq Quiets
  BY <1>1 DEF Single, Quiet
<1>5. Clean(x) /\ pc["active"] \notin {"terminate", "ended"} => \A p \in PacketsIn(wire'["active"]) : p.type = "ack" => p.id = x
  BY <1>1 DEF Clean, AcksAre
<1>6. PacketsIn(wire["active"]) \intersect Replies = {} => PacketsIn(wire'["active"]) \intersect Replies = {}
  BY <1>1
<1>7. Single(x) /\ y = x
  OBVIOUS
<1>8. Clean(x) => expected = ClassPad!After(x) /\ identified /\ CommandsAre(x)
  BY DEF Clean
<1> HIDE DEF Leading, Replies, Quiets
<1> SUFFICES /\ ~identified => expected = x /\ PacketsIn(wire'["active"]) \subseteq Quiets
                                /\ \A p \in PacketsIn(wire'["passive"]) : p.type = "command" => p.id = x
             /\ \/ PacketsIn(wire'["active"]) \intersect Replies = {}
                \/ Clean(x) /\ NoneBehind(wire'["active"], Leading, Replies)
             /\ pc["active"] \in {"open", "terminate"} => Clean(x)
  BY <1>2, <1>3, <1>5, <1>7, <1>8 DEF Single, Clean, CommandsAre, AcksAre, Quiet
<1> QED
  BY <1>1, <1>3, <1>4, <1>6, <1>7 DEF Single

(* There is a result for each end.                                         *)
Results == DOMAIN result = ClassPad!Ends

LEMMA ResultIs ==
  ASSUME Results, NEW e \in ClassPad!Ends, NEW place, NEW r, ClassPad!GoTo(e, place, r)
  PROVE  Results' /\ result'[e] = r /\ result'[ClassPad!Other(e)] = result[ClassPad!Other(e)]
BY TwoEnds DEF Results, ClassPad!GoTo

LEMMA ResultsKept == ASSUME Results, ClassPad!Next PROVE Results'
<1> USE DEF ClassPad!GoTo, ClassPad!endVars
<1>1. \A e, r : ClassPad!Fails(e, r) => Results'
  BY DEF ClassPad!Fails, Results
<1>2. \A e : ClassPad!CommandSent(e) => Results'
  BY DEF ClassPad!CommandSent, Results
<1>3. ClassPad!NextAttempt => Results'
  BY DEF ClassPad!NextAttempt, Results
<1>4. ClassPad!InitTimesOut \/ ClassPad!InitNotice \/ ClassPad!InitNul \/ ClassPad!Initiated => Results'
  BY <1>3 DEF ClassPad!InitTimesOut, ClassPad!InitNotice, ClassPad!InitNul, ClassPad!Initiated, Results
<1>5. \A e : ClassPad!Receive(e) => Results'
  BY <1>1, <1>2 DEF ClassPad!Receive, ClassPad!AnswerStart, ClassPad!ReceiveDamaged, ClassPad!ReceiveTerm,
     ClassPad!ReceiveOrder, ClassPad!ReceiveAck, ClassPad!AckTimesOut, ClassPad!ForgetCommand, Results
<1>6. ClassPad!ReceiveReply \/ ClassPad!TerminationAnswered \/ ClassPad!ReceiverInitiated \/ ClassPad!HandleCommand => Results'
  BY <1>1 DEF ClassPad!ReceiveReply, ClassPad!TerminationAnswered, ClassPad!ReceiverInitiated, ClassPad!HandleCommand, Results
<1>7. ClassPad!Device \/ ClassPad!ClassPadGives => Results'
  BY <1>2 DEF ClassPad!Device, ClassPad!ClassPad, ClassPad!ClassPadStarted, ClassPad!ClassPadCommand, ClassPad!ClassPadTakes,
     ClassPad!ClassPadGives, Results
<1>8. ClassPad!Program \/ ClassPad!Lose \/ ClassPad!Damage => Results'
  BY DEF ClassPad!Program, ClassPad!BeginInitiate, ClassPad!Detected, ClassPad!BeginReceive, ClassPad!CallReceive,
     ClassPad!ClosePassive, ClassPad!CloseActive, ClassPad!Lose, ClassPad!Damage, Results
<1> QED
  BY <1>4, <1>5, <1>6, <1>7, <1>8 DEF ClassPad!Next, ClassPad!Active, ClassPad!Passive

(* The calls of the passive end's program, and the faults.                 *)
LEMMA CallsKeepActive ==
  ASSUME PadTypes, Results, "active" \in library, ActiveInv,
         \/ ClassPad!BeginReceive \/ ClassPad!CallReceive \/ ClassPad!ClosePassive
         \/ ClassPad!Lose \/ ClassPad!Damage
  PROVE  ActiveInv'
<1> USE DEF ClassPad!fixed, ClassPad!classPadVars, ClassPad!endVars, ClassPad!wireVars
<1>1. /\ Wires /\ ClassPad!Ends = {"active", "passive"}
      /\ wire["active"] \in Seq(ClassPad!Packets) /\ wire["passive"] \in Seq(ClassPad!Packets)
  BY WiresAreTyped, TwoEnds DEF Wires
<1>2. pc \in [ClassPad!Ends -> ClassPad!Places] /\ {"start", "receive", "ended"} \subseteq ClassPad!Places
  BY DEF PadTypes, ClassPad!TypeOK, ClassPad!Places
<1>3. /\ pc["passive"] = "ack" => "passive" \in library /\ HasSent("active")
      /\ "passive" \in library => sending["passive"].size # 49
  BY DEF ActiveInv, ActivePlaces
<1>4. library = {"active"} /\ HasSent("active") => Single(Used("active"))
  BY DEF ActiveInv
<1>5. ASSUME ActiveAlone, UNCHANGED <<sending, expected, identified, terminated>>,
             pc'["passive"] = "ack" => pc["passive"] = "ack",
             Grows(wire["passive"], wire'["passive"], {}), Grows(wire["active"], wire'["active"], {})
      PROVE  ActiveInv'
  <2>1. PacketsIn(wire'["active"]) \subseteq PacketsIn(wire["active"]) \cup {}
    BY <1>5 DEF Grows
  <2>2. library = {"active"} /\ HasSent("active") => Single(Used("active"))'
    <3>1. pc'["active"] = pc["active"] /\ Used("active")' = Used("active")
      BY <1>5 DEF ActiveAlone, Used
    <3> QED
      BY <1>4, <1>5, <3>1, SingleKept
  <2>3. Over => terminated'["passive"]
    BY <1>5 DEF Over
  <2> QED
    BY <1>3, <1>5, <2>1, <2>2, <2>3, PassiveEndKeeps
<1>6. CASE ClassPad!BeginReceive \/ ClassPad!CallReceive \/ ClassPad!ClosePassive
  <2>1. Grows(wire["passive"], wire'["passive"], {}) /\ Grows(wire["active"], wire'["active"], {})
    BY <1>1, <1>6, GrowsBy DEF ClassPad!BeginReceive, ClassPad!CallReceive, ClassPad!ClosePassive
  <2>2. pc'["active"] = pc["active"] /\ pc'["passive"] # "ack"
    BY <1>1, <1>2, <1>6 DEF ClassPad!BeginReceive, ClassPad!CallReceive, ClassPad!ClosePassive, ClassPad!GoTo
  <2>3. result'["active"] = result["active"]
    BY <1>1, <1>6, TwoEnds, ResultIs DEF ClassPad!BeginReceive, ClassPad!CallReceive, ClassPad!ClosePassive
  <2>4. ActiveAlone /\ UNCHANGED <<sending, expected, identified, terminated>>
    BY <1>6, <2>2, <2>3 DEF ClassPad!BeginReceive, ClassPad!CallReceive, ClassPad!ClosePassive, ActiveAlone
  <2> QED
    BY <1>5, <2>1, <2>2, <2>4
<1>7. CASE ClassPad!Lose
  <2>1. PICK e \in ClassPad!Ends : wire[e] # <<>> /\ wire' = [wire EXCEPT ![e] = Tail(@)]
    BY <1>7 DEF ClassPad!Lose
  <2>2. \A o \in ClassPad!Ends : wire'[o] = wire[o] \/ (wire'[o] = Tail(wire[o]) /\ wire[o] # <<>>)
    BY <1>1, <2>1 DEF Wires
  <2>3. Grows(wire["passive"], wire'["passive"], {}) /\ Grows(wire["active"], wire'["active"], {})
    BY <1>1, <2>2, GrowsBy
  <2>4. ActiveAlone /\ UNCHANGED <<sending, expected, identified, terminated, pc>>
    BY <1>7 DEF ClassPad!Lose, ActiveAlone
  <2> QED
    BY <1>5, <2>3, <2>4
<1>8. CASE ClassPad!Damage
  <2> DEFINE d == ClassPad!Byte("damaged")
  <2>1. PICK e \in ClassPad!Ends : wire[e] # <<>> /\ wire'[ClassPad!Other(e)] = wire[ClassPad!Other(e)] /\ wire'[e] = <<d>> \o Tail(wire[e])
    <3>1. damaged' = damaged + 1 /\ lost' = lost /\ damaged \in Nat /\ lost \in Nat
      BY <1>8 DEF ClassPad!Damage, PadTypes, ClassPad!TypeOK
    <3>2. PICK e \in ClassPad!Ends :
           /\ Wires' /\ wire'[ClassPad!Other(e)] = wire[ClassPad!Other(e)] /\ wire[e] # <<>>
           /\ \/ wire'[e] = Tail(wire[e]) /\ lost < MaxLost /\ lost' = lost + 1 /\ damaged' = damaged
              \/ /\ wire'[e] = <<d>> \o Tail(wire[e])
                 /\ damaged < MaxDamaged /\ damaged' = damaged + 1 /\ lost' = lost
      BY <1>1, <1>8, PadLoses
    <3> QED
      BY <3>1, <3>2
  <2>2. d \in ClassPad!Packets /\ d.type = "damaged" /\ d.size = 0
    BY PadPackets
  <2> HIDE DEF d
  <2>3. d \in Quiets /\ d \notin Terms /\ d \notin Leading /\ d \notin Replies
    BY <2>2 DEF Quiets, Terms, Leading, Replies
  <2>4. ASSUME NEW o \in ClassPad!Ends
        PROVE  /\ PacketsIn(wire'[o]) \subseteq PacketsIn(wire[o]) \cup {d}
               /\ PacketsIn(wire[o]) = {} => PacketsIn(wire'[o]) = {}
               /\ \A S, T : NoneBehind(wire[o], S, T) /\ d \notin S => NoneBehind(wire'[o], S, T)
    <3>1. CASE o # e
      <4>1. wire'[o] = wire[o]
        BY <1>1, <2>1, <3>1, TwoEnds
      <4> QED
        BY <4>1
    <3>2. CASE o = e
      <4>1. wire[o] \in Seq(ClassPad!Packets) /\ wire[o] # <<>> /\ wire'[o] = <<d>> \o Tail(wire[o])
        BY <1>1, <2>1, <3>2 DEF Wires
      <4>2. Tail(wire[o]) \in Seq(ClassPad!Packets) /\ PacketsIn(Tail(wire[o])) \subseteq PacketsIn(wire[o]) /\ PacketsIn(wire[o]) # {}
            /\ \A S, T : NoneBehind(wire[o], S, T) => NoneBehind(Tail(wire[o]), S, T)
        BY <4>1, TakenFrom
      <4> DEFINE t == Tail(wire[o])
      <4> HIDE DEF t
      <4>3. PacketsIn(<<d>> \o t) = {d} \cup PacketsIn(t) /\ \A S, T : NoneBehind(t, S, T) /\ d \notin S => NoneBehind(<<d>> \o t, S, T)
        BY <2>2, <4>2, FirstIsReplaced DEF t
      <4> QED
        BY <4>1, <4>2, <4>3 DEF t
    <3> QED
      BY <3>1, <3>2
  <2>5. /\ PacketsIn(wire'["passive"]) \subseteq PacketsIn(wire["passive"]) \cup {d}
        /\ PacketsIn(wire'["active"]) \subseteq PacketsIn(wire["active"]) \cup {d}
        /\ PacketsIn(wire["passive"]) = {} => PacketsIn(wire'["passive"]) = {}
        /\ NoneBehind(wire["passive"], Terms, ClassPad!Packets) => NoneBehind(wire'["passive"], Terms, ClassPad!Packets)
        /\ NoneBehind(wire["active"], Leading, Replies) => NoneBehind(wire'["active"], Leading, Replies)
    BY <1>1, <2>3, <2>4
  <2>6. UNCHANGED <<library, pc, result, next_id, sending, terminated, irrecoverable, expected, identified>>
    BY <1>8 DEF ClassPad!Damage
  <2>7. HasSent("active")' = HasSent("active") /\ Used("active")' = Used("active")
    BY <2>6 DEF HasSent, Used
  <2>8. ActivePlaces'
    BY <2>2, <2>5, <2>6, <2>7 DEF ActiveInv, ActivePlaces
  <2>9. ActiveSends'
    <3>1. Quiet => Quiet'
      BY <2>3, <2>5 DEF Quiet, Quiets
    <3>2. \A p \in PacketsIn(wire'["passive"]) : p \in PacketsIn(wire["passive"]) \/ p.type = "damaged"
      BY <2>2, <2>5
    <3> QED
      BY <2>6, <2>7, <3>1, <3>2 DEF ActiveInv, ActiveSends
  <2>10. ActiveEnds'
    <3>1. Over => Over'
      BY <2>5, <2>6 DEF Over
    <3>2. \A p \in PacketsIn(wire'["active"]) : p \in PacketsIn(wire["active"]) \/ p.type = "damaged"
      BY <2>2, <2>5
    <3> QED
      BY <2>5, <2>6, <3>1, <3>2 DEF ActiveInv, ActiveEnds, Terms
  <2>11. ASSUME library = {"active"}, HasSent("active") PROVE Single(Used("active"))'
    <3> DEFINE x == Used("active")
    <3>1. Single(x) /\ x' = x
      BY <1>4, <2>7, <2>11
    <3> HIDE DEF x
    <3>2. Quiet => Quiet'
      BY <2>3, <2>5 DEF Quiet, Quiets
    <3>3. CommandsAre(x) => CommandsAre(x)'
      BY <2>2, <2>5, <3>1 DEF CommandsAre
    <3>4. AcksAre(x) => AcksAre(x)'
      BY <2>2, <2>5, <3>1 DEF AcksAre
    <3>5. Clean(x) => Clean(x)'
      BY <2>6, <3>1, <3>3, <3>4 DEF Clean
    <3>6. NoneBehind(wire["active"], Leading, Replies) => NoneBehind(wire["active"], Leading, Replies)'
      BY <2>5 DEF Leading, Replies
    <3>7. PacketsIn(wire["active"]) \intersect Replies = {} => (PacketsIn(wire["active"]) \intersect Replies = {})'
      BY <2>3, <2>5 DEF Replies
    <3>8. Single(x)'
      BY <2>6, <3>1, <3>2, <3>3, <3>5, <3>6, <3>7 DEF Single
    <3> QED
      BY <3>8 DEF x
  <2> QED
    BY <2>6, <2>7, <2>8, <2>9, <2>10, <2>11 DEF ActiveInv
<1> QED
  BY <1>6, <1>7, <1>8

(* The steps of a passive end that is run by the library too.              *)
LEMMA LibraryKeepsActive ==
  ASSUME PadTypes, Results, "active" \in library, ActiveInv, ClassPad!Passive
  PROVE  ActiveInv'
<1> USE DEF ClassPad!fixed, ClassPad!classPadVars, ClassPad!endVars, ClassPad!wireVars
<1> DEFINE p == Head(wire["passive"])
           u == PacketsIn(wire["passive"])
           ack == ClassPad!Packet("ack", p.id)
<1>1. /\ Wires /\ ClassPad!Ends = {"active", "passive"} /\ ClassPad!Other("passive") = "active"
      /\ wire["active"] \in Seq(ClassPad!Packets) /\ wire["passive"] \in Seq(ClassPad!Packets)
  BY WiresAreTyped, TwoEnds DEF Wires
<1>2. /\ pc \in [ClassPad!Ends -> ClassPad!Places] /\ {"idle", "ack", "receive"} \subseteq ClassPad!Places
      /\ sending \in [ClassPad!Ends -> ClassPad!Packets] /\ next_id \in [ClassPad!Ends -> 0 .. Ids - 1]
      /\ terminated \in [ClassPad!Ends -> BOOLEAN] /\ irrecoverable \in [ClassPad!Ends -> BOOLEAN]
  BY DEF PadTypes, ClassPad!TypeOK, ClassPad!Places
<1>3. "passive" \in library /\ library # {"active"} /\ sending["passive"].size # 49
      /\ (pc["passive"] = "ack" => HasSent("active"))
  <2>1. "passive" \in library
    BY DEF ClassPad!Passive, ClassPad!Receive, ClassPad!ReceiverInitiated, ClassPad!HandleCommand, ClassPad!Receiving,
       ClassPad!AnswerStart, ClassPad!ReceiveDamaged, ClassPad!ReceiveTerm, ClassPad!ReceiveOrder, ClassPad!ReceiveAck,
       ClassPad!AckTimesOut, ClassPad!ForgetCommand, ActiveInv, ActivePlaces
  <2> QED
    BY <2>1 DEF ActiveInv, ActivePlaces
<1>4. /\ \A q \in u : q.type \in {"start", "command", "ack", "term", "damaged", "established"}
      /\ \A q \in u : q.type = "command" => HasSent("active")
      /\ \A q \in u : q.type = "term" => pc["active"] \in {"terminate", "ended"}
      /\ pc["active"] = "terminate" => ~HasSent("active") /\ NoneBehind(wire["passive"], Terms, ClassPad!Packets)
  BY <1>3 DEF ActiveInv, ActivePlaces, ActiveSends, ActiveEnds
<1>5. wire["passive"] # <<>> => p \in u /\ p \in ClassPad!Packets /\ p.id \in 0 .. Ids - 1 /\ ~Over
  BY <1>1, TakenFrom, PadPackets DEF Over
<1>6. ASSUME wire["passive"] # <<>> PROVE ack \in ClassPad!Packets /\ ack.type = "ack" /\ ack.id = p.id /\ ack.size = 0
  BY <1>5, <1>6, NumberedPackets DEF ClassPad!Packet
<1> HIDE DEF ack
<1>7. ASSUME ActiveAlone, NEW B \in SUBSET ClassPad!Packets,
             Grows(wire["passive"], wire'["passive"], {}), Grows(wire["active"], wire'["active"], B),
             sending'["passive"].size # 49, \A q \in B : q.size # 49,
             pc'["passive"] = "ack" => HasSent("active"), UNCHANGED <<expected, identified>>,
             ~HasSent("active") => B \subseteq Quiets \/ pc["active"] \in {"terminate", "ended"},
             Over => terminated'["passive"],
             pc["active"] = "terminate" =>
               (terminated'["passive"] /\ PacketsIn(wire'["passive"]) = {}) \/ \A q \in B : q.type # "ack"
      PROVE  ActiveInv'
  <2>1. PacketsIn(wire'["active"]) \subseteq PacketsIn(wire["active"]) \cup B
    BY <1>7 DEF Grows
  <2> QED
    BY <1>3, <1>7, <2>1, PassiveEndKeeps
<1>8. ASSUME NEW place \in ClassPad!Places, NEW r, ClassPad!GoTo("passive", place, r)
      PROVE  pc'["active"] = pc["active"] /\ pc'["passive"] = place /\ result'["active"] = result["active"]
  BY <1>1, <1>8, GoToIs, ResultIs
<1>9. ASSUME NEW r, ClassPad!Fails("passive", r)
      PROVE  pc'["active"] = pc["active"] /\ pc'["passive"] = "idle" /\ result'["active"] = result["active"]
  BY <1>2, <1>8, <1>9 DEF ClassPad!Fails
<1>10. ASSUME ClassPad!CommandSent("passive")
       PROVE  pc'["active"] = pc["active"] /\ pc'["passive"] = "receive" /\ result'["active"] = result["active"]
  BY <1>2, <1>8, <1>10 DEF ClassPad!CommandSent
<1>11. \A ts : ClassPad!Receiving("passive", ts) => wire["passive"] # <<>> /\ p.type \in ts
  BY DEF ClassPad!Receiving
<1>12. ClassPad!Byte("established") \in Quiets /\ ClassPad!Byte("established").size = 0 /\ ClassPad!Byte("established").type = "established"
        /\ ClassPad!Byte("established") \in ClassPad!Packets
  BY PadPackets DEF Quiets, ClassPad!Bytes
<1>13. ASSUME wire["passive"] # <<>>, ClassPad!Take("passive")
       PROVE  Grows(wire["passive"], wire'["passive"], {}) /\ Grows(wire["active"], wire'["active"], {})
  BY <1>1, <1>13, PadTakesGrows DEF ClassPad!Take
<1>14. ASSUME wire["passive"] # <<>>, NEW b \in ClassPad!Packets, ClassPad!TakeAndSend("passive", <<b>>)
       PROVE  Grows(wire["passive"], wire'["passive"], {}) /\ Grows(wire["active"], wire'["active"], {b})
                /\ wire'["passive"] = Tail(wire["passive"])
  BY <1>1, <1>14, PadTakesGrows
<1>24. ASSUME wire["passive"] # <<>>, NEW b \in ClassPad!Packets, ClassPad!TakeAndSend("passive", <<b>>), b.size # 49,
              ActiveAlone, UNCHANGED <<sending, expected, identified>>, pc'["passive"] = "ack" => HasSent("active"),
              HasSent("active") \/ b \in Quiets, pc["active"] = "terminate" => b.type # "ack"
       PROVE  ActiveInv'
  <2>1. Grows(wire["passive"], wire'["passive"], {}) /\ Grows(wire["active"], wire'["active"], {b})
    BY <1>14, <1>24
  <2>2. {b} \in SUBSET ClassPad!Packets /\ \A q \in {b} : q.size # 49 /\ (pc["active"] = "terminate" => q.type # "ack")
    BY <1>24
  <2>3. ~HasSent("active") => {b} \subseteq Quiets
    BY <1>24
  <2> QED
    BY <1>3, <1>5, <1>7, <1>24, <2>1, <2>2, <2>3
<1>15. CASE ClassPad!ReceiverInitiated
  <2>1. CASE ClassPad!TakeAndSend("passive", <<ClassPad!Byte("established")>>) /\ ClassPad!GoTo("passive", "idle", "OK")
    <3>1. ActiveAlone /\ pc'["passive"] = "idle" /\ UNCHANGED <<sending, expected, identified>>
      BY <1>2, <1>8, <1>15, <2>1 DEF ClassPad!ReceiverInitiated, ActiveAlone
    <3> QED
      BY <1>12, <1>15, <1>24, <2>1, <3>1 DEF ClassPad!ReceiverInitiated
  <2>2. CASE ClassPad!Take("passive") /\ UNCHANGED <<pc, result>>
    <3>1. ActiveAlone /\ UNCHANGED <<sending, expected, identified, pc>>
      BY <1>15, <2>2 DEF ClassPad!ReceiverInitiated, ActiveAlone
    <3> QED
      BY <1>3, <1>5, <1>7, <1>13, <1>15, <2>2, <3>1 DEF ClassPad!ReceiverInitiated
  <2> QED
    BY <1>15, <2>1, <2>2 DEF ClassPad!ReceiverInitiated
<1>16. CASE ClassPad!AnswerStart("passive")
  <2>1. ActiveAlone /\ UNCHANGED <<sending, expected, identified, pc>>
    BY <1>1, <1>2, <1>16 DEF ClassPad!AnswerStart, ActiveAlone
  <2> QED
    BY <1>3, <1>11, <1>12, <1>16, <1>24, <2>1 DEF ClassPad!AnswerStart
<1>17. CASE ClassPad!ReceiveDamaged("passive")
  <2>1. wire["passive"] # <<>> /\ \E r : ClassPad!Fails("passive", r)
    BY <1>11, <1>17 DEF ClassPad!ReceiveDamaged
  <2>2. ActiveAlone /\ UNCHANGED <<sending, expected, identified>> /\ pc'["passive"] = "idle"
    BY <1>9, <1>17, <2>1 DEF ClassPad!ReceiveDamaged, ActiveAlone
  <2>3. Grows(wire["passive"], wire'["passive"], {}) /\ Grows(wire["active"], wire'["active"], {})
    <3>1. CASE UNCHANGED wire
      BY <1>1, <3>1, GrowsBy
    <3> QED
      BY <1>13, <1>17, <2>1, <3>1 DEF ClassPad!ReceiveDamaged
  <2> QED
    BY <1>3, <1>5, <1>7, <2>1, <2>2, <2>3
<1>18. CASE ClassPad!ReceiveTerm("passive")
  <2>1. wire["passive"] # <<>> /\ p.type = "term" /\ ClassPad!Fails("passive", "TERMINATED") /\ ClassPad!TakeAndSend("passive", <<ack>>)
    BY <1>11, <1>18 DEF ClassPad!ReceiveTerm, ack
  <2>2. ActiveAlone /\ UNCHANGED <<sending, expected, identified>> /\ pc'["passive"] = "idle" /\ terminated'["passive"]
    BY <1>1, <1>2, <1>9, <1>18, <2>1 DEF ClassPad!ReceiveTerm, ActiveAlone
  <2>3. Grows(wire["passive"], wire'["passive"], {}) /\ Grows(wire["active"], wire'["active"], {ack})
        /\ wire'["passive"] = Tail(wire["passive"])
    BY <1>6, <1>14, <2>1
  <2>4. pc["active"] \in {"terminate", "ended"}
    BY <1>4, <1>5, <2>1
  <2>5. pc["active"] = "terminate" => PacketsIn(wire'["passive"]) = {}
    <3> SUFFICES ASSUME pc["active"] = "terminate" PROVE PacketsIn(wire'["passive"]) = {}
      OBVIOUS
    <3>1. p \in Terms /\ NoneBehind(wire["passive"], Terms, ClassPad!Packets)
      BY <1>4, <1>5, <2>1 DEF Terms
    <3>2. \A q \in PacketsIn(wire'["passive"]) : q \notin ClassPad!Packets
      BY <1>1, <2>1, <2>3, <3>1, TakenFrom
    <3>3. wire'["passive"] \in Seq(ClassPad!Packets)
      BY <1>1, <2>1, <2>3, TakenFrom
    <3>4. PacketsIn(wire'["passive"]) \subseteq ClassPad!Packets
      BY <3>3 DEF PacketsIn
    <3> QED
      BY <3>2, <3>4
  <2> QED
    BY <1>3, <1>6, <1>7, <2>1, <2>2, <2>3, <2>4, <2>5
<1>19. ~ClassPad!ReceiveOrder("passive")
  BY <1>4, <1>5, <1>11 DEF ClassPad!ReceiveOrder
<1>20. CASE ClassPad!ReceiveAck("passive")
  <2>1. wire["passive"] # <<>> /\ (ClassPad!CommandSent("passive") \/ UNCHANGED <<pc, result>> \/ ClassPad!Fails("passive", "UNKNOWN"))
    BY <1>11, <1>20 DEF ClassPad!ReceiveAck
  <2>2. ActiveAlone /\ UNCHANGED <<sending, expected, identified>> /\ (pc'["passive"] = "ack" => pc["passive"] = "ack")
    BY <1>9, <1>10, <1>20, <2>1 DEF ClassPad!ReceiveAck, ActiveAlone
  <2> QED
    BY <1>3, <1>5, <1>7, <1>13, <1>20, <2>1, <2>2 DEF ClassPad!ReceiveAck
<1>21. CASE ClassPad!AckTimesOut("passive")
  <2>1. ActiveAlone /\ UNCHANGED <<sending, expected, identified, pc, terminated>> /\ HasSent("active")
    BY <1>3, <1>21 DEF ClassPad!AckTimesOut, ActiveAlone
  <2>2. Grows(wire["passive"], wire'["passive"], {}) /\ Grows(wire["active"], wire'["active"], {sending["passive"]})
    BY <1>1, <1>2, <1>21, PadSendsGrows DEF ClassPad!AckTimesOut
  <2>3. Over => terminated'["passive"]
    BY <2>1 DEF Over
  <2>4. sending["passive"] \in ClassPad!Packets
    BY <1>1, <1>2
  <2> QED
    BY <1>3, <1>4, <1>7, <2>1, <2>2, <2>3, <2>4
<1>22. CASE ClassPad!ForgetCommand("passive")
  <2>1. /\ wire["passive"] # <<>> /\ pc["passive"] = "ack" /\ HasSent("active") /\ ClassPad!TakeAndSend("passive", <<ack>>)
        /\ ActiveAlone /\ UNCHANGED <<sending, expected, identified, pc, terminated>>
    BY <1>3, <1>11, <1>22 DEF ClassPad!ForgetCommand, ActiveAlone, ack
  <2> QED
    BY <1>4, <1>6, <1>24, <2>1
<1>23. CASE ClassPad!HandleCommand
  <2>1. wire["passive"] # <<>> /\ p.type \in {"command", "data"}
    BY <1>11, <1>23 DEF ClassPad!HandleCommand
  <2>2. HasSent("active") /\ pc["active"] # "terminate"
    BY <1>4, <1>5, <2>1
  <2>3. CASE p.subtype # "discover"
    <3>1. ClassPad!TakeAndSend("passive", <<ack>>) /\ UNCHANGED <<next_id, sending>> /\ \E r : ClassPad!Fails("passive", r)
      BY <1>23, <2>3 DEF ClassPad!HandleCommand, ack
    <3>2. irrecoverable'["active"] = irrecoverable["active"]
      BY <1>1, <1>2, <1>23, <2>3 DEF ClassPad!HandleCommand
    <3>3. ActiveAlone /\ UNCHANGED <<sending, expected, identified, terminated>> /\ pc'["passive"] = "idle"
      BY <1>9, <1>23, <3>1, <3>2 DEF ClassPad!HandleCommand, ActiveAlone
    <3> QED
      BY <1>6, <1>24, <2>1, <2>2, <3>1, <3>3
  <2>4. CASE p.subtype = "discover"
    <3> DEFINE y == next_id["passive"]
               c == sending'["passive"]
    <3>1. /\ ClassPad!SendNumbered("passive", y, "information", 41)
          /\ ClassPad!TakeAndSend("passive", <<ack, c>>)
          /\ ClassPad!GoTo("passive", "ack", "none") /\ UNCHANGED irrecoverable
      BY <1>23, <2>4 DEF ClassPad!HandleCommand, ack
    <3>2. y \in 0 .. Ids - 1 /\ "information" \in ClassPad!Subtypes
      BY <1>1, <1>2 DEF ClassPad!Subtypes
    <3>3. /\ c = ClassPad!Command(y, "information", 41)
          /\ sending'["active"] = sending["active"] /\ next_id'["active"] = next_id["active"]
      BY <1>1, <3>1, <3>2, NumberedIs
    <3> HIDE DEF c
    <3>4. c \in ClassPad!Packets /\ c.size = 41
      <4>1. c \in ClassPad!Packets
        BY <3>2, <3>3, NumberedPackets
      <4> QED
        BY <3>3, <4>1 DEF ClassPad!Command
    <3>5. Grows(wire["passive"], wire'["passive"], {}) /\ Grows(wire["active"], wire'["active"], {ack, c})
      BY <1>1, <1>6, <2>1, <3>1, <3>4, PadTakesGrows DEF c
    <3>6. ActiveAlone /\ UNCHANGED <<expected, identified, terminated>>
      BY <1>2, <1>8, <1>23, <3>1, <3>3 DEF ClassPad!HandleCommand, ActiveAlone
    <3>7. {ack, c} \in SUBSET ClassPad!Packets /\ \A q \in {ack, c} : q.size # 49
      BY <1>6, <2>1, <3>4
    <3>8. sending'["passive"].size # 49
      BY <3>4 DEF c
    <3> QED
      BY <1>5, <1>7, <2>1, <2>2, <3>5, <3>6, <3>7, <3>8
  <2> QED
    BY <2>3, <2>4
<1> QED
  BY <1>15, <1>16, <1>17, <1>18, <1>19, <1>20, <1>21, <1>22, <1>23 DEF ClassPad!Passive, ClassPad!Receive

(* The steps of a ClassPad, at the passive end.                            *)
LEMMA DeviceKeepsActive ==
  ASSUME PadTypes, Results, "active" \in library, ActiveInv,
         ClassPad!ClassPadStarted \/ ClassPad!ClassPadTakes("passive")
  PROVE  ActiveInv'
<1> USE DEF ClassPad!fixed, ClassPad!classPadVars
<1> DEFINE p == Head(wire["passive"])
           u == PacketsIn(wire["passive"])
           x == Used("active")
           ack == ClassPad!Packet("ack", p.id)
<1>1. /\ Wires /\ ClassPad!Ends = {"active", "passive"} /\ ClassPad!Other("passive") = "active"
      /\ wire["active"] \in Seq(ClassPad!Packets) /\ wire["passive"] \in Seq(ClassPad!Packets)
  BY WiresAreTyped, TwoEnds DEF Wires
<1>2. /\ pc \in [ClassPad!Ends -> ClassPad!Places] /\ "receive" \in ClassPad!Places
      /\ terminated \in [ClassPad!Ends -> BOOLEAN]
  BY DEF PadTypes, ClassPad!TypeOK, ClassPad!Places
<1>3. "passive" \notin library /\ library = {"active"} /\ pc["passive"] # "ack"
  <2>1. "passive" \notin library
    BY DEF ClassPad!ClassPadStarted, ClassPad!ClassPadTakes
  <2> QED
    BY <2>1, <1>1 DEF PadTypes, ActiveInv, ActivePlaces
<1>4. wire["passive"] # <<>> /\ p \in u /\ p \in ClassPad!Packets /\ p.id \in 0 .. Ids - 1 /\ ~Over
  <2>1. wire["passive"] # <<>>
    BY DEF ClassPad!ClassPadStarted, ClassPad!ClassPadTakes
  <2> QED
    BY <1>1, <2>1, TakenFrom, PadPackets DEF Over
<1>5. ASSUME NEW ps, NEW B \in SUBSET ClassPad!Packets, ps = <<>> \/ (\E b \in B : ps = <<b>>) \/ \E a, b \in B : ps = <<a, b>>,
             ClassPad!TakeAndSend("passive", ps), ActiveAlone, UNCHANGED <<expected, identified>>, pc'["passive"] # "ack",
             B \subseteq Quiets \/ pc["active"] \in {"terminate", "ended"},
             pc["active"] = "terminate" =>
               (terminated'["passive"] /\ PacketsIn(wire'["passive"]) = {}) \/ \A q \in B : q.type # "ack",
             B \intersect Replies = {}
      PROVE  ActiveInv'
  <2>1. Grows(wire["passive"], wire'["passive"], {}) /\ Grows(wire["active"], wire'["active"], B)
        /\ (pc["active"] = "ended" => wire'["active"] = wire["active"])
    BY <1>1, <1>4, <1>5, PadTakesGrows
  <2>2. PacketsIn(wire'["active"]) \subseteq PacketsIn(wire["active"]) \cup B
    BY <2>1 DEF Grows
  <2>3. ASSUME HasSent("active") PROVE Single(x)'
    <3>1. Single(x)
      BY <1>3, <2>3 DEF ActiveInv
    <3>2. x' = x /\ pc'["active"] = pc["active"]
      BY <1>5 DEF Used, ActiveAlone
    <3> HIDE DEF x
    <3>3. CASE pc["active"] = "ended"
      <4>1. Grows(wire["active"], wire'["active"], {})
        BY <1>1, <2>1, <3>3, GrowsBy
      <4> QED
        BY <1>5, <2>1, <3>1, <3>2, <4>1, SingleKept
    <3>4. CASE pc["active"] # "ended"
      <4>1. ~identified => B \subseteq Quiets
        BY <1>5, <3>1, <3>4 DEF Single, Clean
      <4>2. pc["active"] \notin {"terminate", "ended"} => \A q \in B : q.type # "ack"
        BY <1>5 DEF Quiets, ClassPad!Bytes
      <4> QED
        BY <1>5, <2>1, <3>1, <3>2, <4>1, <4>2, SingleKept
    <3> QED
      BY <3>3, <3>4
  <2> QED
    BY <1>3, <1>4, <1>5, <2>1, <2>2, <2>3, PassiveEndKeeps
<1>6. \A b \in {"established", "nul", "notice"} : ClassPad!Byte(b) \in ClassPad!Packets /\ ClassPad!Byte(b).type = b
        /\ ClassPad!Byte(b) \in Quiets /\ ClassPad!Byte(b) \notin Replies
  BY PadPackets DEF Quiets, Replies, ClassPad!Bytes
<1>7. ASSUME NEW b \in {"established", "nul", "notice"}, NEW ps,
             ps \in {<<ClassPad!Byte(b)>>, <<ClassPad!Byte(b), ClassPad!Byte(b)>>}, ClassPad!TakeAndSend("passive", ps),
             ActiveAlone, UNCHANGED <<expected, identified>>, pc'["passive"] # "ack"
      PROVE  ActiveInv'
  <2> DEFINE B == {ClassPad!Byte(b)}
  <2>1. B \in SUBSET ClassPad!Packets /\ B \subseteq Quiets /\ B \intersect Replies = {} /\ \A q \in B : q.type # "ack"
    BY <1>6
  <2>2. (\E a \in B : ps = <<a>>) \/ \E a, c \in B : ps = <<a, c>>
    BY <1>7
  <2> HIDE DEF B
  <2> QED
    BY <1>5, <1>7, <2>1, <2>2
<1>8. CASE ClassPad!ClassPadStarted
  <2>1. ActiveAlone /\ UNCHANGED <<expected, identified>> /\ pc'["passive"] # "ack"
    <3>1. CASE ClassPad!GoTo("passive", "receive", "none")
      <4>1. pc'["passive"] = "receive" /\ pc'["active"] = pc["active"] /\ result'["active"] = result["active"]
        BY <1>1, <1>2, <3>1, GoToIs, ResultIs
      <4> QED
        BY <1>8, <4>1 DEF ClassPad!ClassPadStarted, ActiveAlone
    <3>2. CASE UNCHANGED <<pc, result>>
      BY <1>3, <1>8, <3>2 DEF ClassPad!ClassPadStarted, ActiveAlone
    <3> QED
      BY <1>8, <3>1, <3>2 DEF ClassPad!ClassPadStarted
  <2>2. \E b \in {"established", "nul", "notice"} : \E ps \in {<<ClassPad!Byte(b)>>, <<ClassPad!Byte(b), ClassPad!Byte(b)>>} :
           ClassPad!TakeAndSend("passive", ps)
    BY <1>8 DEF ClassPad!ClassPadStarted
  <2> QED
    BY <1>7, <2>1, <2>2
<1>9. CASE ClassPad!ClassPadTakes("passive")
  <2>1. UNCHANGED <<pc, result>>
    BY <1>3, <1>9 DEF ClassPad!ClassPadTakes
  <2>2. ActiveAlone /\ UNCHANGED <<expected, identified>> /\ pc'["passive"] # "ack"
    BY <1>1, <1>2, <1>3, <1>9, <2>1 DEF ClassPad!ClassPadTakes, ActiveAlone
  <2>3. CASE p.type = "start"
    <3>1. ClassPad!TakeAndSend("passive", <<ClassPad!Byte("established")>>)
      BY <1>9, <2>3 DEF ClassPad!ClassPadTakes
    <3>2. "established" \in {"established", "nul", "notice"}
      OBVIOUS
    <3> QED
      BY <1>7, <2>2, <3>1, <3>2
  <2>4. CASE p.type = "term"
    <3>1. ClassPad!TakeAndSend("passive", <<ack>>) /\ terminated'["passive"]
      BY <1>1, <1>2, <1>9, <2>4 DEF ClassPad!ClassPadTakes
    <3>2. pc["active"] \in {"terminate", "ended"}
      BY <1>4, <2>4 DEF ActiveInv, ActiveSends
    <3>3. ack \in ClassPad!Packets /\ ack.type = "ack"
      BY <1>4, NumberedPackets DEF ClassPad!Packet
    <3> HIDE DEF ack
    <3>4. pc["active"] = "terminate" => PacketsIn(wire'["passive"]) = {}
      <4> SUFFICES ASSUME pc["active"] = "terminate" PROVE PacketsIn(wire'["passive"]) = {}
        OBVIOUS
      <4>1. p \in Terms /\ NoneBehind(wire["passive"], Terms, ClassPad!Packets)
        BY <1>4, <2>4 DEF Terms, ActiveInv, ActiveEnds
      <4>2. wire'["passive"] = Tail(wire["passive"])
        <5>1. <<ack>> \in Seq(ClassPad!Packets)
          BY <3>3
        <5> QED
          BY <1>1, <1>4, <3>1, <5>1, PadTakes
      <4>3. \A q \in PacketsIn(wire'["passive"]) : q \notin ClassPad!Packets
        BY <1>1, <1>4, <4>1, <4>2, TakenFrom
      <4>4. wire'["passive"] \in Seq(ClassPad!Packets)
        BY <1>1, <1>4, <4>2, TakenFrom
      <4>5. PacketsIn(wire'["passive"]) \subseteq ClassPad!Packets
        BY <4>4 DEF PacketsIn
      <4> QED
        BY <4>3, <4>5
    <3>5. {ack} \in SUBSET ClassPad!Packets /\ {ack} \intersect Replies = {}
      BY <3>3 DEF Replies
    <3> QED
      BY <1>5, <2>2, <3>1, <3>2, <3>4, <3>5
  <2>5. CASE p.type \notin {"start", "term"}
    <3>1. ClassPad!TakeAndSend("passive", <<>>)
      BY <1>9, <2>5 DEF ClassPad!ClassPadTakes
    <3> QED
      BY <1>5, <2>2, <3>1
  <2> QED
    BY <2>3, <2>4, <2>5
<1> QED
  BY <1>8, <1>9

LEMMA CommandKeepsActive ==
  ASSUME PadTypes, "active" \in library, ActiveInv, ClassPad!ClassPadCommand("passive")
  PROVE  ActiveInv'
<1> USE DEF ClassPad!fixed, ClassPad!classPadVars
<1> DEFINE p == Head(wire["passive"])
           u == PacketsIn(wire["passive"])
           x == Used("active")
           ack == ClassPad!Packet("ack", p.id)
           order == ClassPad!Packet("order", expected)
           reply == IF identified THEN ClassPad!Packet("term", next_id["passive"])
                    ELSE ClassPad!Command(next_id["passive"], "information", 49)
<1>1. /\ Wires /\ ClassPad!Ends = {"active", "passive"} /\ ClassPad!Other("passive") = "active"
      /\ wire["active"] \in Seq(ClassPad!Packets) /\ wire["passive"] \in Seq(ClassPad!Packets)
  BY WiresAreTyped, TwoEnds DEF Wires
<1>2. "passive" \notin library /\ library = {"active"} /\ pc["passive"] # "ack"
  <2>1. "passive" \notin library
    BY DEF ClassPad!ClassPadCommand
  <2> QED
    BY <2>1, <1>1 DEF PadTypes, ActiveInv, ActivePlaces
<1>3. wire["passive"] # <<>> /\ p \in u /\ p \in ClassPad!Packets /\ p.id \in 0 .. Ids - 1 /\ p.type = "command" /\ ~Over
  <2>1. wire["passive"] # <<>> /\ p.type = "command"
    BY DEF ClassPad!ClassPadCommand
  <2> QED
    BY <1>1, <2>1, TakenFrom, PadPackets DEF Over
<1>4. HasSent("active") /\ p.subtype = "discover" /\ Single(x) /\ (pc["active"] # "ended" => next_id["active"] = ClassPad!After(x))
  BY <1>2, <1>3 DEF ActiveInv, ActiveSends
<1>5. /\ x \in 0 .. Ids - 1 /\ ClassPad!After(x) # x /\ expected \in 0 .. Ids - 1
      /\ next_id \in [ClassPad!Ends -> 0 .. Ids - 1] /\ next_id["passive"] \in 0 .. Ids - 1
  <2>1. sending["active"] \in ClassPad!Packets /\ expected \in 0 .. Ids - 1 /\ next_id \in [ClassPad!Ends -> 0 .. Ids - 1]
    BY <1>1 DEF PadTypes, ClassPad!TypeOK
  <2>2. x \in 0 .. Ids - 1
    BY <2>1, PadPackets DEF Used
  <2> QED
    BY <1>1, <2>1, <2>2, NextIdentifier
<1>6. /\ ack \in ClassPad!Packets /\ ack.type = "ack" /\ ack.id = p.id
      /\ order \in ClassPad!Packets /\ order.type = "order"
      /\ ClassPad!Packet("term", next_id["passive"]) \in ClassPad!Packets /\ ClassPad!Packet("term", next_id["passive"]).type = "term"
      /\ ClassPad!Command(next_id["passive"], "information", 49) \in ClassPad!Packets
  BY <1>3, <1>5, NumberedPackets DEF ClassPad!Packet
<1> HIDE DEF ack, order, p
<1>7. /\ UNCHANGED <<library, pc, result, sending, terminated, irrecoverable>>
      /\ next_id'["active"] = next_id["active"]
  BY <1>1, <1>5 DEF ClassPad!ClassPadCommand
<1>8. ActiveAlone /\ Used("active")' = x
  BY <1>7 DEF ActiveAlone, Used
<1>9. /\ ~identified => expected = x /\ p.id = x /\ Quiet /\ CommandsAre(x)
      /\ Clean(x) => p.id = x /\ expected = ClassPad!After(x) /\ identified
      /\ pc["active"] \in {"open", "terminate"} => Clean(x)
      /\ ~Clean(x) => PacketsIn(wire["active"]) \intersect Replies = {}
  BY <1>3, <1>4 DEF Single, Clean, CommandsAre
<1>10. ASSUME NEW B \in SUBSET ClassPad!Packets, Grows(wire["passive"], wire'["passive"], {}),
              PacketsIn(wire'["active"]) \subseteq PacketsIn(wire["active"]) \cup B, Single(x)',
              pc["active"] = "terminate" => \A q \in B : q.type = "ack" => q.id # next_id["active"]
       PROVE  ActiveInv'
  <2>1. Single(Used("active"))'
    BY <1>8, <1>10
  <2>2. terminated'["passive"] = terminated["passive"]
    BY <1>7
  <2> QED
    BY <1>2, <1>3, <1>4, <1>7, <1>8, <1>10, <2>1, PassiveEndKeeps
<1>11. pc["active"] = "terminate" => next_id["active"] # x
  BY <1>4, <1>5
<1>12. ASSUME NEW b \in ClassPad!Packets, ClassPad!TakeAndSend("passive", <<b>>), b \notin Replies, identified, UNCHANGED <<expected, identified>>,
              Clean(x) /\ b.type = "ack" => b.id = x
       PROVE  ActiveInv'
  <2>1. /\ Grows(wire["passive"], wire'["passive"], {}) /\ Grows(wire["active"], wire'["active"], {b})
    BY <1>1, <1>3, <1>12, PadTakesGrows DEF p
  <2>2. /\ PacketsIn(wire'["active"]) \subseteq PacketsIn(wire["active"]) \cup {b}
        /\ {b} \in SUBSET ClassPad!Packets /\ {b} \intersect Replies = {}
    BY <1>12, <2>1 DEF Grows
  <2>3. Single(x)'
    <3>1. x' = x
      BY <1>8
    <3> HIDE DEF x
    <3> QED
      BY <1>4, <1>7, <1>12, <2>1, <2>2, <3>1, SingleKept
  <2>4. pc["active"] = "terminate" => \A q \in {b} : q.type = "ack" => q.id # next_id["active"]
    BY <1>9, <1>11, <1>12
  <2> QED
    BY <1>10, <2>1, <2>2, <2>3, <2>4
<1>13. CASE p.id # expected /\ ClassPad!TakeAndSend("passive", <<order>>) /\ UNCHANGED <<expected, identified>>
  <2>1. identified
    BY <1>9, <1>13
  <2>2. order \notin Replies
    BY <1>6 DEF Replies
  <2> QED
    BY <1>6, <1>12, <1>13, <2>1, <2>2
<1>14. CASE ClassPad!After(p.id) = expected /\ ClassPad!TakeAndSend("passive", <<ack>>) /\ UNCHANGED <<expected, identified>>
  <2>1. identified
    BY <1>5, <1>9, <1>14
  <2>2. ack \notin Replies
    BY <1>6 DEF Replies
  <2> QED
    BY <1>6, <1>9, <1>12, <1>14, <2>1, <2>2
<1>15. CASE p.id = expected /\ ClassPad!TakeAndSend("passive", <<ack, reply>>) /\ expected' = ClassPad!After(expected) /\ identified'
  <2>1. reply \in ClassPad!Packets
    BY <1>6
  <2>2. /\ Grows(wire["passive"], wire'["passive"], {}) /\ Grows(wire["active"], wire'["active"], {ack, reply})
        /\ wire'["active"] \in {wire["active"], wire["active"] \o <<ack, reply>>}
    <3> HIDE DEF reply
    <3>1. <<ack, reply>> \in Seq(ClassPad!Packets)
      BY <1>6, <2>1
    <3> QED
      BY <1>1, <1>3, <1>6, <1>15, <2>1, <3>1, PadTakesGrows, PadTakes DEF p
  <2>3. PacketsIn(wire'["active"]) \subseteq PacketsIn(wire["active"]) \cup {ack, reply} /\ {ack, reply} \in SUBSET ClassPad!Packets
        /\ PacketsIn(wire'["passive"]) \subseteq PacketsIn(wire["passive"])
    BY <1>6, <2>1, <2>2 DEF Grows
  <2>4. ~Clean(x) /\ pc["active"] \notin {"open", "terminate"} /\ PacketsIn(wire["active"]) \intersect Replies = {}
    BY <1>5, <1>9, <1>15
  <2>5. Single(x)'
    <3>1. CASE identified
      <4>1. reply \notin Replies /\ ack \notin Replies
        BY <1>6, <3>1 DEF Replies
      <4>2. (PacketsIn(wire["active"]) \intersect Replies = {})'
        BY <2>3, <2>4, <4>1 DEF Replies
      <4> QED
        BY <1>7, <1>15, <2>4, <4>2 DEF Single
    <3>2. CASE ~identified
      <4>1. expected = x /\ p.id = x /\ Quiet /\ CommandsAre(x) /\ x' = x /\ expected' = ClassPad!After(x)
        BY <1>8, <1>9, <1>15, <3>2
      <4> HIDE DEF x, reply
      <4>2. CommandsAre(x)'
        BY <2>3, <4>1 DEF CommandsAre
      <4>3. \A q \in PacketsIn(wire["active"]) : q \notin Leading /\ q.type # "ack"
        BY <4>1 DEF Quiet, Quiets, Leading, ClassPad!Bytes
      <4>4. reply.type = "command"
        BY <3>2 DEF reply, ClassPad!Command
      <4>5. AcksAre(x)'
        BY <1>6, <2>3, <4>1, <4>3, <4>4 DEF AcksAre
      <4>6. Clean(x)'
        BY <1>15, <4>1, <4>2, <4>5 DEF Clean
      <4>7. NoneBehind(wire'["active"], Leading, Replies)
        <5>1. NoneBehind(wire["active"], Leading, Replies)
          BY <4>3, NoneOfThem
        <5> DEFINE s == wire["active"] \o <<ack>>
        <5>2. /\ s \in Seq(ClassPad!Packets) /\ PacketsIn(s) = PacketsIn(wire["active"]) \cup {ack}
              /\ s \o <<reply>> = wire["active"] \o <<ack, reply>>
          <6>1. s \in Seq(ClassPad!Packets) /\ PacketsIn(s) = PacketsIn(wire["active"]) \cup {ack}
            BY <1>1, <1>6, SentTo
          <6>2. s \o <<reply>> = wire["active"] \o <<ack, reply>>
            <7>1. wire["active"] \o <<ack, reply>> = (wire["active"] \o <<ack>>) \o <<reply>>
              <8>1. \A w \in Seq(ClassPad!Packets) : \A a, b \in ClassPad!Packets : w \o <<a, b>> = (w \o <<a>>) \o <<b>>
                BY TwoSent
              <8> QED
                BY <1>1, <1>6, <2>1, <8>1, Zenon
            <7> QED
              BY <7>1
          <6> QED
            BY <6>1, <6>2
        <5>3. \A q \in PacketsIn(s) : q \notin Leading
          BY <1>6, <4>3, <5>2 DEF Leading
        <5> HIDE DEF s
        <5>4. NoneBehind(s, Leading, Replies)
          BY <5>3, NoneOfThem
        <5>5. NoneBehind(s \o <<reply>>, Leading, Replies)
          BY <2>1, <5>2, <5>3, <5>4, SentTo
        <5> QED
          BY <2>2, <5>1, <5>2, <5>5
      <4>8. (NoneBehind(wire["active"], Leading, Replies))'
        BY <4>7 DEF Leading, Replies
      <4> QED
        BY <1>15, <4>6, <4>8 DEF Single
    <3> QED
      BY <3>1, <3>2
  <2> QED
    BY <1>10, <2>2, <2>3, <2>4, <2>5
<1> QED
  BY <1>4, <1>13, <1>14, <1>15 DEF ClassPad!ClassPadCommand, p, ack, order

(* What the active end does when it has sent its command.                  *)
LEMMA ActiveHears ==
  ASSUME ActiveInv, HasSent("active"), pc["active"] \in {"ack", "reply"}, UNCHANGED <<library, irrecoverable>>,
         NEW B, PacketsIn(wire'["active"]) \subseteq PacketsIn(wire["active"]),
         PacketsIn(wire'["passive"]) \subseteq PacketsIn(wire["passive"]) \cup B,
         \A p \in B : p.type \in {"command", "ack", "established"} /\ (p.type = "command" => p.subtype = "discover"),
         pc'["passive"] = pc["passive"], sending'["passive"] = sending["passive"],
         HasSent("active")', sending'["active"] = ClassPad!Command(Used("active")', "discover", 0),
         pc'["active"] # "ended" => next_id'["active"] = ClassPad!After(Used("active")'),
         pc'["active"] \in {"ack", "reply", "open", "ended"},
         pc'["active"] = "open" => "passive" \notin library,
         terminated'["active"] => pc'["active"] = "ended",
         result'["active"] = "OK" => pc'["active"] = "open",
         library = {"active"} => Single(Used("active"))'
  PROVE  ActiveInv'
<1>1. \A p \in PacketsIn(wire'["passive"]) : p \in PacketsIn(wire["passive"]) \/ p \in B
  OBVIOUS
<1>2. ActivePlaces'
  BY DEF ActiveInv, ActivePlaces
<1>3. ActiveSends'
  <2>1. \A p \in PacketsIn(wire'["passive"]) :
       /\ p.type \in {"start", "command", "ack", "term", "damaged", "established"}
       /\ p.type = "command" => p.subtype = "discover"
       /\ p.type # "term"
    BY <1>1 DEF ActiveInv, ActiveSends
  <2> QED
    BY <2>1 DEF ActiveSends
<1>4. ActiveEnds'
  BY DEF ActiveEnds
<1> QED
  BY <1>2, <1>3, <1>4 DEF ActiveInv

LEMMA SingleHears ==
  ASSUME NEW x, Single(x), Grows(wire["active"], wire'["active"], {}),
         NEW B, PacketsIn(wire'["passive"]) \subseteq PacketsIn(wire["passive"]) \cup B,
         \A p \in B : p.type = "command" => p.id = x, UNCHANGED <<expected, identified>>,
         pc["active"] \notin {"terminate", "ended"} \/ pc'["active"] \in {"terminate", "ended"},
         pc'["active"] \in {"open", "terminate"} => Clean(x),
         NEW y, y = x
  PROVE  Single(y)'
<1>1. /\ PacketsIn(wire'["active"]) \subseteq PacketsIn(wire["active"])
      /\ NoneBehind(wire["active"], Leading, Replies) => NoneBehind(wire'["active"], Leading, Replies)
  BY DEF Grows
<1>2. Leading' = Leading /\ Replies' = Replies /\ Quiets' = Quiets
  BY DEF Leading, Replies, Quiets
<1>3. CommandsAre(x) => \A p \in PacketsIn(wire'["passive"]) : p.type = "command" => p.id = x
  BY DEF CommandsAre
<1>4. ~identified => PacketsIn(wire'["active"]) \subseteq Quiets
  BY <1>1 DEF Single, Quiet
<1>5. Clean(x) /\ pc'["active"] \notin {"terminate", "ended"} => \A p \in PacketsIn(wire'["active"]) : p.type = "ack" => p.id = x
  BY <1>1 DEF Clean, AcksAre
<1>6. PacketsIn(wire["active"]) \intersect Replies = {} => PacketsIn(wire'["active"]) \intersect Replies = {}
  BY <1>1
<1>7. Single(x) /\ y = x
  OBVIOUS
<1>8. Clean(x) => expected = ClassPad!After(x) /\ identified /\ CommandsAre(x)
  BY DEF Clean
<1> HIDE DEF Leading, Replies, Quiets
<1> SUFFICES /\ ~identified => expected = x /\ PacketsIn(wire'["active"]) \subseteq Quiets
                                /\ \A p \in PacketsIn(wire'["passive"]) : p.type = "command" => p.id = x
             /\ \/ PacketsIn(wire'["active"]) \intersect Replies = {}
                \/ Clean(x) /\ NoneBehind(wire'["active"], Leading, Replies)
             /\ pc'["active"] \in {"open", "terminate"} => Clean(x)
  BY <1>2, <1>3, <1>5, <1>7, <1>8 DEF Single, Clean, CommandsAre, AcksAre, Quiet
<1> QED
  BY <1>1, <1>3, <1>4, <1>6, <1>7 DEF Single

LEMMA HearingKeepsActive ==
  ASSUME PadTypes, Results, "active" \in library, ActiveInv, ClassPad!Receive("active") \/ ClassPad!ReceiveReply
  PROVE  ActiveInv'
<1> USE DEF ClassPad!fixed, ClassPad!classPadVars, ClassPad!endVars, ClassPad!wireVars
<1> DEFINE p == Head(wire["active"])
           x == Used("active")
           ack == ClassPad!Packet("ack", p.id)
<1>1. /\ Wires /\ ClassPad!Ends = {"active", "passive"} /\ ClassPad!Other("active") = "passive"
      /\ wire["active"] \in Seq(ClassPad!Packets) /\ wire["passive"] \in Seq(ClassPad!Packets)
  BY WiresAreTyped, TwoEnds DEF Wires
<1>2. /\ pc \in [ClassPad!Ends -> ClassPad!Places] /\ {"reply", "open", "ended"} \subseteq ClassPad!Places
      /\ sending \in [ClassPad!Ends -> ClassPad!Packets] /\ next_id \in [ClassPad!Ends -> 0 .. Ids - 1]
      /\ terminated \in [ClassPad!Ends -> BOOLEAN] /\ irrecoverable \in [ClassPad!Ends -> BOOLEAN]
  BY DEF PadTypes, ClassPad!TypeOK, ClassPad!Places
<1>3. pc["active"] \in {"ack", "reply"} /\ HasSent("active") /\ ~terminated["active"] /\ result["active"] # "OK"
  <2>1. pc["active"] \in {"ack", "reply", "receive"}
    BY DEF ClassPad!Receive, ClassPad!Receiving, ClassPad!AnswerStart, ClassPad!ReceiveDamaged, ClassPad!ReceiveTerm,
       ClassPad!ReceiveOrder, ClassPad!ReceiveAck, ClassPad!AckTimesOut, ClassPad!ForgetCommand, ClassPad!ReceiveReply
  <2> QED
    BY <2>1 DEF ActiveInv, ActivePlaces
<1>4. /\ x \in 0 .. Ids - 1 /\ sending["active"] = ClassPad!Command(x, "discover", 0) /\ next_id["active"] = ClassPad!After(x)
      /\ sending["active"] \in ClassPad!Packets /\ sending["active"].type = "command" /\ sending["active"].subtype = "discover"
      /\ sending["active"].id = x /\ sending["active"].size = 0
      /\ (library = {"active"} => Single(x))
  <2>1. sending["active"] \in ClassPad!Packets /\ x \in 0 .. Ids - 1
    BY <1>1, <1>2, PadPackets DEF Used
  <2>2. sending["active"] = ClassPad!Command(x, "discover", 0) /\ next_id["active"] = ClassPad!After(x)
    BY <1>3 DEF ActiveInv, ActiveSends
  <2>3. sending["active"].type = "command" /\ sending["active"].subtype = "discover" /\ sending["active"].size = 0
    BY <2>2 DEF ClassPad!Command
  <2> QED
    BY <1>3, <2>1, <2>2, <2>3 DEF ActiveInv, Used
<1>5. ASSUME wire["active"] # <<>>
      PROVE  /\ p \in PacketsIn(wire["active"]) /\ p \in ClassPad!Packets /\ p.id \in 0 .. Ids - 1
             /\ ack \in ClassPad!Packets /\ ack.type = "ack"
  <2>1. p \in PacketsIn(wire["active"]) /\ p \in ClassPad!Packets /\ p.id \in 0 .. Ids - 1
    BY <1>1, <1>5, TakenFrom, PadPackets
  <2> QED
    BY <2>1, NumberedPackets DEF ClassPad!Packet
<1>6. \A ts : ClassPad!Receiving("active", ts) => wire["active"] # <<>> /\ p.type \in ts
  BY DEF ClassPad!Receiving
<1> HIDE DEF ack, p
<1>7. ASSUME UNCHANGED <<library, irrecoverable, sending, expected, identified>>,
             NEW B, Grows(wire["active"], wire'["active"], {}), Grows(wire["passive"], wire'["passive"], B),
             \A q \in B : q.type \in {"command", "ack", "established"} /\ (q.type = "command" => q.subtype = "discover" /\ q.id = x),
             pc'["passive"] = pc["passive"], pc'["active"] \in {"ack", "reply", "open", "ended"},
             pc'["active"] # "ended" => next_id'["active"] = next_id["active"],
             pc'["active"] = "open" => "passive" \notin library /\ Clean(x),
             terminated'["active"] => pc'["active"] = "ended", result'["active"] = "OK" => pc'["active"] = "open"
      PROVE  ActiveInv'
  <2>1. /\ PacketsIn(wire'["active"]) \subseteq PacketsIn(wire["active"])
        /\ PacketsIn(wire'["passive"]) \subseteq PacketsIn(wire["passive"]) \cup B
    BY <1>7 DEF Grows
  <2>2. HasSent("active")' /\ Used("active")' = x
    BY <1>3, <1>7 DEF HasSent, Used
  <2>3. library = {"active"} => Single(Used("active"))'
    <3> HIDE DEF x
    <3>1. pc["active"] \notin {"terminate", "ended"} /\ pc'["active"] # "terminate"
      BY <1>3, <1>7
    <3> QED
      BY <1>4, <1>7, <2>1, <2>2, <3>1, SingleHears
  <2> HIDE DEF x
  <2> QED
    BY <1>3, <1>4, <1>7, <2>1, <2>2, <2>3, ActiveHears
<1>8. ASSUME NEW b \in ClassPad!Packets, wire["active"] # <<>>, ClassPad!TakeAndSend("active", <<b>>)
      PROVE  Grows(wire["active"], wire'["active"], {}) /\ Grows(wire["passive"], wire'["passive"], {b})
  BY <1>1, <1>8, PadTakesGrows
<1>9. ASSUME wire["active"] # <<>>, ClassPad!Take("active")
      PROVE  Grows(wire["active"], wire'["active"], {}) /\ Grows(wire["passive"], wire'["passive"], {})
  BY <1>1, <1>9, PadTakesGrows DEF ClassPad!Take
<1>10. ASSUME NEW r, ClassPad!Fails("active", r), r # "OK"
       PROVE  pc'["active"] = "ended" /\ pc'["passive"] = pc["passive"] /\ result'["active"] # "OK"
  <2>1. ClassPad!GoTo("active", "ended", r)
    BY <1>10, TwoEnds DEF ClassPad!Fails
  <2> QED
    BY <1>1, <1>2, <1>10, <2>1, GoToIs, ResultIs
<1>11. CASE ClassPad!AnswerStart("active")
  <2>1. wire["active"] # <<>> /\ ClassPad!TakeAndSend("active", <<ClassPad!Byte("established")>>)
    BY <1>6, <1>11 DEF ClassPad!AnswerStart
  <2>2. ClassPad!Byte("established") \in ClassPad!Packets /\ ClassPad!Byte("established").type = "established"
    BY PadPackets
  <2>3. /\ UNCHANGED <<library, irrecoverable, sending, expected, identified, pc, result, next_id>> /\ ~terminated'["active"]
    BY <1>1, <1>2, <1>11 DEF ClassPad!AnswerStart
  <2>4. \A q \in {ClassPad!Byte("established")} : q.type = "established"
    BY <2>2
  <2>5. Grows(wire["active"], wire'["active"], {}) /\ Grows(wire["passive"], wire'["passive"], {ClassPad!Byte("established")})
    BY <1>8, <2>1, <2>2
  <2> QED
    BY <1>3, <1>7, <2>3, <2>4, <2>5
<1>12. CASE ClassPad!ReceiveDamaged("active")
  <2>1. Grows(wire["active"], wire'["active"], {}) /\ Grows(wire["passive"], wire'["passive"], {})
    <3>1. CASE ClassPad!Take("active")
      BY <1>6, <1>9, <1>12, <3>1 DEF ClassPad!ReceiveDamaged
    <3>2. CASE UNCHANGED wire
      BY <1>1, <3>2, GrowsBy
    <3> QED
      BY <1>12, <3>1, <3>2 DEF ClassPad!ReceiveDamaged
  <2>2. PICK r \in {"UNKNOWN", "CORRUPT", "TIMEOUT"} : ClassPad!Fails("active", r)
    BY <1>12 DEF ClassPad!ReceiveDamaged
  <2>3. pc'["active"] = "ended" /\ pc'["passive"] = pc["passive"] /\ result'["active"] # "OK"
    BY <1>10, <2>2
  <2>4. UNCHANGED <<library, irrecoverable, sending, expected, identified, terminated>>
    BY <1>12 DEF ClassPad!ReceiveDamaged
  <2> QED
    BY <1>7, <2>1, <2>3, <2>4
<1>13. ASSUME wire["active"] # <<>>, ClassPad!TakeAndSend("active", <<ack>>),
              UNCHANGED <<library, irrecoverable, sending, expected, identified, next_id>>,
              pc'["passive"] = pc["passive"], pc'["active"] \in {"ack", "reply", "open", "ended"},
              pc'["active"] = "open" => "passive" \notin library /\ Clean(x),
              terminated'["active"] => pc'["active"] = "ended", result'["active"] = "OK" => pc'["active"] = "open"
       PROVE  ActiveInv'
  <2>1. Grows(wire["active"], wire'["active"], {}) /\ Grows(wire["passive"], wire'["passive"], {ack})
    BY <1>5, <1>8, <1>13
  <2>2. \A q \in {ack} : q.type = "ack"
    BY <1>5, <1>13
  <2> QED
    BY <1>7, <1>13, <2>1, <2>2
<1>14. CASE ClassPad!ReceiveTerm("active")
  <2>1. wire["active"] # <<>> /\ ClassPad!TakeAndSend("active", <<ack>>) /\ ClassPad!Fails("active", "TERMINATED")
    BY <1>6, <1>14 DEF ClassPad!ReceiveTerm, ack, p
  <2>2. UNCHANGED <<library, irrecoverable, sending, expected, identified, next_id>>
    BY <1>14 DEF ClassPad!ReceiveTerm
  <2> QED
    BY <1>10, <1>13, <2>1, <2>2
<1>15. CASE ClassPad!ForgetCommand("active")
  <2>1. wire["active"] # <<>> /\ ClassPad!TakeAndSend("active", <<ack>>)
    BY <1>6, <1>15 DEF ClassPad!ForgetCommand, ack, p
  <2>2. UNCHANGED <<library, irrecoverable, sending, expected, identified, next_id, pc, result, terminated>>
    BY <1>15 DEF ClassPad!ForgetCommand
  <2> QED
    BY <1>3, <1>13, <2>1, <2>2
<1>16. CASE ClassPad!ReceiveReply
  <2>1. wire["active"] # <<>> /\ ClassPad!TakeAndSend("active", <<ack>>) /\ p.type \in {"command", "data"}
    BY <1>6, <1>16 DEF ClassPad!ReceiveReply, ack, p
  <2>2. UNCHANGED <<library, irrecoverable, sending, expected, identified, next_id, terminated>>
    BY <1>16 DEF ClassPad!ReceiveReply
  <2>3. CASE p.subtype = "information" /\ p.size = 49
    <3>1. ClassPad!GoTo("active", "open", "OK")
      BY <1>16, <2>3 DEF ClassPad!ReceiveReply, p
    <3>2. pc'["active"] = "open" /\ pc'["passive"] = pc["passive"]
      BY <1>1, <1>2, <3>1, GoToIs
    <3>3. "passive" \notin library
      BY <1>5, <2>1, <2>3 DEF ActiveInv, ActivePlaces
    <3>4. library = {"active"}
      BY <1>1, <3>3 DEF PadTypes
    <3>5. p \in Replies /\ p \in PacketsIn(wire["active"])
      BY <1>5, <2>1 DEF Replies
    <3>6. Clean(x)
      BY <1>4, <3>4, <3>5 DEF Single
    <3> QED
      BY <1>3, <1>13, <2>1, <2>2, <3>2, <3>3, <3>6
  <2>4. CASE ~(p.subtype = "information" /\ p.size = 49)
    <3>1. ClassPad!Fails("active", "UNKNOWN")
      BY <1>16, <2>4 DEF ClassPad!ReceiveReply, p
    <3> QED
      BY <1>10, <1>13, <2>1, <2>2, <3>1
  <2> QED
    BY <2>3, <2>4
<1>17. CASE ClassPad!ReceiveAck("active")
  <2>1. Grows(wire["active"], wire'["active"], {}) /\ Grows(wire["passive"], wire'["passive"], {})
    BY <1>6, <1>9, <1>17 DEF ClassPad!ReceiveAck
  <2>2. UNCHANGED <<library, irrecoverable, sending, expected, identified, next_id, terminated>>
    BY <1>17 DEF ClassPad!ReceiveAck
  <2>3. CASE ClassPad!CommandSent("active")
    <3>1. ClassPad!GoTo("active", "reply", "none")
      BY <2>3, TwoEnds DEF ClassPad!CommandSent
    <3>2. pc'["active"] = "reply" /\ pc'["passive"] = pc["passive"] /\ result'["active"] = "none"
      BY <1>1, <1>2, <3>1, GoToIs, ResultIs
    <3> QED
      BY <1>3, <1>7, <2>1, <2>2, <3>2
  <2>4. CASE UNCHANGED <<pc, result>>
    BY <1>3, <1>7, <2>1, <2>2, <2>4
  <2>5. CASE ClassPad!Fails("active", "UNKNOWN")
    <3>1. pc'["active"] = "ended" /\ pc'["passive"] = pc["passive"] /\ result'["active"] # "OK"
      BY <1>10, <2>5
    <3> QED
      BY <1>7, <2>1, <2>2, <3>1
  <2> QED
    BY <1>17, <2>3, <2>4, <2>5 DEF ClassPad!ReceiveAck
<1>18. CASE ClassPad!AckTimesOut("active")
  <2>1. ClassPad!Send("active", <<sending["active"]>>)
    BY <1>18 DEF ClassPad!AckTimesOut
  <2>2. {sending["active"]} \in SUBSET ClassPad!Packets /\ \E b \in {sending["active"]} : <<sending["active"]>> = <<b>>
    BY <1>4
  <2>3. Grows(wire["active"], wire'["active"], {}) /\ Grows(wire["passive"], wire'["passive"], {sending["active"]})
    BY <1>1, <2>1, <2>2, PadSendsGrows
  <2>4. UNCHANGED <<library, irrecoverable, sending, expected, identified, next_id, terminated, pc, result>>
    BY <1>18 DEF ClassPad!AckTimesOut
  <2>5. \A q \in {sending["active"]} : q.type = "command" /\ q.subtype = "discover" /\ q.id = x
    BY <1>4
  <2> QED
    BY <1>3, <1>7, <2>3, <2>4, <2>5
<1>19. CASE ClassPad!ReceiveOrder("active")
  <2>1. wire["active"] # <<>> /\ p.type = "order"
    BY <1>6, <1>19 DEF ClassPad!ReceiveOrder
  <2>2. UNCHANGED <<library, irrecoverable, expected, identified, terminated>>
    BY <1>19 DEF ClassPad!ReceiveOrder
  <2>3. CASE pc["active"] = "ack"
    <3> DEFINE c == ClassPad!Command(p.id, "discover", 0)
    <3>1. /\ next_id' = [next_id EXCEPT !["active"] = ClassPad!After(p.id)] /\ sending' = [sending EXCEPT !["active"] = c]
          /\ ClassPad!TakeAndSend("active", <<sending'["active"]>>) /\ UNCHANGED <<pc, result>>
      BY <1>4, <1>19, <2>3 DEF ClassPad!ReceiveOrder, ClassPad!SendNumbered, p
    <3>2. c \in ClassPad!Packets /\ c.type = "command" /\ c.id = p.id /\ c.subtype = "discover"
      BY <1>5, <2>1, NumberedPackets DEF ClassPad!Command
    <3>3. /\ sending'["active"] = c /\ sending'["passive"] = sending["passive"]
          /\ next_id'["active"] = ClassPad!After(p.id)
      BY <1>1, <1>2, <3>1
    <3> HIDE DEF c
    <3>4. HasSent("active")' /\ Used("active")' = p.id
      BY <3>2, <3>3 DEF HasSent, Used
    <3>5. Grows(wire["active"], wire'["active"], {}) /\ Grows(wire["passive"], wire'["passive"], {c}) /\ wire'["active"] = Tail(wire["active"])
      <4>1. ClassPad!TakeAndSend("active", <<c>>)
        BY <3>1, <3>3
      <4> QED
        BY <1>1, <2>1, <3>2, <4>1, PadTakesGrows
    <3>6. /\ PacketsIn(wire'["active"]) \subseteq PacketsIn(wire["active"])
          /\ PacketsIn(wire'["passive"]) \subseteq PacketsIn(wire["passive"]) \cup {c}
      BY <3>5 DEF Grows
    <3>7. ASSUME library = {"active"} PROVE Single(Used("active"))'
      <4>1. Single(x) /\ p \in Leading /\ p \notin Quiets
        BY <1>4, <1>5, <2>1, <3>7 DEF Leading, Quiets, ClassPad!Bytes
      <4>2. identified
        BY <1>5, <2>1, <4>1 DEF Single, Quiet
      <4>3. PacketsIn(wire'["active"]) \intersect Replies = {}
        <5>1. CASE PacketsIn(wire["active"]) \intersect Replies = {}
          BY <3>6, <5>1
        <5>2. CASE NoneBehind(wire["active"], Leading, Replies)
          BY <1>1, <2>1, <3>5, <4>1, <5>2, TakenFrom DEF p
        <5> QED
          BY <4>1, <5>1, <5>2 DEF Single
      <4>4. pc'["active"] = "ack" /\ identified'
        BY <2>2, <2>3, <3>1, <4>2
      <4> QED
        BY <4>3, <4>4 DEF Single, Replies
    <3>8. sending'["active"] = ClassPad!Command(Used("active")', "discover", 0) /\ next_id'["active"] = ClassPad!After(Used("active")')
      BY <3>3, <3>4 DEF c
    <3>9. \A q \in {c} : q.type = "command" /\ q.subtype = "discover"
      BY <3>2
    <3>10. pc'["passive"] = pc["passive"] /\ pc'["active"] = "ack" /\ ~terminated'["active"] /\ result'["active"] # "OK"
      BY <1>3, <2>2, <2>3, <3>1
    <3>11. \A q \in {c} : q.type \in {"command", "ack", "established"} /\ (q.type = "command" => q.subtype = "discover")
      BY <3>9
    <3>12. pc'["active"] \in {"ack", "reply", "open", "ended"} /\ pc'["active"] # "open"
      BY <3>10
    <3>13. pc["active"] \in {"ack", "reply"} /\ HasSent("active") /\ UNCHANGED <<library, irrecoverable>>
      BY <1>3, <2>2
    <3>14. library = {"active"} => Single(Used("active"))'
      BY <3>7
    <3> DEFINE B == {c}
    <3>15. PacketsIn(wire'["passive"]) \subseteq PacketsIn(wire["passive"]) \cup B
      BY <3>6
    <3>16. \A q \in B : q.type \in {"command", "ack", "established"} /\ (q.type = "command" => q.subtype = "discover")
      BY <3>11
    <3> HIDE DEF x, B
    <3> QED
      BY <3>3, <3>4, <3>6, <3>8, <3>10, <3>12, <3>13, <3>14, <3>15, <3>16, ActiveHears
  <2>4. CASE pc["active"] # "ack"
    <3>1. ClassPad!Take("active") /\ ClassPad!Fails("active", "UNKNOWN") /\ UNCHANGED sending
      BY <1>19, <2>4 DEF ClassPad!ReceiveOrder
    <3>2. pc'["active"] = "ended" /\ pc'["passive"] = pc["passive"] /\ result'["active"] # "OK"
      BY <1>10, <3>1
    <3>3. Grows(wire["active"], wire'["active"], {}) /\ Grows(wire["passive"], wire'["passive"], {})
      BY <1>9, <2>1, <3>1
    <3> QED
      BY <1>7, <2>2, <3>1, <3>2, <3>3
  <2> QED
    BY <2>3, <2>4
<1> QED
  BY <1>11, <1>12, <1>14, <1>15, <1>16, <1>17, <1>18, <1>19 DEF ClassPad!Receive

(* What it does before it has sent its command, and the first command.     *)
LEMMA ActiveOpens ==
  ASSUME ActiveInv, ~HasSent("active"), pc["active"] \in {"closed", "start", "start_nul"},
         UNCHANGED <<library, irrecoverable, terminated, identified>>,
         NEW B, Grows(wire["active"], wire'["active"], {}), PacketsIn(wire'["passive"]) \subseteq PacketsIn(wire["passive"]) \cup B,
         pc'["passive"] # "ack", sending'["passive"] = sending["passive"],
         \/ /\ ~HasSent("active")' /\ pc'["active"] \in {"start", "start_nul", "open", "ended"}
            /\ next_id'["active"] = next_id["active"] /\ expected' = expected
            /\ \A p \in B : p.type = "start"
            /\ result'["active"] = "OK" => pc'["active"] = "open"
         \/ /\ HasSent("active")' /\ pc'["active"] = "ack" /\ result'["active"] # "OK" /\ expected' = Used("active")'
            /\ next_id'["active"] = ClassPad!After(Used("active")')
            /\ sending'["active"] = ClassPad!Command(Used("active")', "discover", 0)
            /\ \A p \in B : p.type = "command" /\ p.subtype = "discover" /\ p.id = Used("active")'
  PROVE  ActiveInv'
<1>1. /\ \A p \in PacketsIn(wire'["passive"]) : p \in PacketsIn(wire["passive"]) \/ p \in B
      /\ PacketsIn(wire'["active"]) \subseteq PacketsIn(wire["active"])
  BY DEF Grows
<1>2. ~terminated["active"] /\ ~identified /\ Quiet /\ next_id["active"] = 0 /\ expected = 0
      /\ \A p \in PacketsIn(wire["passive"]) : p.type \in {"start", "ack", "damaged", "established"}
  BY DEF ActiveInv, ActivePlaces, ActiveSends
<1>3. Quiet'
  BY <1>1, <1>2 DEF Quiet, Quiets
<1>4. ActivePlaces'
  <2>1. "passive" \in library => \A p \in PacketsIn(wire'["active"]) : p.size # 49
    BY <1>1 DEF ActiveInv, ActivePlaces
  <2> QED
    BY <1>2, <2>1 DEF ActiveInv, ActivePlaces
<1>5. CASE /\ ~HasSent("active")' /\ pc'["active"] \in {"start", "start_nul", "open", "ended"}
           /\ next_id'["active"] = next_id["active"] /\ expected' = expected
           /\ \A p \in B : p.type = "start"
           /\ result'["active"] = "OK" => pc'["active"] = "open"
  <2>1. \A p \in PacketsIn(wire'["passive"]) : p.type \in {"start", "ack", "damaged", "established"}
    BY <1>1, <1>2, <1>5
  <2>2. ActiveSends'
    BY <1>2, <1>3, <1>5, <2>1 DEF ActiveSends
  <2>3. ActiveEnds'
    BY <1>5 DEF ActiveEnds
  <2> QED
    BY <1>4, <1>5, <2>2, <2>3 DEF ActiveInv
<1>6. CASE /\ HasSent("active")' /\ pc'["active"] = "ack" /\ result'["active"] # "OK" /\ expected' = Used("active")'
           /\ next_id'["active"] = ClassPad!After(Used("active")')
           /\ sending'["active"] = ClassPad!Command(Used("active")', "discover", 0)
           /\ \A p \in B : p.type = "command" /\ p.subtype = "discover" /\ p.id = Used("active")'
  <2>1. \A p \in PacketsIn(wire'["passive"]) : p.type \in {"start", "ack", "damaged", "established"} \/ p \in B
    BY <1>1, <1>2
  <2>2. ActiveSends'
    BY <1>6, <2>1 DEF ActiveSends
  <2>3. ActiveEnds'
    BY <1>6 DEF ActiveEnds
  <2>4. \A p \in PacketsIn(wire'["passive"]) : p.type = "command" => p.id = Used("active")'
    BY <1>6, <2>1
  <2>5. (PacketsIn(wire["active"]) \intersect Replies = {})'
    BY <1>3 DEF Quiet, Quiets, Replies, ClassPad!Bytes
  <2>6. Single(Used("active"))'
    <3>1. CommandsAre(Used("active"))'
      BY <2>4 DEF CommandsAre
    <3> QED
      BY <1>3, <1>6, <2>5, <3>1 DEF Single
  <2> QED
    BY <1>4, <2>2, <2>3, <2>6 DEF ActiveInv
<1> QED
  BY <1>5, <1>6

LEMMA OpeningKeepsActive ==
  ASSUME PadTypes, Results, "active" \in library, ActiveInv,
         \/ ClassPad!BeginInitiate \/ ClassPad!Detected
         \/ ClassPad!InitTimesOut \/ ClassPad!InitNotice \/ ClassPad!InitNul \/ ClassPad!Initiated
  PROVE  ActiveInv'
<1> USE DEF ClassPad!fixed, ClassPad!classPadVars, ClassPad!endVars, ClassPad!wireVars
<1> DEFINE start == ClassPad!Byte("start")
<1>1. /\ Wires /\ ClassPad!Ends = {"active", "passive"} /\ ClassPad!Other("active") = "passive"
      /\ wire["active"] \in Seq(ClassPad!Packets) /\ wire["passive"] \in Seq(ClassPad!Packets)
  BY WiresAreTyped, TwoEnds DEF Wires
<1>2. /\ pc \in [ClassPad!Ends -> ClassPad!Places] /\ {"start", "start_nul", "ack", "open", "ended"} \subseteq ClassPad!Places
      /\ sending \in [ClassPad!Ends -> ClassPad!Packets] /\ next_id \in [ClassPad!Ends -> 0 .. Ids - 1]
  BY DEF PadTypes, ClassPad!TypeOK, ClassPad!Places
<1>3. pc["active"] \in {"closed", "start", "start_nul"}
  BY <1>1 DEF ClassPad!BeginInitiate, ClassPad!Detected, ClassPad!InitTimesOut, ClassPad!InitNotice, ClassPad!InitNul, ClassPad!Initiated
<1>4. ~HasSent("active") /\ pc["passive"] # "ack" /\ result["active"] # "OK" /\ next_id["active"] = 0 /\ expected = 0
  BY <1>3 DEF ActiveInv, ActivePlaces, ActiveSends
<1>5. start \in ClassPad!Packets /\ start.type = "start"
  BY PadPackets
<1> HIDE DEF start
<1>6. UNCHANGED <<library, irrecoverable, terminated, identified>>
  BY DEF ClassPad!BeginInitiate, ClassPad!Detected, ClassPad!InitTimesOut, ClassPad!InitNotice, ClassPad!InitNul, ClassPad!Initiated
<1>7. ASSUME NEW place \in {"start", "start_nul", "open", "ended"}, NEW r, ClassPad!GoTo("active", place, r), r = "OK" => place = "open",
             UNCHANGED <<sending, next_id, expected>>,
             Grows(wire["active"], wire'["active"], {}), Grows(wire["passive"], wire'["passive"], {start})
      PROVE  ActiveInv'
  <2>1. /\ pc'["active"] = place /\ pc'["passive"] = pc["passive"] /\ result'["active"] = r
    BY <1>1, <1>2, <1>7, GoToIs, ResultIs
  <2>2. ~HasSent("active")'
    BY <1>4, <1>7 DEF HasSent
  <2> DEFINE B == {start}
  <2>3. \A p \in B : p.type = "start"
    BY <1>5
  <2>4. PacketsIn(wire'["passive"]) \subseteq PacketsIn(wire["passive"]) \cup B
    BY <1>7 DEF Grows
  <2>5. pc'["active"] \in {"start", "start_nul", "open", "ended"} /\ pc'["passive"] # "ack" /\ (result'["active"] = "OK" => pc'["active"] = "open")
    BY <1>4, <1>7, <2>1
  <2> HIDE DEF B
  <2> QED
    BY <1>3, <1>4, <1>6, <1>7, <2>2, <2>3, <2>4, <2>5, ActiveOpens
<1>8. ASSUME NEW id \in 0 .. Ids - 1, expected' = id,
             next_id' = [next_id EXCEPT !["active"] = ClassPad!After(id)],
             sending' = [sending EXCEPT !["active"] = ClassPad!Command(id, "discover", 0)],
             Grows(wire["active"], wire'["active"], {}), Grows(wire["passive"], wire'["passive"], {sending'["active"]}),
             pc'["active"] = "ack", pc'["passive"] # "ack", result'["active"] # "OK"
      PROVE  ActiveInv'
  <2> DEFINE c == ClassPad!Command(id, "discover", 0)
             B == {c}
  <2>1. c.type = "command" /\ c.id = id /\ c.subtype = "discover"
    BY DEF ClassPad!Command
  <2>2. sending'["active"] = c /\ sending'["passive"] = sending["passive"] /\ next_id'["active"] = ClassPad!After(id)
    BY <1>1, <1>2, <1>8
  <2>3. PacketsIn(wire'["passive"]) \subseteq PacketsIn(wire["passive"]) \cup B
    BY <1>8, <2>2 DEF Grows
  <2> HIDE DEF c
  <2>4. HasSent("active")' /\ Used("active")' = id
    BY <2>1, <2>2 DEF HasSent, Used
  <2>5. \A p \in B : p.type = "command" /\ p.subtype = "discover" /\ p.id = Used("active")'
    BY <2>1, <2>4
  <2>6. /\ next_id'["active"] = ClassPad!After(Used("active")') /\ expected' = Used("active")'
        /\ sending'["active"] = ClassPad!Command(Used("active")', "discover", 0)
    BY <1>8, <2>2, <2>4 DEF c
  <2> HIDE DEF B
  <2> QED
    BY <1>3, <1>4, <1>6, <1>8, <2>2, <2>3, <2>4, <2>5, <2>6, ActiveOpens
<1>9. ASSUME wire["active"] # <<>>, NEW ps \in {<<>>, <<start>>}, ClassPad!TakeAndSend("active", ps)
      PROVE  Grows(wire["active"], wire'["active"], {}) /\ Grows(wire["passive"], wire'["passive"], {start})
  <2>1. {start} \in SUBSET ClassPad!Packets /\ (ps = <<>> \/ \E b \in {start} : ps = <<b>>)
    BY <1>5
  <2> QED
    BY <1>1, <1>9, <2>1, PadTakesGrows
<1>10. ASSUME NEW ps \in {<<>>, <<start>>}, ClassPad!Send("active", ps)
       PROVE  Grows(wire["active"], wire'["active"], {}) /\ Grows(wire["passive"], wire'["passive"], {start})
  <2>1. {start} \in SUBSET ClassPad!Packets /\ (ps = <<>> \/ \E b \in {start} : ps = <<b>>)
    BY <1>5
  <2> QED
    BY <1>1, <1>10, <2>1, PadSendsGrows
<1>11. CASE ClassPad!BeginInitiate
  <2>1. ClassPad!GoTo("active", "start", "none") /\ ClassPad!Send("active", <<start>>) /\ UNCHANGED <<sending, next_id, expected>>
    BY <1>11 DEF ClassPad!BeginInitiate, start
  <2>2. <<start>> \in {<<>>, <<start>>}
    OBVIOUS
  <2> QED
    BY <1>7, <1>10, <2>1, <2>2
<1>12. ASSUME ClassPad!NextAttempt
       PROVE  \E place \in {"start", "start_nul", "open", "ended"} : \E r : ClassPad!GoTo("active", place, r) /\ r # "OK"
  BY <1>12 DEF ClassPad!NextAttempt
<1>13. (IF attempts > 1 THEN <<start>> ELSE <<>>) \in {<<>>, <<start>>}
  OBVIOUS
<1>14. CASE ClassPad!InitTimesOut
  <2>1. ClassPad!NextAttempt /\ ClassPad!Send("active", IF attempts > 1 THEN <<start>> ELSE <<>>) /\ UNCHANGED <<sending, next_id, expected>>
    BY <1>14 DEF ClassPad!InitTimesOut, start
  <2> QED
    BY <1>7, <1>10, <1>12, <1>13, <2>1
<1>15. CASE ClassPad!InitNotice
  <2>1. /\ wire["active"] # <<>> /\ ClassPad!NextAttempt
        /\ ClassPad!TakeAndSend("active", IF attempts > 1 THEN <<start>> ELSE <<>>) /\ UNCHANGED <<sending, next_id, expected>>
    BY <1>15 DEF ClassPad!InitNotice, start
  <2> QED
    BY <1>7, <1>9, <1>12, <1>13, <2>1
<1>16. CASE ClassPad!InitNul
  <2>1. /\ wire["active"] # <<>> /\ ClassPad!GoTo("active", "start_nul", "none")
        /\ ClassPad!TakeAndSend("active", <<>>) /\ UNCHANGED <<sending, next_id, expected>>
    BY <1>16 DEF ClassPad!InitNul, ClassPad!Take
  <2> QED
    BY <1>7, <1>9, <2>1
<1>17. CASE ClassPad!Initiated
  <2>1. CASE discover
    <3>1. /\ wire["active"] # <<>> /\ ClassPad!SendNumbered("active", next_id["active"], "discover", 0)
          /\ ClassPad!TakeAndSend("active", <<sending'["active"]>>) /\ ClassPad!GoTo("active", "ack", "none") /\ expected' = expected
      BY <1>17, <2>1 DEF ClassPad!Initiated
    <3>2. next_id["active"] \in 0 .. Ids - 1 /\ expected' = next_id["active"]
      BY <1>1, <1>2, <1>4, <3>1
    <3>3. /\ next_id' = [next_id EXCEPT !["active"] = ClassPad!After(next_id["active"])]
          /\ sending' = [sending EXCEPT !["active"] = ClassPad!Command(next_id["active"], "discover", 0)]
      BY <3>1 DEF ClassPad!SendNumbered
    <3>4. sending'["active"] \in ClassPad!Packets
      BY <1>1, <1>2, <3>2, <3>3, NumberedPackets
    <3>5. Grows(wire["active"], wire'["active"], {}) /\ Grows(wire["passive"], wire'["passive"], {sending'["active"]})
      <4> DEFINE s == sending'["active"]
      <4> HIDE DEF s
      <4>1. s \in ClassPad!Packets /\ ClassPad!TakeAndSend("active", <<s>>)
        BY <3>1, <3>4 DEF s
      <4>2. {s} \in SUBSET ClassPad!Packets /\ \E b \in {s} : <<s>> = <<b>>
        BY <4>1
      <4>3. Grows(wire["active"], wire'["active"], {}) /\ Grows(wire["passive"], wire'["passive"], {s})
        BY <1>1, <3>1, <4>1, <4>2, PadTakesGrows
      <4> QED
        BY <4>3 DEF s
    <3>6. pc'["active"] = "ack" /\ pc'["passive"] = pc["passive"] /\ result'["active"] = "none"
      BY <1>1, <1>2, <3>1, GoToIs, ResultIs
    <3> QED
      BY <1>4, <1>8, <3>2, <3>3, <3>5, <3>6
  <2>2. CASE ~discover
    <3>1. /\ wire["active"] # <<>> /\ ClassPad!GoTo("active", "open", "OK")
          /\ ClassPad!TakeAndSend("active", <<>>) /\ UNCHANGED <<sending, next_id, expected>>
      BY <1>17, <2>2 DEF ClassPad!Initiated, ClassPad!Take
    <3> QED
      BY <1>7, <1>9, <3>1
  <2> QED
    BY <2>1, <2>2
<1>18. CASE ClassPad!Detected
  <2>1. PICK id \in 1 .. Ids - 1 : expected' = id /\ ClassPad!SendNumbered("active", id, "discover", 0)
    BY <1>18 DEF ClassPad!Detected
  <2>2. id \in 0 .. Ids - 1
    OBVIOUS
  <2>3. /\ next_id' = [next_id EXCEPT !["active"] = ClassPad!After(id)]
        /\ sending' = [sending EXCEPT !["active"] = ClassPad!Command(id, "discover", 0)]
    BY <2>1 DEF ClassPad!SendNumbered
  <2>4. Grows(wire["active"], wire'["active"], {}) /\ Grows(wire["passive"], wire'["passive"], {sending'["active"]})
    <3> DEFINE s == sending'["active"]
    <3>1. s \in ClassPad!Packets
      BY <1>1, <1>2, <2>2, <2>3, NumberedPackets
    <3> HIDE DEF s
    <3>2. ClassPad!Send("active", <<s>>)
      BY <1>18 DEF ClassPad!Detected, s
    <3>3. {s} \in SUBSET ClassPad!Packets /\ \E b \in {s} : <<s>> = <<b>>
      BY <3>1
    <3>4. Grows(wire["active"], wire'["active"], {}) /\ Grows(wire["passive"], wire'["passive"], {s})
      BY <1>1, <3>2, <3>3, PadSendsGrows
    <3> QED
      BY <3>4 DEF s
  <2>5. pc'["active"] = "ack" /\ pc'["passive"] = "receive" /\ result' = result
    BY <1>1, <1>2, <1>18 DEF ClassPad!Detected
  <2> QED
    BY <1>4, <1>8, <2>1, <2>2, <2>3, <2>4, <2>5
<1> QED
  BY <1>11, <1>14, <1>15, <1>16, <1>17, <1>18

(* The termination, that the active end sends when it closes.              *)
LEMMA ClosingKeepsActive ==
  ASSUME PadTypes, Results, "active" \in library, ActiveInv, ClassPad!CloseActive
  PROVE  ActiveInv'
<1> USE DEF ClassPad!fixed, ClassPad!classPadVars
<1> DEFINE term == ClassPad!Packet("term", next_id["active"])
           x == Used("active")
           B == {term}
<1>1. /\ Wires /\ ClassPad!Ends = {"active", "passive"} /\ ClassPad!Other("active") = "passive"
      /\ wire["active"] \in Seq(ClassPad!Packets) /\ wire["passive"] \in Seq(ClassPad!Packets)
  BY WiresAreTyped, TwoEnds DEF Wires
<1>2. /\ pc \in [ClassPad!Ends -> ClassPad!Places] /\ "terminate" \in ClassPad!Places
      /\ sending \in [ClassPad!Ends -> ClassPad!Packets] /\ next_id["active"] \in 0 .. Ids - 1
  BY <1>1 DEF PadTypes, ClassPad!TypeOK, ClassPad!Places
<1>3. pc["active"] = "open" /\ ~terminated["active"] /\ ~irrecoverable["active"]
  BY DEF ActiveInv, ActivePlaces, ClassPad!CloseActive
<1>4. ClassPad!GoTo("active", "terminate", "none") /\ ClassPad!Send("active", <<term>>)
  BY <1>3 DEF ClassPad!CloseActive
<1>5. UNCHANGED <<library, next_id, sending, terminated, irrecoverable, expected, identified>>
  BY DEF ClassPad!CloseActive
<1>6. pc'["active"] = "terminate" /\ pc'["passive"] = pc["passive"] /\ result'["active"] = "none"
  BY <1>1, <1>2, <1>4, GoToIs, ResultIs
<1>7. term \in ClassPad!Packets /\ term.type = "term"
  BY <1>2, NumberedPackets DEF ClassPad!Packet
<1>8. /\ \A p \in PacketsIn(wire["passive"]) : p.type # "term"
      /\ HasSent("active") => library = {"active"} /\ next_id["active"] = ClassPad!After(x) /\ Single(x) /\ Clean(x)
      /\ ~HasSent("active") => Quiet
  <2>1. HasSent("active") => library = {"active"}
    BY <1>1, <1>3 DEF ActiveInv, ActivePlaces, PadTypes
  <2> QED
    BY <1>3, <2>1 DEF ActiveInv, ActiveSends, Single
<1>9. HasSent("active") => ClassPad!After(x) # x
  BY <1>1, <1>2, PadPackets, NextIdentifier DEF Used
<1>10. \A p \in PacketsIn(wire["active"]) : p.type = "ack" => p.id # next_id["active"]
  <2>1. CASE HasSent("active")
    BY <1>3, <1>8, <1>9, <2>1 DEF Clean, AcksAre
  <2>2. CASE ~HasSent("active")
    BY <1>8, <2>2 DEF Quiet, Quiets, ClassPad!Bytes
  <2> QED
    BY <2>1, <2>2
<1> HIDE DEF term
<1>11. /\ wire'["active"] = wire["active"]
       /\ wire'["passive"] \in {wire["passive"], wire["passive"] \o <<term>>}
       /\ PacketsIn(wire'["passive"]) \subseteq PacketsIn(wire["passive"]) \cup B
  <2>1. <<term>> \in Seq(ClassPad!Packets) /\ B \in SUBSET ClassPad!Packets /\ \E b \in B : <<term>> = <<b>>
    BY <1>7
  <2>2. wire'["active"] = wire["active"] /\ wire'["passive"] \in {wire["passive"], wire["passive"] \o <<term>>}
    BY <1>1, <1>4, <2>1, PadSends
  <2> HIDE DEF B
  <2>3. PacketsIn(wire'["passive"]) \subseteq PacketsIn(wire["passive"]) \cup B
    BY <1>1, <1>4, <2>1, PadSendsGrows DEF Grows
  <2> QED
    BY <2>2, <2>3
<1>12. \A p \in PacketsIn(wire'["passive"]) : p \in PacketsIn(wire["passive"]) \/ p.type = "term"
  BY <1>7, <1>11
<1>13. HasSent("active")' = HasSent("active") /\ x' = x
  BY <1>5 DEF HasSent, Used
<1>14. NoneBehind(wire'["passive"], Terms, ClassPad!Packets)
  <2>1. \A p \in PacketsIn(wire["passive"]) : p \notin Terms
    BY <1>8 DEF Terms
  <2>2. NoneBehind(wire["passive"], Terms, ClassPad!Packets)
    BY <2>1, NoneOfThem
  <2>3. NoneBehind(wire["passive"] \o <<term>>, Terms, ClassPad!Packets)
    BY <1>1, <1>7, <2>1, <2>2, SentTo
  <2> QED
    BY <1>11, <2>2, <2>3
<1>15. ActivePlaces'
  BY <1>3, <1>5, <1>6, <1>11, <1>13 DEF ActiveInv, ActivePlaces
<1>16. ActiveSends'
  BY <1>3, <1>5, <1>6, <1>12, <1>13 DEF ActiveInv, ActiveSends
<1>17. ActiveEnds'
  <2>1. Terms' = Terms
    BY DEF Terms
  <2> QED
    BY <1>5, <1>6, <1>10, <1>11, <1>14, <2>1 DEF ActiveEnds
<1>18. HasSent("active") => Single(x)'
  <2> SUFFICES ASSUME HasSent("active") PROVE Single(x)'
    OBVIOUS
  <2>1. Clean(x) /\ Single(x) /\ pc'["active"] = "terminate" /\ x' = x
    BY <1>6, <1>8, <1>13
  <2>2. \A p \in B : p.type = "command" => p.id = x
    BY <1>7
  <2>3. Grows(wire["active"], wire'["active"], {})
    BY <1>1, <1>11, GrowsBy
  <2> HIDE DEF x, B
  <2> QED
    BY <1>5, <1>11, <2>1, <2>2, <2>3, SingleHears
<1> QED
  BY <1>5, <1>8, <1>13, <1>15, <1>16, <1>17, <1>18 DEF ActiveInv

LEMMA EndingKeepsActive ==
  ASSUME PadTypes, Results, "active" \in library, ActiveInv, ClassPad!TerminationAnswered
  PROVE  ActiveInv'
<1> USE DEF ClassPad!fixed, ClassPad!classPadVars
<1> DEFINE p == Head(wire["active"])
           x == Used("active")
<1>1. /\ Wires /\ ClassPad!Ends = {"active", "passive"} /\ ClassPad!Other("active") = "passive"
      /\ wire["active"] \in Seq(ClassPad!Packets) /\ wire["passive"] \in Seq(ClassPad!Packets)
  BY WiresAreTyped, TwoEnds DEF Wires
<1>2. /\ pc \in [ClassPad!Ends -> ClassPad!Places] /\ "ended" \in ClassPad!Places
      /\ terminated \in [ClassPad!Ends -> BOOLEAN]
  BY <1>1 DEF PadTypes, ClassPad!TypeOK, ClassPad!Places
<1>3. pc["active"] = "terminate" /\ wire["active"] # <<>>
  <2>1. Len(wire["active"]) # 0
    BY <1>1 DEF ClassPad!TerminationAnswered, ClassPad!ThreeBytes
  <2> QED
    BY <1>1, <2>1 DEF ClassPad!TerminationAnswered
<1>4. p \in PacketsIn(wire["active"])
  BY <1>1, <1>3, TakenFrom
<1>5. Grows(wire["active"], wire'["active"], {}) /\ Grows(wire["passive"], wire'["passive"], {})
  BY <1>1, <1>3, PadTakesGrows DEF ClassPad!TerminationAnswered, ClassPad!Take
<1>6. /\ PacketsIn(wire'["active"]) \subseteq PacketsIn(wire["active"])
      /\ PacketsIn(wire'["passive"]) \subseteq PacketsIn(wire["passive"]) \cup {}
  BY <1>5 DEF Grows
<1>7. UNCHANGED <<library, next_id, sending, irrecoverable, expected, identified>> /\ terminated'["passive"] = terminated["passive"]
  BY <1>1, <1>2 DEF ClassPad!TerminationAnswered
<1>8. \E r : ClassPad!GoTo("active", "ended", r) /\ (r = "OK" => p.type = "ack" /\ p.id = next_id["active"])
  BY DEF ClassPad!TerminationAnswered, ClassPad!Terminates
<1>9. /\ pc'["active"] = "ended" /\ pc'["passive"] = pc["passive"]
      /\ result'["active"] = "OK" => p.type = "ack" /\ p.id = next_id["active"]
  BY <1>1, <1>2, <1>8, GoToIs, ResultIs
<1> HIDE DEF p
<1>10. result'["active"] = "OK" => Over'
  <2>1. result'["active"] = "OK" => Over
    BY <1>3, <1>4, <1>9 DEF ActiveInv, ActiveEnds
  <2>2. Over => Over'
    BY <1>6, <1>7 DEF Over
  <2> QED
    BY <2>1, <2>2
<1>11. HasSent("active")' = HasSent("active") /\ x' = x
  BY <1>7 DEF HasSent, Used
<1>12. ActivePlaces'
  BY <1>3, <1>6, <1>7, <1>9, <1>11 DEF ActiveInv, ActivePlaces
<1>13. ActiveSends'
  <2>1. \A q \in PacketsIn(wire'["passive"]) : q \in PacketsIn(wire["passive"])
    BY <1>6
  <2> QED
    BY <1>7, <1>9, <1>11, <2>1 DEF ActiveInv, ActiveSends
<1>14. ActiveEnds'
  BY <1>9, <1>10 DEF ActiveEnds
<1>15. library = {"active"} /\ HasSent("active") => Single(x)'
  <2> SUFFICES ASSUME library = {"active"}, HasSent("active") PROVE Single(x)'
    OBVIOUS
  <2>1. Single(x) /\ pc'["active"] = "ended" /\ x' = x
    BY <1>9, <1>11 DEF ActiveInv
  <2> DEFINE B == {}
  <2>2. PacketsIn(wire'["passive"]) \subseteq PacketsIn(wire["passive"]) \cup B /\ \A q \in B : q.type = "command" => q.id = x
    BY <1>6
  <2> HIDE DEF x, B
  <2> QED
    BY <1>5, <1>7, <2>1, <2>2, SingleHears
<1> QED
  BY <1>7, <1>11, <1>12, <1>13, <1>14, <1>15 DEF ActiveInv

(* Every step of a session whose active end is run by the library.         *)
LEMMA StepKeepsActive ==
  ASSUME PadTypes, Results, "active" \in library, ActiveInv, ClassPad!Next
  PROVE  ActiveInv'
<1>1. CASE ClassPad!Active
  BY <1>1, OpeningKeepsActive, HearingKeepsActive, EndingKeepsActive DEF ClassPad!Active
<1>2. CASE ClassPad!Passive
  BY <1>2, LibraryKeepsActive
<1>3. CASE ClassPad!Device
  <2>1. PICK e \in ClassPad!Ends : ClassPad!ClassPadStarted \/ ClassPad!ClassPadCommand(e) \/ ClassPad!ClassPadTakes(e)
    BY <1>3, TwoEnds DEF ClassPad!Device, ClassPad!ClassPad
  <2>2. ClassPad!ClassPadStarted \/ e = "passive"
    BY <2>1, TwoEnds DEF ClassPad!ClassPadCommand, ClassPad!ClassPadTakes
  <2> QED
    BY <2>1, <2>2, DeviceKeepsActive, CommandKeepsActive
<1>4. CASE ClassPad!Program
  <2>1. ClassPad!BeginInitiate \/ ClassPad!Detected => ActiveInv'
    BY OpeningKeepsActive
  <2>2. ClassPad!BeginReceive \/ ClassPad!CallReceive \/ ClassPad!ClosePassive => ActiveInv'
    BY CallsKeepActive
  <2> QED
    BY <1>4, <2>1, <2>2, ClosingKeepsActive DEF ClassPad!Program
<1>5. CASE ClassPad!Lose \/ ClassPad!Damage
  BY <1>5, CallsKeepActive
<1>6. ~ClassPad!ClassPadGives
  BY DEF ClassPad!ClassPadGives
<1> QED
  BY <1>1, <1>2, <1>3, <1>4, <1>5, <1>6 DEF ClassPad!Next

(* The configuration of a session is fixed, and a packet that was damaged  *)
(* stays counted.                                                          *)
LEMMA SessionIsFixed ==
  ASSUME PadTypes, ClassPad!Next
  PROVE  library' = library /\ (damaged' = 0 => damaged = 0 /\ ~ClassPad!Damage)
<1> USE DEF ClassPad!fixed, ClassPad!wireVars, ClassPad!TakeAndSend, ClassPad!Take, ClassPad!Send
<1> DEFINE Kept == library' = library /\ damaged' = damaged
<1>1. damaged \in Nat
  BY DEF PadTypes, ClassPad!TypeOK
<1>2. ClassPad!Damage => library' = library /\ damaged' = damaged + 1
  BY DEF ClassPad!Damage
<1>3. ClassPad!InitTimesOut \/ ClassPad!InitNotice \/ ClassPad!InitNul \/ ClassPad!Initiated => Kept
  BY DEF ClassPad!InitTimesOut, ClassPad!InitNotice, ClassPad!InitNul, ClassPad!Initiated
<1>4. \A e : ClassPad!Receive(e) => Kept
  BY DEF ClassPad!Receive, ClassPad!AnswerStart, ClassPad!ReceiveDamaged, ClassPad!ReceiveTerm,
     ClassPad!ReceiveOrder, ClassPad!ReceiveAck, ClassPad!AckTimesOut, ClassPad!ForgetCommand
<1>5. ClassPad!ReceiveReply \/ ClassPad!TerminationAnswered \/ ClassPad!ReceiverInitiated \/ ClassPad!HandleCommand => Kept
  BY DEF ClassPad!ReceiveReply, ClassPad!TerminationAnswered, ClassPad!ReceiverInitiated, ClassPad!HandleCommand
<1>6. ClassPad!Device \/ ClassPad!ClassPadGives => Kept
  BY DEF ClassPad!Device, ClassPad!ClassPad, ClassPad!ClassPadStarted, ClassPad!ClassPadCommand, ClassPad!ClassPadTakes,
     ClassPad!ClassPadGives
<1>7. ClassPad!Program \/ ClassPad!Lose => Kept
  BY DEF ClassPad!Program, ClassPad!BeginInitiate, ClassPad!Detected, ClassPad!BeginReceive, ClassPad!CallReceive,
     ClassPad!ClosePassive, ClassPad!CloseActive, ClassPad!Lose
<1>8. ClassPad!Damage \/ Kept
  BY <1>3, <1>4, <1>5, <1>6, <1>7 DEF ClassPad!Next, ClassPad!Active, ClassPad!Passive
<1> HIDE DEF Kept
<1>9. CASE ClassPad!Damage
  BY <1>1, <1>2, <1>9
<1>10. CASE ~ClassPad!Damage
  BY <1>8, <1>10 DEF Kept
<1> QED
  BY <1>9, <1>10

(* Every step of a session of a ClassPad with a passive end, as long as    *)
(* nothing is damaged.                                                     *)
LEMMA StepKeepsPassive ==
  ASSUME PadTypes, library = {"passive"}, PassiveInv, ActiveSending, ClassPad!Next, ~ClassPad!Damage
  PROVE  PassiveInv' /\ ActiveSending'
<1>1. CASE ClassPad!Device
  <2>1. PICK e \in ClassPad!Ends : ClassPad!ClassPadStarted \/ ClassPad!ClassPadCommand(e) \/ ClassPad!ClassPadTakes(e)
    BY <1>1, TwoEnds DEF ClassPad!Device, ClassPad!ClassPad
  <2>2. ClassPad!ClassPadCommand("active") \/ ClassPad!ClassPadTakes("active")
    BY <2>1, TwoEnds DEF ClassPad!ClassPadStarted, ClassPad!ClassPadCommand, ClassPad!ClassPadTakes
  <2> QED
    BY <2>2, ActivePadKeepsInv, AnswerKeepsInv
<1>2. CASE ClassPad!Program
  <2>1. ~ClassPad!Detected
    BY DEF ClassPad!Detected
  <2> QED
    BY <1>2, <2>1, ActivePadKeepsInv, PassiveKeepsInv DEF ClassPad!Program
<1> QED
  BY <1>1, <1>2, ActivePadKeepsInv, PassiveKeepsInv DEF ClassPad!Next

(* The inductive invariant of a session.                                   *)
SessionInv ==
  /\ PadTypes /\ Results
  /\ "active" \in library => ActiveInv
  /\ library = {"passive"} /\ damaged = 0 => PassiveInv /\ ActiveSending

LEMMA SessionStepKeepsInv == ASSUME SessionInv, ClassPad!Next PROVE SessionInv'
<1>1. library' = library /\ (damaged' = 0 => damaged = 0 /\ ~ClassPad!Damage)
  BY SessionIsFixed DEF SessionInv
<1>2. PadTypes' /\ Results'
  BY PadStepTypes, ResultsKept DEF SessionInv
<1>3. "active" \in library => ActiveInv'
  BY StepKeepsActive DEF SessionInv
<1>4. library = {"passive"} /\ damaged' = 0 => PassiveInv' /\ ActiveSending'
  BY <1>1, StepKeepsPassive DEF SessionInv
<1> QED
  BY <1>1, <1>2, <1>3, <1>4 DEF SessionInv

LEMMA SessionInitEstablishes == ASSUME ClassPad!Init PROVE SessionInv
<1>1. PadTypes
  BY PadInitTypes
<1>2. Results
  BY DEF ClassPad!Init, Results
<1>3. /\ wire["active"] = <<>> /\ wire["passive"] = <<>> /\ next_id["active"] = 0 /\ next_id["passive"] = 0
      /\ pc["active"] = "closed" /\ pc["passive"] = "closed" /\ expected = 0 /\ ~identified
      /\ ~terminated["active"] /\ ~terminated["passive"] /\ ~irrecoverable["active"] /\ result["active"] = "none"
      /\ sending["active"] = ClassPad!Byte("notice") /\ sending["passive"] = ClassPad!Byte("notice")
  BY TwoEnds DEF ClassPad!Init
<1>4. ClassPad!Byte("notice").type = "notice" /\ ClassPad!Byte("notice").size = 0
  BY DEF ClassPad!Byte, ClassPad!Packet
<1>5. ~HasSent("active") /\ ~HasSent("passive") /\ sending["passive"].size = 0
  BY <1>3, <1>4 DEF HasSent
<1>6. PacketsIn(wire["active"]) = {} /\ PacketsIn(wire["passive"]) = {}
  BY <1>3, NothingIn
<1>7. ActiveInv
  BY <1>3, <1>5, <1>6 DEF ActiveInv, ActivePlaces, ActiveSends, ActiveEnds, Quiet
<1>8. PassiveInv /\ ActiveSending
  BY <1>3, <1>5, <1>6 DEF PassiveInv, ActiveSending
<1> QED
  BY <1>1, <1>2, <1>7, <1>8 DEF SessionInv

LEMMA SessionStutterPreserves == ASSUME use = "cas300", SessionInv, UNCHANGED vars PROVE SessionInv'
<1>1. UNCHANGED <<library, discover, wire, lost, damaged, late, pc, next_id, sending, terminated, irrecoverable,
                  attempts, calls, result, expected, identified>>
  BY DEF vars, sharedVars, classPadVars
<1>2. PadTypes' /\ Results'
  BY <1>1 DEF SessionInv, PadTypes, Results, ClassPad!TypeOK
<1>3. ActiveInv => ActiveInv'
  BY <1>1 DEF ActiveInv, ActivePlaces, ActiveSends, ActiveEnds, Over, Terms, Quiet, Quiets, HasSent, Used, Single, Clean,
     CommandsAre, AcksAre, Leading, Replies
<1>4. PassiveInv /\ ActiveSending => PassiveInv' /\ ActiveSending'
  BY <1>1 DEF PassiveInv, ActiveSending, HasSent, Used, PassiveSends, Asking, Answered, Answers, Earlier, Later, Copies, Stale
<1> QED
  BY <1>1, <1>2, <1>3, <1>4 DEF SessionInv

LEMMA SessionInvariance == Spec => [](use = "cas300" => SessionInv)
<1>1. Init => (use = "cas300" => SessionInv)
  BY SessionInitEstablishes DEF Init
<1>2. (use = "cas300" => SessionInv) /\ [Next]_vars => (use = "cas300" => SessionInv)'
  <2> SUFFICES ASSUME use = "cas300" => SessionInv, [Next]_vars PROVE (use = "cas300" => SessionInv)'
    OBVIOUS
  <2>1. CASE ClassPadOnly /\ ClassPad!Next
    BY <2>1, SessionStepKeepsInv DEF ClassPadOnly
  <2>2. CASE use # "cas300" /\ use' = use
    BY <2>2
  <2>3. CASE UNCHANGED vars
    BY <2>3, SessionStutterPreserves DEF vars
  <2>4. OpeningOnly \/ SettingsOnly \/ DetectionOnly \/ CasioOnly => use # "cas300" /\ use' = use
    BY DEF OpeningOnly, SettingsOnly, DetectionOnly, CasioOnly, SystemAlone, SessionsAlone
  <2> QED
    BY <2>1, <2>2, <2>3, <2>4 DEF Next
<1> QED
  BY <1>1, <1>2, PTL DEF Spec

(* Whatever is lost, repeated or late, and however many commands the       *)
(* ClassPad gives: at rest the library numbers its next packet as the      *)
(* ClassPad expects, at either end, as long as nothing was damaged; for    *)
(* cas300/send_command.c:84-116.                                           *)
THEOREM NumbersStayInStep == Spec => []InStep
<1>1. ASSUME SessionInv PROVE ClassPad!InStep
  <2> SUFFICES ASSUME NEW e \in ClassPad!Ends, library = {e}, damaged = 0, pc[e] \in {"open", "receive"}, terminated[e] = FALSE
               PROVE  next_id[e] = expected
    BY DEF ClassPad!InStep
  <2>1. CASE e = "active"
    <3>1. ActiveInv /\ pc["active"] = "open"
      BY <1>1, <2>1 DEF SessionInv, ActiveInv, ActivePlaces
    <3>2. CASE HasSent("active")
      BY <2>1, <3>1, <3>2 DEF ActiveInv, ActiveSends, Single, Clean
    <3>3. CASE ~HasSent("active")
      BY <2>1, <3>1, <3>3 DEF ActiveInv, ActiveSends
    <3> QED
      BY <3>2, <3>3
  <2>2. CASE e = "passive"
    <3>1. PassiveInv /\ pc["passive"] # "ack" /\ ~terminated["passive"]
      BY <1>1, <2>2 DEF SessionInv
    <3> QED
      BY <2>2, <3>1 DEF PassiveInv, PassiveSends, Asking, Answered
  <2> QED
    BY <2>1, <2>2, TwoEnds
<1>2. (use = "cas300" => SessionInv) => InStep
  BY <1>1 DEF InStep
<1> QED
  BY <1>2, SessionInvariance, PTL

(* Whatever is lost, damaged, repeated or late: an active end that reports *)
(* that it has terminated a CAS300 session has terminated the other end,   *)
(* the library or a ClassPad; no acknowledgement of an earlier packet      *)
(* passes for that of the termination; for cas300/terminate.c:64-75.       *)
THEOREM Cas300IsTerminated == Spec => [](use = "cas300" => ClassPad!TypeOK /\ ClassPad!TerminationIsAgreed)
<1>1. SessionInv => ClassPad!TypeOK /\ ClassPad!TerminationIsAgreed
  BY DEF SessionInv, PadTypes, ActiveInv, ActiveEnds, Over, ClassPad!TerminationIsAgreed
<1> QED
  BY <1>1, SessionInvariance, PTL

(* An end that reports having terminated the other has, and a session that *)
(* is terminated was by the header that ends it, whatever is lost, damaged *)
(* or late, and however often the sender starts over: of every session but *)
(* one with a calculator that speaks CAS40; for cas300/terminate.c:64-75   *)
(* and casiolink/receive_raw_data.c.                                       *)
THEOREM SessionsEndTogether ==
  Spec => [](~(variant = "CAS40" /\ sender = "calculator") => TerminationIsAgreed)
<1>1. ASSUME SenderInv, EndsInv, ~(variant = "CAS40" /\ sender = "calculator")
      PROVE  Casio!TerminatedByTheEnd
  <2>1. Casio!OneAtATime => sender = "library" \/ Regular
    BY <1>1 DEF SenderInv, SenderTypes, Regular
  <2> QED
    BY <1>1, <2>1 DEF EndsInv, EndInv, Closing, Casio!TerminatedByTheEnd, Casio!Ended
<1>2. (use = "cas300" => ClassPad!TypeOK /\ ClassPad!TerminationIsAgreed)
      /\ (use = "casiolink" => SenderInv) /\ (use = "casiolink" => EndsInv)
      => (~(variant = "CAS40" /\ sender = "calculator") => TerminationIsAgreed)
  BY <1>1 DEF TerminationIsAgreed
<1> QED
  BY <1>2, Cas300IsTerminated, SenderInvariance, EndsInvariance, PTL

-----------------------------------------------------------------------------
(* The types of what a link is used for.                                   *)

(* The types of the uses of a link that were not shown above.              *)
UseTypes ==
  /\ use = "detection" => DetectionInv
  /\ use = "casiolink" => CasioTypes
  /\ use \in {"opening", "settings", "detection", "cas300", "casiolink"}

LEMMA UseTypesHold == Spec => []UseTypes
<1>1. Init => UseTypes
  BY DetectionInitTypes, CasioInitTypes DEF Init, UseTypes
<1>2. UseTypes /\ (use = "casiolink" => SenderInv) /\ [Next]_vars => UseTypes'
  <2> SUFFICES ASSUME UseTypes, use = "casiolink" => SenderInv, [Next]_vars PROVE UseTypes'
    OBVIOUS
  <2>1. CASE CasioOnly /\ Casio!Next
    BY <2>1, CasioStepTypes DEF CasioOnly, UseTypes, SystemAlone
  <2>2. CASE DetectionOnly /\ Detection!Next
    BY <2>2, DetectionStepTypes DEF DetectionOnly, UseTypes, SystemAlone
  <2>3. CASE use \notin {"casiolink", "detection"} /\ use' = use
    BY <2>3 DEF UseTypes
  <2>4. CASE UNCHANGED vars
    <3>1. use' = use /\ (DetectionInv => DetectionInv')
      BY <2>4 DEF vars, sharedVars, detectionVars, DetectionInv, Detection!TypeOK
    <3>2. CasioTypes => CasioTypes'
      BY <2>4 DEF vars, sharedVars, casioVars, CasioTypes, Casio!TypeOK
    <3> QED
      BY <3>1, <3>2 DEF UseTypes
  <2>5. OpeningOnly \/ SettingsOnly \/ ClassPadOnly => use \notin {"casiolink", "detection"} /\ use' = use
    BY DEF OpeningOnly, SettingsOnly, ClassPadOnly, SystemAlone, SessionsAlone
  <2> QED
    BY <2>1, <2>2, <2>3, <2>4, <2>5 DEF Next
<1> QED
  BY <1>1, <1>2, SenderInvariance, PTL DEF Spec

(* The state of a link is well formed, whatever it is used for: an opening *)
(* never counts more than its attempts, a detection or an initiation has   *)
(* attempts left as long as it tries (open/init.c:290-515), and no more    *)
(* parts are received than a header says (casiolink/receive_raw_data.c).   *)
THEOREM LinkStateIsWellFormed == Spec => []TypeOK
<1>1. LInv /\ UseTypes /\ (use = "cas300" => ClassPad!TypeOK /\ ClassPad!TerminationIsAgreed) => TypeOK
  BY PortIsAsAsked DEF LInv, OInv, UseTypes, DetectionInv, CasioTypes, TypeOK
<1> QED
  BY <1>1, ProtocolsInvariance, UseTypesHold, Cas300IsTerminated, PTL

-----------------------------------------------------------------------------
(* What a detection finds, and what it leaves.                             *)

(* Detection, when nothing is lost, damaged, late or sent for nothing: what *)
(* is on the wires at each place of the active end.                        *)
Calm ==
  /\ faults = 0 /\ late = 0 /\ notices = 0
  /\ kind["active"] = "library" /\ result["active"] \in {"none", "OK"}
  /\ buf # <<"00">> /\ pc["active"] # "unknown"

(* The first byte of the answer, by the place.                             *)
Early ==
  /\ pc["active"] \in Detection!Probes \cup {"off"} => buf = <<>>
  /\ pc["active"] = "ack" => buf = <<"06">>
  /\ pc["active"] = "nak" => buf = <<"15">>

(* The passive end sends nothing more for what it was sent.                *)
Spent == IF kind["passive"] = "library" THEN pc["passive"] = "over" ELSE Outgoing = <<>>

(* An answer that starts so is as long as this.                            *)
WholeAnswer(s) ==
  /\ s[1] = "06" => Len(s) = IF s[4] = "01" THEN 5 ELSE 6
  /\ s[1] = "15" => Len(s) \in {3, 6}
  /\ s[1] = "13" => Len(s) = 1
  /\ s[1] = "00" => Len(s) = 2 /\ s[2] = "00"
  /\ s[1] # "05"

(* What is on its way to a calculator: a packet or what it has left of     *)
(* one, or a start that it has not answered.                               *)
Sounding ==
  \/ Within(Outgoing, {"d", "c"})
  \/ /\ Len(Outgoing) = 6 \/ (Len(Outgoing) = 13 /\ kind["passive"] = "classpad_used")
     /\ Outgoing[1] \in {"01", "05"}
     /\ \A i \in 2 .. Len(Outgoing) : Outgoing[i] \in {"d", "c"}
Probing == Sounding \/ (Outgoing = <<"16">> /\ Incoming = <<>> /\ pc["active"] # "five")

OfFives(s) == Within(s, {"05"})

LeftAt(p, came, going) ==
  /\ p = "off" => came = <<>> /\ (kind["passive"] # "library" => going = <<>>)
  /\ p \in Detection!Probes =>
       came = <<>> \/ (OfFives(came) /\ kind["passive"] = "classpad_new") \/ (WholeAnswer(came) /\ Spent)
  /\ p = "five" => OfFives(came)
  /\ p = "init" =>
       \/ going = <<"16">> /\ came = <<>>
       \/ going = <<>> /\ (came = <<>> \/ (came[1] \in {"00", "13"} /\ WholeAnswer(came)))
  /\ p = "init_nul" => Spent /\ Len(came) = 1 /\ came[1] = "00"
  /\ p = "ack" => Spent /\ Len(came) = IF came[3] = "01" THEN 4 ELSE 5
  /\ p = "ack_end" => Spent /\ Len(came) = 2
  /\ p = "info" => Spent /\ Len(came) = 1
  /\ p = "nak" => Spent /\ Len(came) \in {2, 5}
  /\ p = "nak_end" => Spent /\ Len(came) \in {0, 3}
  /\ p = "over" =>
       came = <<>> /\ (Spent \/ (kind["passive"] = "classpad_used" /\ Within(going, {"06", "d"})))
Left == LeftAt(pc["active"], Incoming, Outgoing)

Settled == (kind["passive"] # "library" /\ pc["active"] # "over" => Probing) /\ Left
QuietInv == Early /\ (Calm => Settled)

LEMMA StaysEarly ==
  ASSUME Early, pc'["active"] \in {pc["active"], "over"}, buf' = buf
  PROVE  Early'
BY DEF Early, Detection!Probes

LEMMA ActiveStaysEarly ==
  ASSUME EndsAre, Early, Detection!Active \/ Detection!OpenActive
  PROVE  Early'
<1>1. \A p : Detection!GoTo("active", p) => pc'["active"] = p
  BY DetectionCounts DEF Detection!GoTo, EndsAre
<1>2. /\ \A r : Detection!Fails("active", r) => pc'["active"] = "over"
      /\ \A p : Detection!Found("active", p) => pc'["active"] = "over"
  BY DetectionCounts DEF Detection!Fails, Detection!Found, Detection!Over, EndsAre
<1>3. ASSUME pc'["active"] \in {"over", "five", "init", "init_nul", "info", "ack_end", "nak_end", "unknown"}
      PROVE  Early'
  BY <1>3 DEF Early, Detection!Probes
<1>4. CASE Detection!OpenActive
  BY <1>1, <1>4 DEF Detection!OpenActive, Early, Detection!Probes
<1>5. CASE Detection!ProbeUnanswered
  <2>1. buf' = <<>>
    BY <1>5 DEF Early, Detection!ProbeUnanswered
  <2>2. pc'["active"] \in {"over", "check", "start", "half", "rest"}
    BY <1>1, <1>2, <1>5 DEF Detection!ProbeUnanswered, Detection!AfterProbe, Detection!Probes
  <2> QED
    BY <2>1, <2>2 DEF Early
<1>6. CASE Detection!AnsweredAck \/ Detection!AnsweredNak
  BY <1>1, <1>6 DEF Early, Detection!AnsweredAck, Detection!AnsweredNak, Detection!FirstByte, Detection!Probes
<1>7. CASE Detection!AnsweredNul \/ Detection!AnsweredFive \/ Detection!MoreFives \/ Detection!AnsweredUnknown
  BY <1>1, <1>2, <1>3, <1>7 DEF Detection!AnsweredNul, Detection!AnsweredFive, Detection!MoreFives, Detection!AnsweredUnknown
<1>8. CASE Detection!InitiationUnanswered \/ Detection!Initiation
  BY <1>1, <1>2, <1>3, <1>8 DEF Detection!InitiationUnanswered, Detection!Initiation, Detection!NextInitiation
<1>9. CASE Detection!AckReceived \/ Detection!AckEnds \/ Detection!NakReceived \/ Detection!NakEnds
  BY <1>1, <1>2, <1>3, <1>9 DEF Detection!AckReceived, Detection!AckEnds, Detection!NakReceived, Detection!NakEnds
<1>10. CASE Detection!Information \/ Detection!AnsweredEstablished \/ Detection!OutOfOrder \/ Detection!Unknown
  BY <1>1, <1>2, <1>3, <1>10 DEF Detection!Information, Detection!AnsweredEstablished, Detection!OutOfOrder, Detection!Unknown
<1> QED
  BY <1>4, <1>5, <1>6, <1>7, <1>8, <1>9, <1>10 DEF Detection!Active

LEMMA LateStays ==
  ASSUME late \in Nat, late' \in {late, late + 1}, late' = 0
  PROVE  late = 0 /\ late' = late
OBVIOUS

LEMMA TimeIsLate ==
  ASSUME NEW n, Detection!TimeRunsOut(n)
  PROVE  /\ Len(Incoming) < n /\ late' \in {late, late + 1}
         /\ late' = late \/ Detection!PassiveReacts
         /\ late' = late + 1 \/ ~Detection!PassiveReacts
BY DEF Detection!TimeRunsOut, Incoming

LEMMA ActiveMayBeLate ==
  ASSUME Detection!Active
  PROVE  late' \in {late, late + 1}
<1>1. \A n : Detection!TimeRunsOut(n) => late' \in {late, late + 1}
  BY TimeIsLate
<1> QED
  BY <1>1 DEF Detection!Active, Detection!ProbeUnanswered, Detection!AnsweredNul, Detection!AnsweredFive, Detection!MoreFives,
         Detection!InitiationUnanswered, Detection!Initiation, Detection!AnsweredAck, Detection!AckReceived, Detection!AckEnds,
         Detection!Information, Detection!AnsweredEstablished, Detection!AnsweredNak, Detection!NakReceived,
         Detection!NakEnds, Detection!OutOfOrder, Detection!AnsweredUnknown, Detection!Unknown, Detection!counts,
         Detection!FivesAreOver

(* What a step of the active end is taken from and leaves alone.            *)
ActiveContext ==
  /\ Wired /\ EndsAre /\ Wired' /\ EndsAre' /\ Len(Incoming) \in Nat /\ Len(Incoming') \in Nat
  /\ kind["active"] = "library" /\ kind' = kind /\ result["active"] = "none"
  /\ pc'["passive"] = pc["passive"] /\ late' = late /\ late \in Nat

LEMMA CalmBefore ==
  ASSUME DetectionInv, SettingInv, HeardInv, QuietInv, DetectionInv', Detection!Active, Calm'
  PROVE  Settled /\ ActiveContext
<1>1. Wired /\ EndsAre /\ Wired' /\ EndsAre' /\ Len(Incoming) \in Nat /\ Len(Incoming') \in Nat /\ late \in Nat
  <2>1. Wired /\ EndsAre /\ late \in Nat
    BY DetectionParts, DetectionCounts
  <2>2. Wired' /\ EndsAre'
    BY DEF DetectionInv, Detection!TypeOK, Wired, EndsAre
  <2>3. Len(wire["active"]) \in Nat
    BY <2>1, DetectionCounts DEF Wired
  <2>4. Len(wire'["active"]) \in Nat
    BY <2>2, DetectionCounts DEF Wired
  <2> QED
    BY <2>1, <2>2, <2>3, <2>4 DEF Incoming
<1>2. /\ pc["active"] \in Onward /\ Goes("active", Onward) /\ UNCHANGED <<kind, faults, notices>>
  BY <1>1, ActiveStepGoes
<1>3. kind["active"] = "library" /\ result["active"] = "none"
  BY <1>2, ActiveIsLibrary DEF Onward
<1>4. pc'["passive"] = pc["passive"]
  BY <1>1, <1>2, LeavesOtherEnd, DetectionCounts
<1>5. late = 0 /\ late' = late
  BY <1>1, ActiveMayBeLate, LateStays DEF Calm
<1>6. pc["active"] # "unknown"
  <2>1. ASSUME pc["active"] = "unknown" PROVE FALSE
    <3>1. Detection!Unknown
      BY <2>1 DEF Detection!Active, Detection!ProbeUnanswered, Detection!AnsweredNul, Detection!AnsweredFive,
         Detection!MoreFives, Detection!InitiationUnanswered, Detection!Initiation, Detection!AnsweredAck,
         Detection!AckReceived, Detection!AckEnds, Detection!Information, Detection!AnsweredEstablished,
         Detection!AnsweredNak, Detection!NakReceived, Detection!NakEnds, Detection!OutOfOrder,
         Detection!AnsweredUnknown, Detection!FirstByte, Detection!Probes
    <3>2. Detection!GoTo("active", "unknown") \/ Detection!Fails("active", "UNKNOWN")
      BY <3>1 DEF Detection!Unknown
    <3>3. pc'["active"] = "unknown" \/ result'["active"] = "UNKNOWN"
      BY <1>1, <3>2, DetectionCounts DEF Detection!GoTo, Detection!Fails, Detection!Over, EndsAre, SettingInv
    <3> QED
      BY <3>3 DEF Calm
  <2> QED
    BY <2>1
<1>7. buf # <<"00">>
  <2>1. ASSUME buf = <<"00">> PROVE FALSE
    <3>1. Len(buf) = 1 /\ buf # <<>> /\ buf # <<"06">> /\ buf # <<"15">>
      BY <2>1
    <3>2. pc["active"] \in {"five", "init", "init_nul", "info"}
      BY <1>2, <1>6, <3>1 DEF QuietInv, Early, HeardInv, Placed, Onward, Detection!Places
    <3>3. buf' = buf
      BY <3>2 DEF Detection!Active, Detection!ProbeUnanswered, Detection!AnsweredNul, Detection!AnsweredFive,
         Detection!MoreFives, Detection!InitiationUnanswered, Detection!Initiation, Detection!AnsweredAck,
         Detection!AckReceived, Detection!AckEnds, Detection!Information, Detection!AnsweredEstablished,
         Detection!AnsweredNak, Detection!NakReceived, Detection!NakEnds, Detection!OutOfOrder,
         Detection!AnsweredUnknown, Detection!Unknown, Detection!FirstByte, Detection!Probes
    <3> QED
      BY <2>1, <3>3 DEF Calm
  <2> QED
    BY <2>1
<1>8. Calm
  BY <1>2, <1>3, <1>5, <1>6, <1>7 DEF Calm
<1> QED
  BY <1>1, <1>2, <1>3, <1>4, <1>5, <1>8 DEF QuietInv, ActiveContext

LEMMA ArrivesAt ==
  ASSUME ActiveContext, SettingInv
  PROVE  /\ \A p : Detection!GoTo("active", p) => pc'["active"] = p
         /\ \A r : Detection!Fails("active", r) /\ r \notin {"none", "OK"} => ~Calm'
         /\ \A p : Detection!Found("active", p) => pc'["active"] = "over"
BY DetectionCounts DEF ActiveContext, Detection!GoTo, Detection!Fails, Detection!Found, Detection!Over, EndsAre,
   SettingInv, Calm

LEMMA SpentStays ==
  ASSUME ActiveContext, kind["passive"] = "library" \/ Outgoing' = Outgoing
  PROVE  Spent' = Spent
BY DEF ActiveContext, Spent

(* Bytes that are taken, and none sent.                                     *)
LEMMA TakesQuietly ==
  ASSUME SettingInv, Settled, ActiveContext, NEW n \in Nat, n >= 1, Detection!Take("active", n), pc["active"] # "over"
  PROVE  /\ n <= Len(Incoming) /\ Incoming # <<>>
         /\ Len(Incoming') = Len(Incoming) - n /\ \A i \in 1 .. Len(Incoming') : Incoming'[i] = Incoming[i + n]
         /\ Outgoing' = Outgoing /\ Spent' = Spent
         /\ kind["passive"] # "library" => Probing'
<1>1. Shifted(n) /\ Outgoing' \in Detection!Sent("passive", <<>>)
  BY ActiveSendsBytes DEF ActiveContext, Detection!Take
<1>2. Outgoing' = Outgoing
  BY <1>1, BytesAreSent, DetectionCounts DEF Outgoing
<1>3. Incoming # <<>>
  BY <1>1 DEF Shifted, ActiveContext
<1>4. kind["passive"] # "library" => Probing'
  <2>1. kind["passive"] # "library" => Sounding
    BY <1>3 DEF Settled, Probing
  <2> QED
    BY <1>2, <2>1 DEF ActiveContext, Probing, Sounding, Within
<1> QED
  BY <1>1, <1>2, <1>3, <1>4, SpentStays DEF Shifted

(* Bytes that are sent.                                                     *)
LEMMA SendsQuietly ==
  ASSUME SettingInv, ActiveContext, NEW n \in Nat, NEW bs, bs # <<>>, Detection!TakeAndSend("active", n, bs)
  PROVE  /\ n <= Len(Incoming) /\ Len(Incoming') = Len(Incoming) - n
         /\ kind["passive"] # "library" => Outgoing' = Outgoing \o bs
         /\ kind["passive"] = "library" => Spent' = Spent
<1>1. Shifted(n) /\ Outgoing' \in Detection!Sent("passive", bs)
  BY ActiveSendsBytes DEF ActiveContext
<1>2. ASSUME kind["passive"] # "library" PROVE Outgoing' = Outgoing \o bs
  <2>1. pc["passive"] = "over" /\ result["passive"] = "none"
    BY <1>2, DetectionCounts DEF SettingInv, ActiveContext
  <2>2. Detection!Hears
    BY <1>2, CalculatorsHear
  <2> QED
    BY <1>1, <2>1, <2>2, BytesAreSent, DetectionCounts DEF Outgoing
<1> QED
  BY <1>1, <1>2, SpentStays DEF Shifted

LEMMA NothingArrives ==
  ASSUME ActiveContext, Detection!TimeRunsOut(1)
  PROVE  /\ Incoming = <<>> /\ Len(Incoming) = 0
         /\ kind["passive"] # "library" =>
              \/ Outgoing = <<>>
              \/ kind["passive"] = "classpad_used" /\ Outgoing = Detection!HalfDiscover /\ pc["active"] = "half"
<1>1. Len(Incoming) < 1 /\ (late' = late + 1 \/ ~Detection!PassiveReacts)
  BY TimeIsLate
<1>2. Incoming \in Seq(Detection!Bytes)
  BY WiresAre DEF ActiveContext
<1>3. Len(Incoming) = 0 /\ Incoming = <<>>
  <2>1. Len(Incoming) = 0
    BY <1>1 DEF ActiveContext
  <2> QED
    BY <1>2, <2>1
<1>4. ~Detection!PassiveReacts
  <2>1. \/ ~Detection!PassiveReacts /\ UNCHANGED late
        \/ Detection!PassiveReacts /\ late < MaxLate /\ late' = late + 1
    BY DEF Detection!TimeRunsOut
  <2>2. late' # late + 1
    BY DEF ActiveContext
  <2> QED
    BY <1>1, <2>1, <2>2 DEF ActiveContext
<1>5. ASSUME kind["passive"] # "library"
      PROVE  \/ wire["passive"] = <<>>
             \/ kind["passive"] = "classpad_used" /\ wire["passive"] = Detection!HalfDiscover /\ pc["active"] = "half"
  BY <1>4, <1>5, Zenon DEF Detection!PassiveReacts
<1> QED
  BY <1>3, <1>5 DEF Outgoing

LEMMA EmptyOfNone ==
  ASSUME ActiveContext, Len(Incoming') = 0
  PROVE  Incoming' = <<>>
<1>1. wire'["active"] \in Seq(Detection!Bytes)
  BY DetectionCounts DEF ActiveContext, Wired
<1>2. Incoming' \in Seq(Detection!Bytes)
  BY <1>1 DEF Incoming
<1> QED
  BY <1>2

LEMMA ProbeIsQuiet ==
  ASSUME DetectionInv, SettingInv, Settled, ActiveContext, Calm', Detection!ProbeUnanswered
  PROVE  Settled'
<1>1. /\ Incoming = <<>> /\ Len(Incoming) = 0
      /\ kind["passive"] # "library" =>
              \/ Outgoing = <<>>
              \/ kind["passive"] = "classpad_used" /\ Outgoing = Detection!HalfDiscover /\ pc["active"] = "half"
  BY NothingArrives DEF Detection!ProbeUnanswered
<1>2. ~Detection!LastAttempt(pc["active"])
  <2>1. ~Detection!Fails("active", "NOT_FOUND")
    BY ArrivesAt
  <2> QED
    BY <2>1 DEF Detection!ProbeUnanswered
<1> DEFINE place == Detection!AfterProbe(pc["active"]).place
           bs == Detection!AfterProbe(pc["active"]).sends
<1>3. Detection!GoTo("active", place) /\ Detection!TakeAndSend("active", 0, bs)
  BY <1>2 DEF Detection!ProbeUnanswered
<1>4. \/ pc["active"] = "check" /\ place = "start" /\ bs = <<"16">>
      \/ pc["active"] = "start" /\ place = "half" /\ bs = Detection!HalfDiscover
      \/ pc["active"] = "half" /\ place = "rest" /\ bs = Detection!RestOfDiscover
      \/ pc["active"] = "rest" /\ place = "check" /\ bs = Detection!Check
  BY DEF Detection!ProbeUnanswered, Detection!Probes, Detection!AfterProbe
<1> HIDE DEF place, bs
<1>5. pc'["active"] = place /\ place \in Detection!Probes
  BY <1>3, <1>4, ArrivesAt DEF Detection!Probes
<1>6. bs # <<>> /\ bs \in Seq(Detection!Bytes)
  <2>1. /\ <<"16">> # <<>> /\ <<"16">> \in Seq(Detection!Bytes)
        /\ Detection!HalfDiscover # <<>> /\ Detection!RestOfDiscover # <<>> /\ Detection!Check # <<>>
    BY BytesOf DEF Detection!HalfDiscover, Detection!RestOfDiscover, Detection!Check
  <2> QED
    BY <1>4, <2>1, BytesOf
<1>7. Len(Incoming') = 0 /\ (kind["passive"] # "library" => Outgoing' = Outgoing \o bs)
  BY <1>1, <1>3, <1>6, SendsQuietly DEF ActiveContext
<1>8. Incoming' = <<>>
  BY <1>7, EmptyOfNone
<1>9. Left'
  BY <1>5, <1>8 DEF Left, LeftAt, Detection!Probes
<1>10. ASSUME kind["passive"] # "library" PROVE Probing'
  <2>1. CASE Outgoing = <<>>
    <3>1. Outgoing' = bs
      <4>1. <<>> \o bs = bs
        BY <1>6
      <4> QED
        BY <1>7, <1>10, <2>1, <4>1
    <3>2. CASE bs = <<"16">>
      BY <1>4, <1>5, <1>8, <3>1, <3>2 DEF Probing
    <3>3. CASE bs = Detection!RestOfDiscover
      <4>1. Within(Detection!RestOfDiscover, {"d", "c"})
        BY DEF Within, Detection!RestOfDiscover
      <4> QED
        BY <3>1, <3>3, <4>1 DEF Probing, Sounding
    <3>4. CASE bs \in {Detection!HalfDiscover, Detection!Check}
      <4>1. Len(bs) = 6 /\ bs[1] \in {"01", "05"} /\ \A i \in 2 .. 6 : bs[i] \in {"d", "c"}
        <5>1. /\ Len(Detection!HalfDiscover) = 6 /\ Detection!HalfDiscover[1] = "01"
              /\ \A i \in 2 .. 6 : Detection!HalfDiscover[i] \in {"d", "c"}
          BY DEF Detection!HalfDiscover
        <5>2. /\ Len(Detection!Check) = 6 /\ Detection!Check[1] = "05"
              /\ \A i \in 2 .. 6 : Detection!Check[i] \in {"d", "c"}
          BY DEF Detection!Check
        <5> QED
          BY <3>4, <5>1, <5>2
      <4> QED
        BY <3>1, <4>1 DEF Probing, Sounding
    <3> QED
      BY <1>4, <3>2, <3>3, <3>4
  <2>2. CASE kind["passive"] = "classpad_used" /\ Outgoing = Detection!HalfDiscover /\ pc["active"] = "half"
    <3>1. Outgoing' = Detection!HalfDiscover \o Detection!RestOfDiscover
      BY <1>4, <1>7, <1>10, <2>2
    <3>2. /\ Len(Outgoing') = 13 /\ Outgoing'[1] = "01" /\ \A i \in 2 .. 13 : Outgoing'[i] \in {"d", "c"}
      BY <3>1, Discovery
    <3>3. kind'["passive"] = "classpad_used"
      BY <2>2 DEF ActiveContext
    <3> QED
      BY <3>2, <3>3 DEF Probing, Sounding
  <2> QED
    BY <1>1, <1>10, <2>1, <2>2
<1> QED
  BY <1>9, <1>10 DEF Settled, ActiveContext

LEMMA OpeningIsQuiet ==
  ASSUME DetectionInv, SettingInv, QuietInv, DetectionInv', Calm', Detection!OpenActive
  PROVE  Settled'
<1>1. /\ pc["active"] = "off" /\ kind["active"] = "library" /\ Detection!GoTo("active", "check")
      /\ Detection!TakeAndSend("active", 0, Detection!Check)
      /\ UNCHANGED <<kind, faults, late, notices, buf>>
  BY DEF Detection!OpenActive, Detection!setting, Detection!counts
<1>2. Wired /\ EndsAre /\ Wired' /\ EndsAre' /\ late \in Nat /\ Len(Incoming) \in Nat
  <2>1. Wired /\ EndsAre /\ late \in Nat
    BY DetectionParts, DetectionCounts
  <2> QED
    BY <2>1, WiresAre DEF DetectionInv, Detection!TypeOK, Wired, EndsAre
<1>3. pc'["active"] = "check" /\ pc'["passive"] = pc["passive"] /\ result' = result /\ result["active"] = "none"
  BY <1>1, <1>2, DetectionCounts DEF Detection!GoTo, EndsAre, SettingInv
<1>4. Calm
  <2>1. buf = <<>>
    BY <1>1 DEF QuietInv, Early
  <2> QED
    BY <1>1, <1>3, <2>1 DEF Calm
<1>5. Incoming = <<>> /\ Len(Incoming) = 0 /\ (kind["passive"] # "library" => Outgoing = <<>>)
  <2>1. Incoming = <<>> /\ (kind["passive"] # "library" => Outgoing = <<>>)
    BY <1>1, <1>4 DEF QuietInv, Settled, Left, LeftAt
  <2> QED
    BY <2>1
<1>6. Shifted(0) /\ Outgoing' \in Detection!Sent("passive", Detection!Check)
  BY <1>1, <1>2, ActiveSendsBytes
<1>7. Incoming' = <<>>
  <2>1. Len(Incoming') = 0
    BY <1>5, <1>6 DEF Shifted
  <2>2. wire'["active"] \in Seq(Detection!Bytes)
    BY <1>2, DetectionCounts DEF Wired
  <2>3. Incoming' \in Seq(Detection!Bytes)
    BY <2>2 DEF Incoming
  <2> QED
    BY <2>1, <2>3
<1>8. Left'
  BY <1>3, <1>7 DEF Left, LeftAt, Detection!Probes
<1>9. ASSUME kind["passive"] # "library" PROVE Probing'
  <2>1. pc["passive"] = "over" /\ result["passive"] = "none" /\ Detection!Hears
    BY <1>1, <1>9, CalculatorsHear, DetectionCounts DEF SettingInv
  <2>2. Detection!Check # <<>>
    BY DEF Detection!Check
  <2>3. Outgoing' = wire["passive"] \o Detection!Check
    BY <1>6, <2>1, <2>2, BytesAreSent, DetectionCounts
  <2>4. <<>> \o Detection!Check = Detection!Check
    BY BytesOf
  <2>5. Outgoing' = Detection!Check
    BY <1>5, <1>9, <2>3, <2>4 DEF Outgoing
  <2>6. /\ Len(Detection!Check) = 6 /\ Detection!Check[1] = "05"
        /\ \A i \in 2 .. 6 : Detection!Check[i] \in {"d", "c"}
    BY DEF Detection!Check
  <2> QED
    BY <2>5, <2>6 DEF Probing, Sounding
<1> QED
  BY <1>1, <1>8, <1>9 DEF Settled

(* The first byte of an answer.                                             *)
LEMMA FirstIsQuiet ==
  ASSUME SettingInv, Settled, ActiveContext, Calm', NEW b, Detection!FirstByte(b), Detection!Take("active", 1)
  PROVE  /\ Incoming[1] = b /\ Len(Incoming') = Len(Incoming) - 1
         /\ \A i \in 1 .. Len(Incoming') : Incoming'[i] = Incoming[i + 1]
         /\ Outgoing' = Outgoing /\ Spent' = Spent
         /\ kind["passive"] # "library" => Probing'
         /\ b # "05" => WholeAnswer(Incoming) /\ Spent
         /\ b = "05" => OfFives(Incoming)
<1>1. /\ pc["active"] \in Detection!Probes /\ Incoming # <<>> /\ Head(Incoming) = b
      /\ pc["active"] # "over"
  BY DEF Detection!FirstByte, Incoming, Detection!Probes
<1>2. /\ 1 <= Len(Incoming)
      /\ Len(Incoming') = Len(Incoming) - 1 /\ \A i \in 1 .. Len(Incoming') : Incoming'[i] = Incoming[i + 1]
      /\ Outgoing' = Outgoing /\ Spent' = Spent
      /\ kind["passive"] # "library" => Probing'
  BY <1>1, TakesQuietly
<1>3. Incoming[1] = b /\ 1 \in 1 .. Len(Incoming)
  <2>1. Incoming \in Seq(Detection!Bytes)
    BY WiresAre DEF ActiveContext
  <2> QED
    BY <1>1, <1>2, <2>1
<1>4. (OfFives(Incoming) /\ kind["passive"] = "classpad_new") \/ (WholeAnswer(Incoming) /\ Spent)
  BY <1>1 DEF Settled, Left, LeftAt
<1>5. OfFives(Incoming) => b = "05"
  BY <1>3 DEF OfFives, Within
<1>6. WholeAnswer(Incoming) => b # "05"
  BY <1>3 DEF WholeAnswer
<1> QED
  BY <1>2, <1>3, <1>4, <1>5, <1>6

LEMMA AnswerIsQuiet ==
  ASSUME DetectionInv, SettingInv, Settled, ActiveContext, Calm',
         \/ Detection!AnsweredNul \/ Detection!AnsweredFive \/ Detection!AnsweredAck \/ Detection!AnsweredEstablished
         \/ Detection!AnsweredNak \/ Detection!AnsweredUnknown
  PROVE  Settled'
<1>1. ~Detection!AnsweredNul /\ ~Detection!AnsweredUnknown
  <2>1. ~Detection!AnsweredNul
    BY DEF Detection!AnsweredNul, Detection!FirstByte, Calm
  <2>2. ~Detection!GoTo("active", "unknown")
    BY ArrivesAt DEF Calm
  <2> QED
    BY <2>1, <2>2 DEF Detection!AnsweredUnknown
<1>2. CASE Detection!AnsweredFive
  <2>1. /\ OfFives(Incoming) /\ Len(Incoming') = Len(Incoming) - 1
        /\ \A i \in 1 .. Len(Incoming') : Incoming'[i] = Incoming[i + 1]
        /\ kind["passive"] # "library" => Probing'
    BY <1>2, FirstIsQuiet DEF Detection!AnsweredFive
  <2>2. pc'["active"] = "five"
    BY <1>2, ArrivesAt DEF Detection!AnsweredFive
  <2>3. OfFives(Incoming')
    <3>1. \A i \in 1 .. Len(Incoming') : i + 1 \in 1 .. Len(Incoming)
      BY <2>1 DEF ActiveContext
    <3> QED
      BY <2>1, <3>1 DEF OfFives, Within
  <2>4. Left'
    BY <2>2, <2>3 DEF Left, LeftAt, Detection!Probes, OfFives, Within
  <2> QED
    BY <2>1, <2>4 DEF Settled, ActiveContext
<1>3. CASE Detection!AnsweredAck
  <2>1. /\ Incoming[1] = "06" /\ WholeAnswer(Incoming) /\ Spent' /\ Len(Incoming') = Len(Incoming) - 1
        /\ \A i \in 1 .. Len(Incoming') : Incoming'[i] = Incoming[i + 1]
        /\ kind["passive"] # "library" => Probing'
    <3>1. "06" # "05"
      OBVIOUS
    <3> QED
      BY <1>3, <3>1, FirstIsQuiet DEF Detection!AnsweredAck
  <2>2. pc'["active"] = "ack"
    BY <1>3, ArrivesAt DEF Detection!AnsweredAck
  <2>3. Len(Incoming) = IF Incoming[4] = "01" THEN 5 ELSE 6
    BY <2>1 DEF WholeAnswer
  <2>4. Incoming'[3] = Incoming[4]
    BY <2>1, <2>3
  <2>5. Len(Incoming') = IF Incoming'[3] = "01" THEN 4 ELSE 5
    BY <2>1, <2>3, <2>4
  <2>6. Left'
    BY <2>1, <2>2, <2>5 DEF Left, LeftAt, Detection!Probes
  <2> QED
    BY <2>1, <2>6 DEF Settled, ActiveContext
<1>4. CASE Detection!AnsweredEstablished
  <2>1. /\ Incoming[1] = "13" /\ WholeAnswer(Incoming) /\ Spent' /\ Len(Incoming') = Len(Incoming) - 1
        /\ kind["passive"] # "library" => Probing'
    <3>1. "13" # "05"
      OBVIOUS
    <3> QED
      BY <1>4, <3>1, FirstIsQuiet DEF Detection!AnsweredEstablished
  <2>2. pc'["active"] = "over"
    BY <1>4, ArrivesAt DEF Detection!AnsweredEstablished
  <2>3. Incoming' = <<>>
    <3>1. Len(Incoming') = 0
      BY <2>1 DEF WholeAnswer
    <3> QED
      BY <3>1, EmptyOfNone
  <2>4. Left'
    BY <2>1, <2>2, <2>3 DEF Left, LeftAt, Detection!Probes
  <2> QED
    BY <2>1, <2>4 DEF Settled, ActiveContext
<1>5. CASE Detection!AnsweredNak
  <2>1. /\ Incoming[1] = "15" /\ WholeAnswer(Incoming) /\ Spent' /\ Len(Incoming') = Len(Incoming) - 1
        /\ kind["passive"] # "library" => Probing'
    <3>1. "15" # "05"
      OBVIOUS
    <3> QED
      BY <1>5, <3>1, FirstIsQuiet DEF Detection!AnsweredNak
  <2>2. pc'["active"] = "nak"
    BY <1>5, ArrivesAt DEF Detection!AnsweredNak
  <2>3. Len(Incoming') \in {2, 5}
    BY <2>1 DEF WholeAnswer
  <2>4. Left'
    BY <2>1, <2>2, <2>3 DEF Left, LeftAt, Detection!Probes
  <2> QED
    BY <2>1, <2>4 DEF Settled, ActiveContext
<1> QED
  BY <1>1, <1>2, <1>3, <1>4, <1>5

LEMMA StartIsQuiet ==
  ASSUME SettingInv, ActiveContext, pc'["active"] = "init", Incoming = <<>>,
         kind["passive"] = "classpad_new", Outgoing = <<>>, Detection!TakeAndSend("active", 0, <<"16">>)
  PROVE  Settled'
<1>1. <<"16">> # <<>> /\ <<>> \o <<"16">> = <<"16">>
  OBVIOUS
<1>2. Len(Incoming) = 0
  OBVIOUS
<1>3. Len(Incoming') = Len(Incoming) - 0 /\ Outgoing' = Outgoing \o <<"16">>
  <2>1. 0 \in Nat /\ kind["passive"] # "library"
    OBVIOUS
  <2> QED
    BY <1>1, <2>1, SendsQuietly
<1>4. Incoming' = <<>>
  <2>1. Len(Incoming') = 0
    BY <1>2, <1>3
  <2> QED
    BY <2>1, EmptyOfNone
<1>5. Outgoing' = <<"16">>
  BY <1>1, <1>3
<1> QED
  BY <1>4, <1>5 DEF Settled, Probing, Left, LeftAt, Detection!Probes

LEMMA InitiationIsQuiet ==
  ASSUME DetectionInv, SettingInv, HeardInv, Settled, ActiveContext, Calm',
         Detection!MoreFives \/ Detection!InitiationUnanswered \/ Detection!Initiation
  PROVE  Settled'
<1>1. kind["passive"] = "classpad_new" /\ pc["active"] \in {"five", "init", "init_nul"}
  BY DEF HeardInv, Placed, Detection!MoreFives, Detection!InitiationUnanswered, Detection!Initiation
<1>2. Incoming \in Seq(Detection!Bytes)
  BY WiresAre DEF ActiveContext
<1>3. Incoming # <<>> => Len(Incoming) >= 1 /\ Head(Incoming) = Incoming[1] /\ 1 \in 1 .. Len(Incoming)
  BY <1>2
<1>4. Detection!TimeRunsOut(1) => Incoming = <<>> /\ Outgoing = <<>>
  BY <1>1, NothingArrives
<1>5. Detection!NextInitiation => pc'["active"] = "init" /\ attempts > 1
  <2>1. \A r \in {"TIMEOUT_START", "TIMEOUT"} : ~Detection!Fails("active", r)
    BY ArrivesAt
  <2> QED
    BY <2>1, ArrivesAt DEF Detection!NextInitiation
<1>6. Detection!Take("active", 1) => 
        /\ Len(Incoming') = Len(Incoming) - 1 /\ \A i \in 1 .. Len(Incoming') : Incoming'[i] = Incoming[i + 1]
        /\ Outgoing' = Outgoing /\ Spent' = Spent /\ Probing'
  <2>1. 1 \in Nat /\ 1 >= 1 /\ pc["active"] # "over" /\ kind["passive"] # "library"
    BY <1>1
  <2> QED
    BY <2>1, TakesQuietly
<1>7. CASE Detection!MoreFives
  <2>0. OfFives(Incoming)
    BY <1>7 DEF Settled, Left, LeftAt, Detection!MoreFives
  <2>1. CASE Incoming # <<>> /\ Detection!Take("active", 1)
    <3>1. Incoming[1] = "05"
      BY <1>3, <2>0, <2>1 DEF OfFives, Within
    <3>2. OfFives(Incoming')
      <4>1. \A i \in 1 .. Len(Incoming') : i + 1 \in 1 .. Len(Incoming)
        BY <1>6, <2>1 DEF ActiveContext
      <4> QED
        BY <1>6, <2>0, <2>1, <4>1 DEF OfFives, Within
    <3>3. Detection!GoTo("active", "five") \/ Detection!Fails("active", "UNKNOWN") \/ Detection!GoTo("active", "init")
      BY <1>7 DEF Detection!MoreFives
    <3>4. ~Detection!Fails("active", "UNKNOWN")
      BY ArrivesAt
    <3>5. pc'["active"] = "five"
      <4>1. ASSUME Detection!FivesAreOver PROVE FALSE
        BY <1>4, <2>1, <4>1 DEF Detection!FivesAreOver
      <4>2. Detection!GoTo("active", "five") \/ Detection!Fails("active", "UNKNOWN")
        BY <1>7, <4>1 DEF Detection!MoreFives
      <4> QED
        BY <3>4, <4>2, ArrivesAt
    <3>6. Left'
      BY <3>2, <3>5 DEF Left, LeftAt, Detection!Probes, OfFives, Within
    <3> QED
      BY <1>6, <2>1, <3>6 DEF Settled
  <2>2. CASE /\ Detection!TimeRunsOut(1) /\ Detection!GoTo("active", "init")
             /\ Detection!TakeAndSend("active", 0, <<"16">>)
    BY <1>1, <1>4, <2>2, ArrivesAt, StartIsQuiet
  <2> QED
    BY <1>7, <2>1, <2>2 DEF Detection!MoreFives, Detection!FivesAreOver, Incoming
<1>8. CASE Detection!InitiationUnanswered
  <2>1. Incoming = <<>> /\ Outgoing = <<>> /\ pc'["active"] = "init" /\ attempts > 1
    BY <1>4, <1>5, <1>8 DEF Detection!InitiationUnanswered
  <2>2. Detection!TakeAndSend("active", 0, <<"16">>)
    BY <1>8, <2>1 DEF Detection!InitiationUnanswered
  <2> QED
    BY <1>1, <2>1, <2>2, StartIsQuiet
<1>9. CASE Detection!Initiation
  <2>0. Incoming # <<>> /\ Head(Incoming) = Incoming[1] /\ pc["active"] \in {"init", "init_nul"}
    BY <1>3, <1>9 DEF Detection!Initiation, Incoming
  <2>1. CASE pc["active"] = "init_nul"
    <3>1. Spent /\ Len(Incoming) = 1 /\ Incoming[1] = "00"
      BY <2>1 DEF Settled, Left, LeftAt
    <3>2. Detection!Found("active", Detection!IfCas300(asked["active"])) /\ Detection!Take("active", 1)
      BY <1>9, <2>0, <2>1, <3>1 DEF Detection!Initiation, Incoming
    <3>3. pc'["active"] = "over" /\ Incoming' = <<>>
      <4>1. Len(Incoming') = 0
        BY <1>6, <3>1, <3>2
      <4> QED
        BY <3>2, <4>1, EmptyOfNone, ArrivesAt
    <3>4. Left'
      BY <1>6, <3>1, <3>2, <3>3 DEF Left, LeftAt, Detection!Probes
    <3> QED
      BY <3>3, <3>4 DEF Settled
  <2>2. CASE pc["active"] = "init"
    <3>1. Outgoing = <<>> /\ Incoming[1] \in {"00", "13"} /\ WholeAnswer(Incoming)
      BY <2>0, <2>2 DEF Settled, Left, LeftAt
    <3>2. CASE Incoming[1] = "00"
      <4>1. Detection!GoTo("active", "init_nul") /\ Detection!Take("active", 1)
        BY <1>9, <2>0, <2>2, <3>2 DEF Detection!Initiation, Incoming
      <4>2. pc'["active"] = "init_nul"
        BY <4>1, ArrivesAt
      <4>3. Len(Incoming') = 1 /\ Incoming'[1] = "00"
        <5>1. Len(Incoming) = 2 /\ Incoming[2] = "00"
          BY <3>1, <3>2 DEF WholeAnswer
        <5>2. Len(Incoming') = 1
          BY <1>6, <4>1, <5>1
        <5>3. 1 \in 1 .. Len(Incoming') /\ 1 + 1 = 2
          BY <5>2
        <5> QED
          BY <1>6, <4>1, <5>1, <5>2, <5>3
      <4>4. Spent'
        BY <1>1, <1>6, <3>1, <4>1 DEF Spent
      <4>5. Left'
        BY <4>2, <4>3, <4>4 DEF Left, LeftAt, Detection!Probes
      <4> QED
        BY <1>6, <4>1, <4>5 DEF Settled
    <3>3. CASE Incoming[1] = "13"
      <4>1. Detection!Found("active", Detection!IfCas300(asked["active"])) /\ Detection!Take("active", 1)
        BY <1>9, <2>0, <2>2, <3>3 DEF Detection!Initiation, Incoming
      <4>2. pc'["active"] = "over" /\ Incoming' = <<>>
        <5>0. Len(Incoming) = 1
          BY <3>1, <3>3 DEF WholeAnswer
        <5>1. Len(Incoming') = 0
          BY <1>6, <4>1, <5>0
        <5> QED
          BY <4>1, <5>1, EmptyOfNone, ArrivesAt
      <4>3. Spent'
        BY <1>1, <1>6, <3>1, <4>1 DEF Spent
      <4>4. Left'
        BY <4>2, <4>3 DEF Left, LeftAt, Detection!Probes
      <4> QED
        BY <4>2, <4>4 DEF Settled
    <3> QED
      BY <3>1, <3>2, <3>3
  <2> QED
    BY <2>0, <2>1, <2>2
<1> QED
  BY <1>7, <1>8, <1>9

LEMMA PacketIsQuiet ==
  ASSUME DetectionInv, SettingInv, HeardInv, Settled, ActiveContext, Calm',
         \/ Detection!AckReceived \/ Detection!AckEnds \/ Detection!NakReceived \/ Detection!NakEnds
  PROVE  Settled'
<1> DEFINE n == IF pc["active"] \in {"ack_end", "nak"} THEN 2 ELSE 3
<1>1. /\ pc["active"] \in {"ack", "ack_end", "nak", "nak_end"} /\ Detection!Take("active", n)
      /\ n \in {2, 3} /\ (n = 2 <=> pc["active"] \in {"ack_end", "nak"})
      /\ buf' = buf \o SubSeq(wire["active"], 1, n)
  BY DEF Detection!AckReceived, Detection!AckEnds, Detection!NakReceived, Detection!NakEnds
<1> HIDE DEF n
<1>2. /\ n <= Len(Incoming) /\ Len(Incoming') = Len(Incoming) - n
      /\ Outgoing' = Outgoing /\ Spent' = Spent /\ (kind["passive"] # "library" => Probing')
  <2>1. n \in Nat /\ n >= 1 /\ pc["active"] # "over"
    BY <1>1
  <2> QED
    BY <1>1, <2>1, TakesQuietly
<1>3. Spent
  BY <1>1 DEF Settled, Left, LeftAt
<1>4. ~Detection!GoTo("active", "unknown")
  BY ArrivesAt DEF Calm
<1>5. ASSUME Len(Incoming') = 0, pc'["active"] = "over" PROVE Settled'
  <2>1. Incoming' = <<>>
    BY <1>5, EmptyOfNone
  <2> QED
    BY <1>2, <1>3, <1>5, <2>1 DEF Settled, Left, LeftAt, Detection!Probes
<1>6. CASE Detection!AckReceived
  <2>1. pc["active"] = "ack" /\ n = 3 /\ Len(buf) = 1 /\ buf \in Seq(Detection!Bytes)
    BY <1>1, <1>6, DetectionParts DEF Detection!AckReceived, HeardInv, Placed
  <2>2. buf'[4] = Incoming[3]
    <3>1. Len(buf) + 3 = 4 /\ 3 \in 1 .. 3 /\ 3 \in Nat
      BY <2>1
    <3>2. \A i \in 1 .. 3 : buf'[Len(buf) + i] = Incoming[i]
      BY <1>1, <1>2, <2>1, BytesAreKept DEF ActiveContext
    <3> QED
      BY <3>1, <3>2
  <2>3. Len(Incoming) = IF Incoming[3] = "01" THEN 4 ELSE 5
    BY <2>1 DEF Settled, Left, LeftAt
  <2>4. pc'["active"] = IF Incoming[3] = "01" THEN "info" ELSE "ack_end"
    BY <1>6, <2>2, ArrivesAt DEF Detection!AckReceived
  <2>5. Len(Incoming') = IF Incoming[3] = "01" THEN 1 ELSE 2
    BY <1>2, <2>1, <2>3
  <2>6. Left'
    BY <1>2, <1>3, <2>4, <2>5 DEF Left, LeftAt, Detection!Probes
  <2> QED
    BY <1>2, <2>6 DEF Settled, ActiveContext
<1>7. CASE Detection!AckEnds
  <2>1. pc["active"] = "ack_end" /\ n = 2
    BY <1>1, <1>7 DEF Detection!AckEnds
  <2>2. Len(Incoming) = 2
    BY <2>1 DEF Settled, Left, LeftAt
  <2>3. Len(Incoming') = 0 /\ pc'["active"] = "over"
    BY <1>2, <1>4, <1>7, <2>1, <2>2, ArrivesAt DEF Detection!AckEnds
  <2> QED
    BY <1>5, <2>3
<1>8. CASE Detection!NakReceived
  <2>1. pc["active"] = "nak" /\ n = 2 /\ pc'["active"] = "nak_end"
    BY <1>1, <1>8, ArrivesAt DEF Detection!NakReceived
  <2>2. Len(Incoming) \in {2, 5}
    BY <2>1 DEF Settled, Left, LeftAt
  <2>3. Len(Incoming') \in {0, 3}
    BY <1>2, <2>1, <2>2
  <2>4. Left'
    BY <1>2, <1>3, <2>1, <2>3 DEF Left, LeftAt, Detection!Probes
  <2> QED
    BY <1>2, <2>4 DEF Settled, ActiveContext
<1>9. CASE Detection!NakEnds
  <2>1. pc["active"] = "nak_end" /\ n = 3
    BY <1>1, <1>9 DEF Detection!NakEnds
  <2>2. Len(Incoming) \in {0, 3}
    BY <2>1 DEF Settled, Left, LeftAt
  <2>3. Len(Incoming') = 0 /\ pc'["active"] = "over"
    BY <1>2, <1>4, <1>9, <2>1, <2>2, ArrivesAt DEF Detection!NakEnds
  <2> QED
    BY <1>5, <2>3
<1> QED
  BY <1>6, <1>7, <1>8, <1>9

LEMMA EndingIsQuiet ==
  ASSUME DetectionInv, SettingInv, HeardInv, Settled, ActiveContext, Calm',
         Detection!Information \/ Detection!OutOfOrder
  PROVE  Settled'
<1>1. \A r : Detection!Fails("active", r) => r \in {"none", "OK"}
  BY ArrivesAt
<1>2. CASE Detection!Information
  <2>1. pc["active"] = "info" /\ Spent /\ Len(Incoming) = 1
    BY <1>2 DEF Detection!Information, Settled, Left, LeftAt
  <2>2. kind["passive"] = "classpad_used" /\ Outgoing = <<>>
    BY <2>1, SaidBy DEF HeardInv, Placed, Spent
  <2>3. /\ Detection!TakeAndSend("active", 1, Detection!Cas300Ack)
        /\ Detection!Found("active", Detection!IfCas300(asked["active"]))
    <3>1. ~Detection!Fails("active", "CORRUPT") /\ ~Detection!Fails("active", "UNKNOWN") /\ ~Detection!Fails("active", "TIMEOUT")
      BY <1>1
    <3> QED
      BY <1>2, <3>1 DEF Detection!Information
  <2>4. pc'["active"] = "over"
    BY <2>3, ArrivesAt
  <2>5. Len(Incoming') = 0 /\ Outgoing' = Detection!Cas300Ack
    <3>1. Detection!Cas300Ack # <<>> /\ <<>> \o Detection!Cas300Ack = Detection!Cas300Ack
      BY BytesOf DEF Detection!Cas300Ack
    <3>2. Len(Incoming') = Len(Incoming) - 1 /\ Outgoing' = Outgoing \o Detection!Cas300Ack
      BY <2>2, <2>3, <3>1, SendsQuietly
    <3> QED
      BY <2>1, <2>2, <3>1, <3>2
  <2>6. Incoming' = <<>>
    BY <2>5, EmptyOfNone
  <2>7. Within(Detection!Cas300Ack, {"06", "d"})
    BY DEF Within, Detection!Cas300Ack
  <2>8. Left'
    BY <2>2, <2>4, <2>5, <2>6, <2>7 DEF Left, LeftAt, Detection!Probes, ActiveContext
  <2> QED
    BY <2>4, <2>8 DEF Settled
<1>3. CASE Detection!OutOfOrder
  <2>1. pc["active"] = "nak_end" /\ Spent
    BY <1>3 DEF Detection!OutOfOrder, Settled, Left, LeftAt
  <2>2. wire["active"] = <<>> /\ wire' = wire /\ Detection!Found("active", Detection!IfCas300(asked["active"]))
    <3>1. ~Detection!Fails("active", "TIMEOUT") /\ ~Detection!Fails("active", "UNKNOWN")
      BY <1>1
    <3> QED
      BY <1>3, <3>1 DEF Detection!OutOfOrder
  <2>3. pc'["active"] = "over" /\ Incoming' = <<>> /\ Outgoing' = Outgoing
    BY <2>2, ArrivesAt DEF Incoming, Outgoing
  <2>4. Spent'
    BY <2>1, <2>3, SpentStays
  <2>5. Left'
    BY <2>3, <2>4 DEF Left, LeftAt, Detection!Probes
  <2> QED
    BY <2>3, <2>5 DEF Settled
<1> QED
  BY <1>2, <1>3

LEMMA ActiveIsQuiet ==
  ASSUME DetectionInv, SettingInv, HeardInv, QuietInv, DetectionInv', Detection!Active
  PROVE  QuietInv'
<1>1. Early'
  BY DetectionParts, ActiveStaysEarly DEF QuietInv
<1>2. ASSUME Calm' PROVE Settled'
  <2>1. Settled /\ ActiveContext
    BY <1>2, CalmBefore
  <2>2. ~Detection!Unknown
    <3>1. ~Detection!GoTo("active", "unknown") /\ ~Detection!Fails("active", "UNKNOWN")
      BY <1>2, <2>1, ArrivesAt DEF Calm
    <3> QED
      BY <3>1 DEF Detection!Unknown
  <2> QED
    BY <1>2, <2>1, <2>2, ProbeIsQuiet, AnswerIsQuiet, InitiationIsQuiet, PacketIsQuiet, EndingIsQuiet DEF Detection!Active
<1> QED
  BY <1>1, <1>2 DEF QuietInv

(* What the passive end does, when all is calm.                             *)
LEMMA AnswersAreWhole ==
  /\ WholeAnswer(Detection!Ack) /\ WholeAnswer(Detection!Nak) /\ WholeAnswer(<<"13">>) /\ WholeAnswer(<<"00", "00">>)
  /\ WholeAnswer(<<"x">>) /\ WholeAnswer(<<"15", "d", "d">>) /\ WholeAnswer(FoundAnswer) /\ WholeAnswer(OtherAnswer)
<1>1. WholeAnswer(FoundAnswer)
  <2>1. FoundAnswer[1] = "06" /\ FoundAnswer[4] = "01" /\ Len(FoundAnswer) = 5
    BY ThreeAndTwo DEF FoundAnswer, Detection!Cas300Ack
  <2> QED
    BY <2>1 DEF WholeAnswer
<1>2. WholeAnswer(OtherAnswer)
  <2>1. OtherAnswer[1] = "06" /\ OtherAnswer[4] = "18" /\ Len(OtherAnswer) = 6
    BY ThreeAndThree DEF OtherAnswer, Detection!Cas300Ack
  <2> QED
    BY <2>1 DEF WholeAnswer
<1>3. WholeAnswer(Detection!Ack) /\ WholeAnswer(Detection!Nak)
  BY DEF WholeAnswer, Detection!Ack, Detection!Nak
<1>4. WholeAnswer(<<"13">>) /\ WholeAnswer(<<"00", "00">>) /\ WholeAnswer(<<"x">>) /\ WholeAnswer(<<"15", "d", "d">>)
  BY DEF WholeAnswer
<1> QED
  BY <1>1, <1>2, <1>3, <1>4

LEMMA LibraryIsQuiet ==
  ASSUME DetectionInv, SettingInv, HeardInv, QuietInv, DetectionInv', Detection!Passive \/ Detection!OpenPassive
  PROVE  QuietInv'
<1>1. /\ Wired /\ EndsAre /\ faults \in Nat /\ kind["passive"] = "library" /\ pc["passive"] # "over"
      /\ result["passive"] = "none"
      /\ UNCHANGED <<kind, faults, late, notices, buf>> /\ Goes("passive", {"first"})
  <2>1. Wired /\ EndsAre /\ faults \in Nat
    BY DetectionParts, DetectionCounts
  <2>2. CASE Detection!Passive
    <3>1. pc["passive"] = "first" /\ Goes("passive", {"first"}) /\ UNCHANGED <<kind, faults, late, notices>>
      BY <2>1, <2>2, PassiveStepGoes
    <3>2. buf' = buf
      BY <2>2 DEF Detection!Passive, Detection!CheckBegins, Detection!ScreenBegins,
         Detection!OtherBegins, Detection!StartReceived, Detection!UnknownReceived, Detection!activeVars
    <3> QED
      BY <2>1, <3>1, <3>2, FirstIsLibrary
  <2>3. CASE Detection!OpenPassive
    <3>1. /\ kind["passive"] = "library" /\ pc["passive"] = "off" /\ Detection!GoTo("passive", "first")
          /\ UNCHANGED <<kind, faults, late, notices, buf>>
      BY <2>3 DEF Detection!OpenPassive, Detection!setting, Detection!counts, Detection!activeVars
    <3>2. Goes("passive", {"first"}) /\ result["passive"] = "none"
      BY <3>1, GoToGoes, DetectionCounts DEF SettingInv
    <3> QED
      BY <2>1, <3>1, <3>2
  <2> QED
    BY <2>2, <2>3
<1>2. pc'["active"] = pc["active"] /\ result'["active"] = result["active"]
  BY <1>1, LeavesOtherEnd, DetectionCounts
<1>3. Early'
  BY <1>1, <1>2, StaysEarly DEF QuietInv
<1>4. ASSUME Calm' PROVE Settled'
  <2>1. Calm /\ Settled
    BY <1>1, <1>2, <1>4 DEF QuietInv, Calm
  <2>2. Incoming = <<>> /\ pc["active"] \notin {"ack", "ack_end", "info", "nak", "nak_end"}
    <3>1. Speech = {}
      BY <1>1 DEF Speech
    <3> QED
      BY <1>1, <3>1, NothingIsHeard
  <2>3. pc["active"] \notin {"over", "five", "init", "init_nul", "unknown"}
    <3>1. pc["active"] \notin {"five", "init", "init_nul"}
      BY <1>1 DEF HeardInv, Placed
    <3>2. pc["active"] # "over"
      <4>1. ~(faults <= 3 /\ result["active"] = "OK")
        BY <1>1 DEF HeardInv, Right
      <4>2. result["active"] # "OK"
        BY <2>1, <4>1 DEF Calm
      <4> QED
        BY <2>1, <4>2, DetectionCounts DEF Calm, SettingInv
    <3> QED
      BY <2>1, <3>1, <3>2 DEF Calm
  <2>4. pc["active"] \in Detection!Probes \cup {"off"}
    <3>1. pc["active"] \in Detection!Places /\ pc["active"] \notin {"first", "packet"}
      BY <1>1, DetectionCounts DEF EndsAre, SettingInv
    <3> QED
      BY <2>2, <2>3, <3>1 DEF Detection!Places
  <2>5. CASE Incoming' = <<>>
    BY <1>1, <1>2, <2>4, <2>5 DEF Settled, Left, LeftAt, Detection!Probes
  <2>6. CASE pc["active"] \in Detection!Probes /\ WholeAnswer(Incoming') /\ pc'["passive"] = "over"
    BY <1>1, <1>2, <2>6 DEF Settled, Left, LeftAt, Detection!Probes, Spent
  <2>7. CASE Detection!OpenPassive
    BY <2>2, <2>5, <2>7 DEF Detection!OpenPassive, Incoming
  <2>8. CASE Detection!Passive
    <3>1. PICK n \in Nat, bs \in {<<>>, <<"13">>, Detection!Ack} :
           /\ Detection!TakeAndSend("passive", n, bs)
           /\ \/ bs = <<>> /\ Detection!GoTo("passive", "first")
              \/ bs = <<>> /\ Detection!Fails("passive", "UNKNOWN")
              \/ bs = Detection!Ack /\ Outgoing[1] = "05" /\ Detection!Over("passive", "OK", "SEVEN")
              \/ bs = <<>> /\ Outgoing[1] = "0B" /\ Detection!Over("passive", "OK", "SEVEN_OHP")
              \/ /\ bs = <<"13">> /\ Outgoing[1] = "16"
                 /\ \E p \in Detection!CasiolinkVariants \cup {"CAS"} : Detection!Over("passive", "OK", p)
      BY <2>8, PassiveFinds
    <3>2. Incoming' \in Detection!Sent("active", bs)
      BY <1>1, <3>1, PassiveSendsBytes
    <3>3. CASE bs = <<>> \/ pc["active"] = "off"
      <4>1. Incoming' = wire["active"]
        BY <3>2, <3>3, BytesAreSent, DetectionCounts
      <4> QED
        BY <2>2, <2>5, <4>1 DEF Incoming
    <3>4. CASE bs # <<>> /\ pc["active"] # "off"
      <4>1. bs \in {<<"13">>, Detection!Ack} /\ \E r, p : Detection!Over("passive", r, p)
        BY <3>1, <3>4
      <4>2. pc'["passive"] = "over"
        BY <1>1, <4>1, DetectionCounts DEF Detection!Over, EndsAre
      <4>3. Incoming' = wire["active"] \/ Incoming' = wire["active"] \o bs \/ Incoming' = Append(wire["active"], "x")
        BY <3>2, BytesAreSent, DetectionCounts
      <4>4. <<>> \o bs = bs /\ Append(<<>>, "x") = <<"x">>
        <5>1. bs \in Seq(Detection!Bytes)
          BY <4>1, BytesOf
        <5> QED
          BY <5>1
      <4>5. Incoming' = <<>> \/ Incoming' = bs \/ Incoming' = <<"x">>
        BY <2>2, <4>3, <4>4 DEF Incoming
      <4>6. Incoming' = <<>> \/ WholeAnswer(Incoming')
        BY <4>1, <4>5, AnswersAreWhole
      <4> QED
        BY <2>4, <2>5, <2>6, <3>4, <4>2, <4>6
    <3> QED
      BY <3>3, <3>4
  <2> QED
    BY <2>7, <2>8
<1> QED
  BY <1>3, <1>4 DEF QuietInv

LEMMA LongerThanSix == \A k \in Nat : k >= 13 => k # 6
OBVIOUS

LEMMA LongerFives ==
  ASSUME NEW s \in Seq(Detection!Bytes), OfFives(s)
  PROVE  OfFives(s \o <<"05">>)
<1>1. <<"05">> \in Seq(Detection!Bytes) /\ Len(<<"05">>) = 1 /\ \A i \in 1 .. 1 : <<"05">>[i] = "05"
  BY BytesOf
<1> DEFINE f == <<"05">>
<1>2. f \in Seq(Detection!Bytes) /\ Len(f) = 1 /\ \A i \in 1 .. Len(f) : f[i] = "05"
  BY <1>1
<1> HIDE DEF f
<1>3. f \in Seq(Detection!Bytes)
  BY <1>2
<1>4. /\ Len(s \o f) = Len(s) + Len(f)
      /\ \A i \in 1 .. Len(s) : (s \o f)[i] = s[i]
      /\ \A i \in 1 .. Len(s \o f) : i > Len(s) => i - Len(s) \in 1 .. Len(f) /\ (s \o f)[i] = f[i - Len(s)]
  BY <1>3, JoinedTo
<1>5. Len(s) \in Nat
  OBVIOUS
<1>6. \A i \in 1 .. Len(s \o f) : i \in 1 .. Len(s) \/ i > Len(s)
  BY <1>2, <1>4, <1>5
<1>7. OfFives(s \o f)
  BY <1>2, <1>4, <1>6 DEF OfFives, Within
<1> QED
  BY <1>7 DEF f

(* A calculator that answers.                                               *)
LEMMA CalculatorIsQuiet ==
  ASSUME DetectionInv, SettingInv, HeardInv, QuietInv, DetectionInv', Detection!CalculatorAnswers
  PROVE  QuietInv'
<1>1. /\ Wired /\ EndsAre /\ kind["passive"] # "library" /\ Outgoing # <<>>
      /\ UNCHANGED <<kind, expected, faults, late, notices, pc, result, buf>>
  BY DetectionParts DEF Detection!CalculatorAnswers, Detection!setting, Detection!counts, Detection!endVars,
     Detection!activeVars, Detection!PassiveReacts, Outgoing
<1>2. Early'
  BY <1>1, StaysEarly DEF QuietInv
<1>3. ASSUME Calm' PROVE Settled'
  <2>1. Calm /\ Settled /\ ~Spent
    BY <1>1, <1>3 DEF QuietInv, Calm, Spent
  <2>2. /\ Incoming \in Seq(Detection!Bytes) /\ Outgoing \in Seq(Detection!Bytes)
        /\ Len(Incoming) \in Nat /\ Len(Outgoing) \in Nat
    BY <1>1, WiresAre
  <2>3. Len(Outgoing) >= 1
    BY <1>1, <2>2
  <2>4. PICK a \in Detection!Answers : Detection!TakeAndSend("passive", a[1], a[2])
    BY DEF Detection!CalculatorAnswers
  <2>5. \/ a = <<1, <<>>>>
        \/ kind["passive"] = "seven" /\ Len(Outgoing) >= 6 /\ Outgoing[1] \in {"01", "05"}
             /\ \E bs \in {Detection!Ack, Detection!Nak, <<>>} : a = <<6, bs>>
        \/ kind["passive"] \in {"cas", "classpad_new"} /\ Outgoing[1] = "16" /\ a = <<1, <<"13">>>>
        \/ kind["passive"] = "classpad_new" /\ Outgoing[1] = "16" /\ a = <<1, <<"00", "00">>>>
        \/ kind["passive"] = "classpad_new" /\ Outgoing[1] # "16" /\ a = <<1, <<"05">>>>
        \/ kind["passive"] = "classpad_used" /\ Len(Outgoing) >= 13 /\ Outgoing[1] = "01"
             /\ \E bs \in IF expected = 0 THEN {FoundAnswer, OtherAnswer} ELSE {<<"15", "d", "d">>} : a = <<13, bs>>
    BY <1>1, AnswersAre
  <2>6. \E n \in {1, 6, 13} : \E bs : a = <<n, bs>>
    BY <2>5
  <2>7. PICK n \in {1, 6, 13} : \E bs : a = <<n, bs>>
    BY <2>6
  <2>8. PICK bs : a = <<n, bs>>
    BY <2>7
  <2>9. a[1] = n /\ a[2] = bs
    BY <2>8
  <2>10. /\ n <= Len(Outgoing) /\ Len(Outgoing') = Len(Outgoing) - n
         /\ \A i \in 1 .. Len(Outgoing') : Outgoing'[i] = Outgoing[i + n]
         /\ Incoming' \in Detection!Sent("active", bs)
    BY <1>1, <2>4, <2>9, PassiveSendsBytes
  <2>11. /\ Incoming' = Incoming \/ Incoming' = Incoming \o bs
         /\ bs = <<>> => Incoming' = Incoming
    <3>1. Detection!Hears
      BY <1>1, CalculatorsHear
    <3> QED
      BY <2>10, <3>1, BytesAreSent, DetectionCounts DEF Incoming
  <2>12. Outgoing' \in Seq(Detection!Bytes)
    <3>1. wire'["passive"] \in Seq(Detection!Bytes)
      BY DetectionCounts DEF DetectionInv, Detection!TypeOK
    <3> QED
      BY <3>1 DEF Outgoing
  <2>13. Len(Outgoing) = n => Outgoing' = <<>>
    <3>1. Len(Outgoing) = n => Len(Outgoing') = 0
      BY <2>10
    <3> QED
      BY <2>12, <3>1
  <2>14. \A S : Within(Outgoing, S) => Within(Outgoing', S)
    BY <2>2, <2>10, SaidOf
  <2>15. CASE pc["active"] = "over"
    <3>1. Incoming = <<>> /\ kind["passive"] = "classpad_used" /\ Within(Outgoing, {"06", "d"})
      BY <2>1, <2>15 DEF Settled, Left, LeftAt
    <3>2. Outgoing[1] # "01"
      <4>1. 1 \in 1 .. Len(Outgoing)
        BY <2>2, <2>3
      <4>2. Outgoing[1] \in {"06", "d"}
        BY <3>1, <4>1 DEF Within
      <4> QED
        BY <4>2
    <3>3. a = <<1, <<>>>>
      BY <2>5, <3>1, <3>2
    <3>4. Incoming' = <<>> /\ Within(Outgoing', {"06", "d"})
      BY <2>8, <2>11, <2>14, <3>1, <3>3
    <3> QED
      BY <1>1, <2>15, <3>1, <3>4 DEF Settled, Left, LeftAt, Detection!Probes
  <2>16. CASE pc["active"] # "over"
    <3>1. Probing
      BY <1>1, <2>1, <2>16 DEF Settled
    <3>2. pc["active"] \in Detection!Probes \cup {"five", "init"}
      <4>1. pc["active"] \in Detection!Places /\ pc["active"] \notin {"first", "packet", "unknown", "off"}
        BY <1>1, <2>1, DetectionCounts DEF EndsAre, SettingInv, Calm, Settled, Left, LeftAt
      <4>2. pc["active"] \notin {"init_nul", "ack", "ack_end", "info", "nak", "nak_end"}
        BY <2>1 DEF Settled, Left, LeftAt
      <4> QED
        BY <2>16, <4>1, <4>2 DEF Detection!Places
    <3>3. pc["active"] = "init" => Outgoing = <<"16">>
      BY <1>1, <2>1 DEF Settled, Left, LeftAt
    <3>4. Incoming = <<>> \/ (OfFives(Incoming) /\ kind["passive"] = "classpad_new")
      <4>1. pc["active"] = "five" => kind["passive"] = "classpad_new"
        BY DEF HeardInv, Placed
      <4>2. pc["active"] = "five" => OfFives(Incoming)
        BY <2>1 DEF Settled, Left, LeftAt
      <4>3. pc["active"] = "init" => Incoming = <<>>
        BY <1>1, <2>1 DEF Settled, Left, LeftAt
      <4>4. pc["active"] \in Detection!Probes => Incoming = <<>> \/ (OfFives(Incoming) /\ kind["passive"] = "classpad_new")
        BY <2>1 DEF Settled, Left, LeftAt
      <4> QED
        BY <3>2, <4>1, <4>2, <4>3, <4>4
    <3>5. CASE Outgoing = <<"16">> /\ Incoming = <<>> /\ pc["active"] # "five"
      <4>1. Len(Outgoing) = 1 /\ Outgoing[1] = "16"
        BY <3>5
      <4>2. a = <<1, bs>> /\ bs \in {<<>>, <<"13">>, <<"00", "00">>} /\ n = 1
        BY <2>5, <2>8, <4>1
      <4>3. Outgoing' = <<>>
        BY <2>13, <4>1, <4>2
      <4>4. Incoming' = <<>> \/ Incoming' = <<"13">> \/ Incoming' = <<"00", "00">>
        <5>1. <<>> \o <<"13">> = <<"13">> /\ <<>> \o <<"00", "00">> = <<"00", "00">>
          OBVIOUS
        <5> QED
          BY <2>11, <3>5, <4>2, <5>1
      <4>5. Spent' /\ Probing'
        BY <1>1, <4>3 DEF Spent, Probing, Sounding, Within
      <4>6. Incoming' = <<>> \/ (Incoming'[1] \in {"00", "13"} /\ WholeAnswer(Incoming'))
        BY <4>4, AnswersAreWhole
      <4>7. Left'
        BY <1>1, <3>2, <3>5, <4>3, <4>5, <4>6 DEF Left, LeftAt, Detection!Probes
      <4> QED
        BY <4>5, <4>7 DEF Settled
    <3>6. ASSUME Sounding, n = 1, bs = <<>> \/ (kind["passive"] = "classpad_new" /\ bs = <<"05">>) PROVE Settled'
      <4>1. Within(Outgoing', {"d", "c"})
        <5>1. CASE Within(Outgoing, {"d", "c"})
          BY <2>14, <5>1
        <5>2. CASE \A i \in 2 .. Len(Outgoing) : Outgoing[i] \in {"d", "c"}
          <6>1. \A i \in 1 .. Len(Outgoing') : i + 1 \in 2 .. Len(Outgoing)
            BY <2>2, <2>10, <3>6
          <6> QED
            BY <2>10, <3>6, <5>2, <6>1 DEF Within
        <5> QED
          BY <3>6, <5>1, <5>2 DEF Sounding
      <4>2. Probing'
        BY <4>1 DEF Probing, Sounding
      <4>3. pc["active"] # "init"
        <5>1. Outgoing # <<"16">>
          <6>1. ASSUME Outgoing = <<"16">> PROVE FALSE
            <7>1. Len(Outgoing) = 1 /\ Outgoing[1] = "16"
              BY <6>1
            <7>2. 1 \in 1 .. Len(Outgoing)
              BY <7>1
            <7> QED
              BY <3>6, <7>1, <7>2 DEF Sounding, Within
          <6> QED
            BY <6>1
        <5> QED
          BY <3>3, <5>1
      <4>4. Incoming' = <<>> \/ (OfFives(Incoming') /\ kind["passive"] = "classpad_new")
        <5>1. CASE bs = <<>>
          BY <2>11, <3>4, <5>1
        <5>2. CASE kind["passive"] = "classpad_new" /\ bs = <<"05">>
          <6>1. OfFives(Incoming)
            <7>1. OfFives(<<>>)
              BY DEF OfFives, Within
            <7> QED
              BY <3>4, <7>1
          <6>2. OfFives(Incoming \o <<"05">>)
            BY <2>2, <6>1, LongerFives
          <6> QED
            BY <2>11, <5>2, <6>1, <6>2
        <5> QED
          BY <3>6, <5>1, <5>2
      <4>5. OfFives(Incoming')
        BY <4>4 DEF OfFives, Within
      <4>6. pc'["active"] \in Detection!Probes \cup {"five"}
        BY <1>1, <3>2, <4>3
      <4>7. Left'
        <5>1. CASE pc'["active"] = "five"
          BY <4>5, <5>1 DEF Left, LeftAt, Detection!Probes, OfFives, Within
        <5>2. CASE pc'["active"] \in Detection!Probes
          <6>1. Incoming' = <<>> \/ (OfFives(Incoming)' /\ kind'["passive"] = "classpad_new")
            BY <1>1, <4>4 DEF OfFives, Within
          <6> QED
            BY <5>2, <6>1 DEF Left, LeftAt, Detection!Probes
        <5> QED
          BY <4>6, <5>1, <5>2
      <4> QED
        BY <4>2, <4>7 DEF Settled
    <3>7. ASSUME Sounding, n # 1,
                 \/ kind["passive"] = "seven" /\ bs \in {Detection!Ack, Detection!Nak, <<>>} /\ n = 6
                 \/ kind["passive"] = "classpad_used" /\ bs \in {FoundAnswer, OtherAnswer, <<"15", "d", "d">>} /\ n = 13,
                 Outgoing[1] \in {"01", "05"}
          PROVE  Settled'
      <4>1. Len(Outgoing) = n
        <5>1. ~Within(Outgoing, {"d", "c"})
          <6>1. 1 \in 1 .. Len(Outgoing)
            BY <2>2, <2>3
          <6> QED
            BY <3>7, <6>1 DEF Within
        <5>2. Len(Outgoing) = 6 \/ (Len(Outgoing) = 13 /\ kind["passive"] = "classpad_used")
          BY <3>7, <5>1 DEF Sounding
        <5>3. CASE kind["passive"] = "seven" /\ n = 6
          <6>1. Len(Outgoing) = 6
            BY <5>2, <5>3
          <6> QED
            BY <5>3, <6>1
        <5>4. CASE kind["passive"] = "classpad_used" /\ n = 13
          <6>1. Len(Outgoing) >= 13
            BY <2>2, <2>10, <5>4
          <6>2. Len(Outgoing) # 6
            BY <2>2, <6>1, LongerThanSix, Zenon
          <6>3. Len(Outgoing) = 13
            BY <5>2, <6>2, Zenon
          <6> QED
            BY <5>4, <6>3
        <5>5. (kind["passive"] = "seven" /\ n = 6) \/ (kind["passive"] = "classpad_used" /\ n = 13)
          BY <3>7, Zenon
        <5> QED
          BY <5>3, <5>4, <5>5
      <4>2. Outgoing' = <<>>
        BY <2>13, <4>1
      <4>3. Spent' /\ Probing'
        BY <1>1, <4>2 DEF Spent, Probing, Sounding, Within
      <4>4. Incoming = <<>> /\ pc["active"] \in Detection!Probes
        <5>1. pc["active"] \notin {"five", "init"}
          BY <3>7 DEF HeardInv, Placed
        <5> QED
          BY <3>2, <3>4, <3>7, <5>1
      <4>5. Incoming' = <<>> \/ Incoming' = bs
        <5>1. bs \in Seq(Detection!Bytes)
          <6>1. /\ FoundAnswer \in Seq(Detection!Bytes) /\ OtherAnswer \in Seq(Detection!Bytes)
                /\ <<"15", "d", "d">> \in Seq(Detection!Bytes)
            BY BytesOf, Concatenated DEF FoundAnswer, OtherAnswer
          <6> QED
            BY <3>7, <6>1, BytesOf
        <5>2. <<>> \o bs = bs
          BY <5>1
        <5> QED
          BY <2>11, <4>4, <5>2
      <4>6. Incoming' = <<>> \/ WholeAnswer(Incoming')
        <5>1. bs = <<>> \/ WholeAnswer(bs)
          BY <3>7, AnswersAreWhole
        <5> QED
          BY <4>5, <5>1
      <4>7. Left'
        BY <1>1, <4>3, <4>4, <4>6 DEF Left, LeftAt, Detection!Probes
      <4> QED
        BY <4>3, <4>7 DEF Settled
    <3>8. CASE Sounding
      <4>1. Outgoing[1] # "16"
        <5>1. 1 \in 1 .. Len(Outgoing)
          BY <2>2, <2>3
        <5> QED
          BY <3>8, <5>1 DEF Sounding, Within
      <4>2. \/ n = 1 /\ (bs = <<>> \/ (kind["passive"] = "classpad_new" /\ bs = <<"05">>))
            \/ /\ n # 1 /\ Outgoing[1] \in {"01", "05"}
               /\ \/ kind["passive"] = "seven" /\ bs \in {Detection!Ack, Detection!Nak, <<>>} /\ n = 6
                  \/ kind["passive"] = "classpad_used" /\ bs \in {FoundAnswer, OtherAnswer, <<"15", "d", "d">>} /\ n = 13
        BY <2>5, <2>8, <4>1
      <4> QED
        BY <3>6, <3>7, <3>8, <4>2
    <3> QED
      BY <3>1, <3>5, <3>8 DEF Probing
  <2> QED
    BY <2>15, <2>16
<1> QED
  BY <1>2, <1>3 DEF QuietInv

(* A step that is not calm, or that does not touch what is calm.            *)
LEMMA NotCalm ==
  ASSUME NEW n \in Nat
  PROVE  n + 1 # 0
OBVIOUS

LEMMA BeginIsQuiet ==
  ASSUME DetectionInv, SettingInv, QuietInv, Detection!Begin
  PROVE  QuietInv'
<1>1. /\ UNCHANGED <<wire, faults, late, notices, result, buf>>
      /\ kind["active"] = "none" /\ pc["active"] = "off"
      /\ pc' = [e \in Detection!Ends |-> IF kind'[e] # "library" THEN "over" ELSE "off"]
  BY DetectionCounts DEF Detection!Begin, Detection!counts, Detection!activeVars
<1>2. Incoming' = <<>> /\ Outgoing' = <<>>
  BY <1>1 DEF SettingInv, Incoming, Outgoing
<1>3. pc'["active"] = IF kind'["active"] # "library" THEN "over" ELSE "off"
  BY <1>1, DetectionCounts
<1>4. Early'
  BY <1>1, <1>3, StaysEarly DEF QuietInv
<1>5. ASSUME Calm' PROVE Settled'
  <2>1. pc'["active"] = "off"
    BY <1>3, <1>5 DEF Calm
  <2>2. Left'
    BY <1>2, <2>1 DEF Left, LeftAt, Detection!Probes
  <2>3. Probing'
    BY <1>2 DEF Probing, Sounding, Within
  <2> QED
    BY <2>2, <2>3 DEF Settled
<1> QED
  BY <1>4, <1>5 DEF QuietInv

LEMMA FaultIsNotCalm ==
  ASSUME DetectionInv, SettingInv, QuietInv, DetectionInv',
         Detection!Lose \/ Detection!Damage \/ \E e \in Detection!Ends : Detection!TransportFails(e)
  PROVE  QuietInv'
<1>1. EndsAre /\ EndsAre' /\ faults \in Nat
  <2>1. \A m \in 0 .. MaxFaults : m \in Nat
    BY DetectionCounts
  <2> QED
    BY <2>1, DetectionParts DEF DetectionInv, Detection!TypeOK, EndsAre
<1>2. faults' = faults + 1 /\ buf' = buf
  BY DEF Detection!Lose, Detection!Damage, Detection!TransportFails, Detection!activeVars
<1>3. pc'["active"] \in {pc["active"], "over"}
  BY <1>1, DetectionCounts DEF Detection!Lose, Detection!Damage, Detection!TransportFails, Detection!Fails, Detection!Over,
     Detection!endVars, EndsAre
<1>4. ~Calm'
  BY <1>1, <1>2, NotCalm DEF Calm
<1> QED
  BY <1>2, <1>3, <1>4, StaysEarly DEF QuietInv

LEMMA NoticeIsNotCalm ==
  ASSUME DetectionInv, SettingInv, QuietInv, Detection!Notice \/ Detection!CalculatorSends
  PROVE  QuietInv'
<1>1. buf' = buf /\ pc' = pc /\ kind' = kind
  BY DEF Detection!Notice, Detection!CalculatorSends, Detection!activeVars, Detection!endVars, Detection!setting
<1>2. notices \in Nat
  BY DetectionParts, DetectionCounts
<1>3. ~Calm'
  <2>1. CASE Detection!Notice
    BY <1>2, <2>1, NotCalm DEF Detection!Notice, Calm
  <2>2. CASE Detection!CalculatorSends
    BY <1>1, <2>2 DEF Detection!CalculatorSends, Calm
  <2> QED
    BY <2>1, <2>2
<1> QED
  BY <1>1, <1>3, StaysEarly DEF QuietInv

LEMMA StepIsQuiet ==
  ASSUME DetectionInv, SettingInv, HeardInv, QuietInv, DetectionInv', Detection!Next
  PROVE  QuietInv'
<1>1. CASE Detection!OpenActive
  <2>1. EndsAre
    BY DetectionParts
  <2>2. Early'
    BY <1>1, <2>1, ActiveStaysEarly DEF QuietInv
  <2> QED
    BY <1>1, <2>2, OpeningIsQuiet DEF QuietInv
<1>2. CASE Detection!Begin
  BY <1>2, BeginIsQuiet
<1>3. CASE Detection!Active
  BY <1>3, ActiveIsQuiet
<1>4. CASE Detection!Passive \/ Detection!OpenPassive
  BY <1>4, LibraryIsQuiet
<1>5. CASE Detection!CalculatorAnswers
  BY <1>5, CalculatorIsQuiet
<1>6. CASE Detection!Notice \/ Detection!CalculatorSends
  BY <1>6, NoticeIsNotCalm
<1>7. CASE Detection!Lose \/ Detection!Damage \/ \E e \in Detection!Ends : Detection!TransportFails(e)
  BY <1>7, FaultIsNotCalm
<1> QED
  BY <1>1, <1>2, <1>3, <1>4, <1>5, <1>6, <1>7 DEF Detection!Next, Detection!Device

(* Detection, whatever its steps.                                           *)
DetectInv == DetectionInv /\ SettingInv /\ HeardInv /\ AskedInv /\ SaidInv /\ QuietInv

LEMMA DetectionBegins == ASSUME Detection!Init PROVE DetectInv
<1>1. DetectionInv /\ SettingInv /\ HeardInv
  BY DetectionInitTypes, DetectionStarts
<1>2. kind["active"] = "none" /\ buf = <<>> /\ pc["active"] = "off"
  BY DetectionCounts DEF Detection!Init
<1>3. SaidInv /\ AskedInv
  <2>1. kind["passive"] = "none"
    BY DetectionCounts DEF Detection!Init
  <2> QED
    BY <1>2, <2>1 DEF SaidInv, AskedInv
<1>4. QuietInv
  BY <1>2 DEF QuietInv, Early, Calm
<1> QED
  BY <1>1, <1>3, <1>4 DEF DetectInv

LEMMA DetectionGoesOn == ASSUME DetectInv, Detection!Next PROVE DetectInv'
<1>1. DetectionInv'
  BY DetectionStepTypes DEF DetectInv
<1>2. SettingInv' /\ HeardInv' /\ AskedInv' /\ SaidInv'
  BY <1>1, StepKeepsSetting, StepIsHeard, StepKeepsAsked, StepSays DEF DetectInv
<1>3. QuietInv'
  BY <1>1, StepIsQuiet DEF DetectInv
<1> QED
  BY <1>1, <1>2, <1>3 DEF DetectInv

LEMMA DetectionStutters ==
  ASSUME DetectInv, UNCHANGED <<wire, faults, late, pc, result, attempts, next_id, expected, buf, protocol, kind, asked,
                                notices, discovered>>
  PROVE  DetectInv'
<1>1. DetectionInv'
  BY DEF DetectInv, DetectionInv, Detection!TypeOK
<1>2. SettingInv' /\ SaidInv'
  BY DEF DetectInv, SettingInv, SaidInv, Saying, Within, Incoming, Outgoing, Detection!Speaks
<1>3. HeardInv' /\ AskedInv'
  BY DEF DetectInv, HeardInv, OnTheWay, Placed, Distinct, Right, Speech, Within, Incoming, AskedInv, Outgoing,
     Detection!Starts
<1>4. QuietInv'
  BY DEF DetectInv, QuietInv, Early, Calm, Settled, Probing, Sounding, Left, LeftAt, Spent, WholeAnswer, OfFives, Within,
     Incoming, Outgoing
<1> QED
  BY <1>1, <1>2, <1>3, <1>4 DEF DetectInv

LEMMA DetectionInvariance == Spec => [](use = "detection" => DetectInv)
<1>1. Init => (use = "detection" => DetectInv)
  BY DetectionBegins DEF Init
<1>2. (use = "detection" => DetectInv) /\ [Next]_vars => (use = "detection" => DetectInv)'
  <2> SUFFICES ASSUME use = "detection" => DetectInv, [Next]_vars PROVE (use = "detection" => DetectInv)'
    OBVIOUS
  <2>1. CASE DetectionOnly /\ Detection!Next
    BY <2>1, DetectionGoesOn DEF DetectionOnly
  <2>2. CASE use # "detection" /\ use' = use
    BY <2>2
  <2>3. CASE UNCHANGED vars
    BY <2>3, DetectionStutters DEF vars, sharedVars, detectionVars
  <2>4. OpeningOnly \/ SettingsOnly \/ ClassPadOnly \/ CasioOnly => use # "detection" /\ use' = use
    BY DEF OpeningOnly, SettingsOnly, ClassPadOnly, CasioOnly, SystemAlone, SessionsAlone
  <2> QED
    BY <2>1, <2>2, <2>3, <2>4 DEF Next
<1> QED
  BY <1>1, <1>2, PTL DEF Spec

LEMMA DetectedIsSpoken == ASSUME DetectInv, faults <= 3 PROVE Detection!ProtocolIsSpoken
<1>1. /\ kind["active"] \in Detection!Actives \cup {"none"} /\ kind["passive"] \in Detection!Passives
      /\ kind["active"] # "none" => kind["active"] = "library" \/ kind["passive"] = "library"
      /\ kind["active"] = "none" => kind["passive"] = "none" /\ result["active"] = "none" /\ result["passive"] = "none"
      /\ kind["active"] \notin {"none", "library"} => result["active"] = "none"
  BY DetectionCounts DEF DetectInv, SettingInv
<1>2. result["active"] = "OK" => Right /\ kind["active"] = "library"
  BY <1>1 DEF DetectInv, HeardInv
<1>3. ASSUME kind["active"] = "library", result["active"] = "OK", kind["passive"] # "library"
      PROVE  protocol["active"] \in Detection!Speaks("passive")
  BY <1>1, <1>2, <1>3 DEF Right, Detection!Speaks, Detection!Passives
<1>4. ASSUME kind["passive"] = "library", result["passive"] = "OK", kind["active"] # "library"
      PROVE  protocol["passive"] \in Detection!Speaks("active")
  BY <1>1, <1>4 DEF DetectInv, SaidInv
<1>5. ASSUME kind["active"] = "library", result["active"] = "OK", kind["passive"] = "library"
      PROVE  protocol["active"] = "SEVEN" <=> protocol["passive"] = "SEVEN"
  BY <1>2, <1>5 DEF Right
<1>6. ASSUME kind["passive"] = "classpad_used", result["active"] = "OK"
      PROVE  next_id = expected /\ (discovered <=> expected = 0)
  BY <1>2, <1>6 DEF Right
<1>7. ASSUME NEW e \in Detection!Ends, kind[e] = "library", result[e] = "OK", kind[Detection!Other(e)] # "library"
      PROVE  protocol[e] \in Detection!Speaks(Detection!Other(e))
  BY <1>3, <1>4, <1>7 DEF Detection!Ends, Detection!Other
<1>8. (\A e \in Detection!Ends : kind[e] = "library" /\ result[e] = "OK")
        => (protocol["active"] = "SEVEN" <=> protocol["passive"] = "SEVEN")
  BY <1>5, DetectionCounts
<1> QED
  BY <1>6, <1>7, <1>8 DEF Detection!ProtocolIsSpoken

LEMMA DetectedIsQuiet == ASSUME DetectInv PROVE Detection!NothingLeftOver
<1> SUFFICES ASSUME result["active"] = "OK", faults + late + notices = 0, buf # <<"00">> PROVE Incoming = <<>>
  BY DEF Detection!NothingLeftOver, Incoming
<1>1. faults \in Nat /\ late \in Nat /\ notices \in Nat
  BY DetectionParts, DetectionCounts DEF DetectInv
<1>2. faults = 0 /\ late = 0 /\ notices = 0
  BY <1>1
<1>3. kind["active"] = "library" /\ pc["active"] = "over"
  BY DetectionCounts DEF DetectInv, SettingInv
<1>4. Left
  BY <1>2, <1>3 DEF DetectInv, QuietInv, Calm, Settled
<1> QED
  BY <1>3, <1>4 DEF Left, LeftAt

(* Whatever end is called, whatever device is at the other end, and however *)
(* many answers are late or sent for nothing: with at most three bytes lost *)
(* or damaged, or transports that fail, the protocol that the detection    *)
(* finds is the one that is spoken, both ends find the same, a session of a *)
(* ClassPad starts from the identifier it expects, and nothing of an answer *)
(* is left over for the session when nothing was lost; for                 *)
(* open/init.c:290-515.  With a fourth, an answer can pass for another.    *)
THEOREM DetectionFindsWhatIsSpoken == Spec => [](faults <= 3 => ProtocolIsSpoken)
<1>1. (use = "detection" => DetectInv) => (faults <= 3 => ProtocolIsSpoken)
  BY DetectedIsSpoken, DetectedIsQuiet DEF ProtocolIsSpoken
<1> QED
  BY <1>1, DetectionInvariance, PTL

=============================================================================
