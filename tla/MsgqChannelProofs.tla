------------------------- MODULE MsgqChannelProofs -------------------------
(***************************************************************************)
(* Msgq implements Channel: a reader that keeps up loses nothing, in a     *)
(* ring with room for three messages of any size and a wraparound tag.     *)
(* The assert of msgq_msg_send grants the three messages and not the tag,  *)
(* and without the tag the theorem is false.                               *)
(*                                                                         *)
(* A reader that keeps up is on time: at its pointer is the message after  *)
(* its last one, or will be (OnTime).  It has at most one unread message   *)
(* when the publisher starts to send (Behind); that message and the one    *)
(* that is sent leave room for a third, so that the publisher does not     *)
(* reach the reader's pointer and never clears its flag (NoHit).  What the *)
(* reader finds beyond the last message of a cycle is the wraparound tag   *)
(* that leads to the next one (TurnsOK).                                   *)
(***************************************************************************)
EXTENDS MsgqOrderProofs

(* Room for three messages of any size, and a tag.                         *)
RoomForTag == \A size \in Sizes : 3 * (size + 1) < Size

(* A wraparound tag is where some message did not fit.                     *)
WrapsOK ==
    /\ \A a \in 0 .. Size - 1 : ring[a] = WrapTag => \E n \in Sizes : a + n + 2 >= Size
    /\ pub.pc \in MayWrap => write_pointer.ptr + pub.size + 2 >= Size

(* A message before a wraparound tag beyond the write pointer: it is the   *)
(* last one of the previous cycle, or older than two messages of it.       *)
TurnsOK ==
    \A a \in 0 .. Size - 1 :
        a > write_pointer.ptr /\ IsTag(ring[a]) /\ ring[a] # WrapTag /\ ring[End(a)] = WrapTag =>
            Number(a) + 1 = First \/ Number(a) + 3 <= First

(* A pointer at which message m + 1 is, or will be.                        *)
OnTime(p, m) ==
    /\ Boundary(p.ptr)
    /\ \/ p.ptr < write_pointer.ptr /\ p.cycles = write_pointer.cycles /\ Number(p.ptr) = m + 1
       \/ p.ptr > write_pointer.ptr /\ p.cycles + 1 = write_pointer.cycles /\ Number(p.ptr) = m + 1
       \/ p.ptr = write_pointer.ptr /\ p.cycles = write_pointer.cycles /\ m = Len(log)
       \/ p.ptr = write_pointer.ptr /\ p.cycles + 1 = write_pointer.cycles /\ m + 2 <= Len(log)

(* The pointer after a wraparound tag.                                     *)
Turned(r) == [cycles |-> rd[r].rp.cycles + 1, ptr |-> 0]

(* The message of n words that the reader is at is the one after its last, *)
(* and leaves it on time.                                                  *)
Exact(r, n) == /\ ring[rd[r].rp.ptr + 1].msg = got[r] + 1
               /\ OnTime(NewPointer(r, n), got[r] + 1)

(* So it is at each step of a call; at a wraparound tag, the reader is on  *)
(* time once it has turned.                                                *)
ReadExact(r) ==
    LET a == rd[r].rp.ptr  w == rd[r].buf[1] IN
    /\ rd[r].pc = "size" => IF ring[a] = WrapTag THEN OnTime(Turned(r), got[r]) ELSE Exact(r, ring[a].n)
    /\ rd[r].pc = "trust" => IF w = WrapTag THEN OnTime(Turned(r), got[r]) ELSE Exact(r, w.n)
    /\ rd[r].pc = "advance" => OnTime(rd[r].wp, got[r])
    /\ rd[r].pc \in {"copy", "store"} => Exact(r, rd[r].size)

(* The publisher is about to clear the reader's flag.                      *)
Doomed(r) == pub.pc \in {"beyond_clear", "evict_clear"} /\ pub.i = rd[r].id

(* A reader that is promised every message, and its slot its own, or found *)
(* so by the call that is under way.                                       *)
Promised(r) == r \notin lagged \cup Lossy \cup adrift
Holds(r)    == rd[r].pc \in Slotted \ {"enter"} /\ (Mine(r).uid = r \/ rd[r].pc \in Checked)

(* How far behind it is at most.                                           *)
Behind(r) == r \notin lagged => /\ Len(log) <= got[r] + 2
                                /\ pub.pc \in Sending => Len(log) <= got[r] + 1

(* It is on time, and keeps its flag once its subscription is complete.    *)
ExactOK(r) ==
    /\ rd[r].pc \in Settled /\ Mine(r).valid => OnTime(Mine(r).pointer, Seen(r))
    /\ rd[r].pc = "final" /\ Mine(r).valid => rd[r].buf[1].msg = got[r] + 1
    /\ rd[r].pc \in Reading /\ Mine(r).valid => ReadExact(r)
    /\ rd[r].pc \in Settled /\ ~rd[r].fresh => Mine(r).valid /\ ~Doomed(r)
    /\ rd[r].pc \in {"reset", "reset_load", "reset_store"} => rd[r].fresh
    /\ rd[r].pc = "reset_store" => OnTime(rd[r].wp, got[r])

(* The inductive part of the refinement, next to MInv and Ordered.         *)
KeepsUp == /\ WrapsOK /\ TurnsOK
           /\ \A r \in Readers : Behind(r) /\ (Promised(r) /\ Holds(r) => ExactOK(r))
----------------------------------------------------------------------------
(* Three messages and a tag.                                               *)
LEMMA Room ==
    ASSUME RoomForTag, NEW n1 \in Sizes, NEW n2 \in Sizes, NEW n3 \in Sizes
    PROVE  /\ Size \in Nat /\ n1 \in Nat /\ n2 \in Nat /\ n3 \in Nat
           /\ n1 + n2 + n3 + 4 <= Size
<1>1. 3 * (n1 + 1) < Size /\ 3 * (n2 + 1) < Size /\ 3 * (n3 + 1) < Size BY DEF RoomForTag
<1>2. Size \in Nat /\ n1 \in Nat /\ n2 \in Nat /\ n3 \in Nat BY Constants
<1> QED BY <1>1, <1>2

(* If at most one message of this cycle has been published, it ends at the *)
(* write pointer.                                                          *)
LEMMA OneSoFar ==
    ASSUME QueueOK, OrderOK, First >= Len(log), write_pointer.ptr # 0
    PROVE  \E n \in Sizes : write_pointer.ptr = n + 1
<1>1. /\ 0 \in 0 .. Size - 1 /\ IsTag(ring[0]) /\ ring[0] # WrapTag /\ End(0) <= write_pointer.ptr
      /\ Number(0) = First /\ Len(log) \in Nat /\ First \in 1 .. Len(log) + 1
    BY FirstMessage
<1>2. Size \in Nat /\ write_pointer.ptr \in 0 .. Size - 1 BY Constants DEF QueueOK, Pointer
<1>3. PICK n \in Sizes : n = ring[0].n /\ n \in Nat BY <1>1, SizedMessage
<1>4. PICK e \in 0 .. Size - 1 : e = End(0) /\ Boundary(e) BY <1>1, SizedMessage
<1>5. e = n + 1 BY <1>3, <1>4 DEF End
<1>6. Coming(e) = First + 1 BY <1>1, <1>2, <1>4 DEF OrderOK
<1>7. e = write_pointer.ptr
  <2> SUFFICES ASSUME e # write_pointer.ptr PROVE FALSE OBVIOUS
  <2>1. Coming(e) = Number(e) /\ IsTag(ring[e]) BY <1>4 DEF Coming, Boundary
  <2>2. e < write_pointer.ptr BY <1>1, <1>2, <1>4
  <2>3. ring[e] # WrapTag BY <1>2, <1>4, <2>1, <2>2 DEF QueueOK, RingOK
  <2>4. Number(e) \in 1 .. Len(log) BY <2>1, <2>3, SizedMessage
  <2> QED BY <1>1, <1>6, <2>1, <2>4
<1> QED BY <1>5, <1>7

(* A reader that is on time and beyond the write pointer, with at most one *)
(* unread message: the publisher has not come near it.                     *)
LEMMA FarAhead ==
    ASSUME RoomForTag, QueueOK, OrderOK, WrapsOK, NEW a \in 0 .. Size - 1, a > write_pointer.ptr, IsTag(ring[a]),
           NEW m \in Nat, Number(a) = m + 1, Len(log) <= m + 1
    PROVE  /\ \A n \in Sizes : n \in Nat /\ write_pointer.ptr + n + 1 <= a /\ write_pointer.ptr + n + 2 < Size
           /\ ring[a] = WrapTag => \A n \in Sizes : write_pointer.ptr + n + 1 <= a
           /\ ring[a] # WrapTag => m + 1 = Len(log)
<1>1. Size \in Nat /\ write_pointer.ptr \in 0 .. Size - 1 /\ Len(log) \in Nat BY Constants DEF QueueOK, Pointer
<1>2. PICK w : w = write_pointer.ptr /\ w \in Nat BY <1>1
<1>3. First \in 1 .. Len(log) + 1 /\ (w # 0 => First <= Len(log)) BY <1>2, FirstMessage
<1>4. CASE ring[a] = WrapTag
  <2>1. First >= Len(log) BY <1>1, <1>3, <1>4 DEF Number
  <2>2. PICK n1 \in Sizes : a + n1 + 2 >= Size BY <1>4 DEF WrapsOK
  <2>3. ASSUME NEW n \in Sizes PROVE n \in Nat /\ w + n + 1 <= a /\ w + n + 2 < Size
    <3>1. CASE w = 0
      <4>1. n1 + n + n + 4 <= Size /\ n \in Nat /\ n1 \in Nat BY Room
      <4> QED BY <1>1, <2>2, <3>1, <4>1
    <3>2. CASE w # 0
      <4>1. PICK n0 \in Sizes : w = n0 + 1 BY <1>2, <2>1, <3>2, OneSoFar
      <4>2. Size \in Nat /\ n0 + n1 + n + 4 <= Size /\ n \in Nat /\ n1 \in Nat /\ n0 \in Nat BY Room
      <4>3. w + n + 2 < Size BY <4>1, <4>2
      <4>4. Size \in Nat /\ a \in Nat /\ a + n1 + 2 >= Size BY <1>1, <2>2
      <4>5. w + n + 1 <= a BY <4>1, <4>2, <4>4
      <4> QED BY <4>2, <4>3, <4>5
    <3> QED BY <3>1, <3>2
  <2> QED BY <1>2, <1>4, <2>3
<1>5. CASE ring[a] # WrapTag
  <2>1. PICK n0 \in Sizes : n0 = ring[a].n /\ n0 \in Nat BY <1>1, <1>5, SizedMessage
  <2>2. PICK e \in 0 .. Size - 1 : e = End(a) /\ Boundary(e) /\ e > a + 1 BY <1>1, <1>5, SizedMessage
  <2>3. Number(a) < First /\ Number(a) \in 1 .. Len(log) BY <1>1, <1>5, SizedMessage DEF OrderOK
  <2>4. w = 0 /\ m + 1 = Len(log) BY <1>1, <1>3, <2>3
  <2>5. ring[e] = WrapTag
    <3> SUFFICES ASSUME ring[e] # WrapTag PROVE FALSE OBVIOUS
    <3>1. Number(e) = Number(a) + 1 BY <1>5, <2>2 DEF OrderOK
    <3>2. e # write_pointer.ptr /\ IsTag(ring[e]) BY <1>1, <2>2 DEF Boundary
    <3>3. Number(e) \in 1 .. Len(log) BY <3>2, SizedMessage
    <3> QED BY <1>1, <2>4, <3>1, <3>3
  <2>6. PICK n1 \in Sizes : e + n1 + 2 >= Size BY <2>5 DEF WrapsOK
  <2>7. e = a + 1 + n0 BY <2>1, <2>2 DEF End
  <2>8. ASSUME NEW n \in Sizes PROVE n \in Nat /\ w + n + 1 <= a /\ w + n + 2 < Size
    <3>1. Size \in Nat /\ n0 + n1 + n + 4 <= Size /\ n \in Nat /\ n1 \in Nat /\ n0 \in Nat BY Room
    <3>2. a \in Nat /\ e = a + 1 + n0 /\ e + n1 + 2 >= Size BY <1>1, <2>6, <2>7
    <3>3. n + 1 <= a BY <3>1, <3>2
    <3>4. n + 2 < Size BY <3>1
    <3> QED BY <2>4, <3>1, <3>3, <3>4
  <2> QED BY <1>2, <1>5, <2>4, <2>8
<1> QED BY <1>4, <1>5

(* The publisher does not hit a reader that is on time, with at most one   *)
(* unread message.                                                         *)
LEMMA NoHit ==
    ASSUME RoomForTag, MInv, OrderOK, WrapsOK, NEW p, p.ptr \in 0 .. Size - 1, NEW m \in Nat, OnTime(p, m),
           pub.pc \in Sending, Len(log) <= m + 1
    PROVE  /\ ~InTheWay(p) /\ Clear(p.ptr)
           /\ pub.pc \in MayWrap => p.cycles = write_pointer.cycles
           /\ p.ptr = write_pointer.ptr => p.cycles = write_pointer.cycles /\ m = Len(log)
           /\ p.ptr > write_pointer.ptr =>
                  /\ write_pointer.ptr + Total <= p.ptr /\ pub.pc \notin MayWrap
                  /\ p.cycles + 1 = write_pointer.cycles /\ Number(p.ptr) = m + 1
<1>1. /\ Size \in Nat /\ write_pointer.ptr \in 0 .. Size - 1 /\ QueueOK /\ Len(log) \in Nat
      /\ Total \in Nat /\ Total > 0 /\ Total = pub.size + 1 /\ pub.size \in Sizes
    BY Numbers DEF MInv, QueueOK, PubType
<1>2. CASE p.ptr < write_pointer.ptr
  <2>1. p.cycles = write_pointer.cycles BY <1>1, <1>2 DEF OnTime
  <2> QED BY <1>1, <1>2, <2>1 DEF InTheWay, Clear
<1>3. CASE p.ptr = write_pointer.ptr
  <2>1. p.cycles = write_pointer.cycles /\ m = Len(log) BY <1>1, <1>3 DEF OnTime
  <2> QED BY <1>1, <1>3, <2>1 DEF InTheWay, Clear
<1>4. CASE p.ptr > write_pointer.ptr
  <2>1. p.cycles + 1 = write_pointer.cycles /\ Number(p.ptr) = m + 1 BY <1>1, <1>4 DEF OnTime
  <2>2. IsTag(ring[p.ptr]) BY <1>1, <1>4 DEF OnTime, Boundary
  <2>3. /\ pub.size \in Nat /\ write_pointer.ptr + pub.size + 1 <= p.ptr
        /\ write_pointer.ptr + pub.size + 2 < Size
    BY <1>1, <1>4, <2>1, <2>2, FarAhead
  <2>4. pub.pc \notin MayWrap BY <1>1, <2>3 DEF WrapsOK
  <2> QED BY <1>1, <1>4, <2>1, <2>3, <2>4 DEF InTheWay, Clear
<1> QED BY <1>1, <1>2, <1>3, <1>4

(* A message that the publisher is not at keeps its number.                *)
LEMMA NumberStays ==
    ASSUME QueueOK, HeaderOK, PubStep, UNCHANGED <<write_pointer, log>>,
           NEW b \in 0 .. Size - 1, b # write_pointer.ptr, IsTag(ring[b]), Clear(b)
    PROVE  First' = First /\ Number(b)' = Number(b) /\ ring'[b] = ring[b]
<1>1. Keeps /\ Size \in Nat /\ write_pointer.ptr \in 0 .. Size - 1
    BY QueueStep, Constants DEF QueueOK, Pointer
<1>2. First' = First
  <2>1. CASE write_pointer.ptr = 0 BY <2>1 DEF First
  <2>2. CASE write_pointer.ptr # 0
    <3>1. 0 \in 0 .. Size - 1 /\ IsTag(ring[0]) /\ ring[0] # WrapTag BY <2>2, FirstMessage
    <3>2. PICK n \in Sizes : n = ring[0].n /\ n \in Nat /\ n > 0 /\ Fits(0, n)
      BY <2>2, <3>1, SizedMessage
    <3>3. Clear(0) BY <1>1 DEF Clear
    <3>4. ring'[0 + 1] = ring[0 + 1]
      <4>1. \A k \in 1 .. n : ring'[0 + k] = ring[0 + k] BY <1>1, <2>2, <3>1, <3>2, <3>3 DEF Keeps
      <4>2. 1 \in 1 .. n BY <3>2
      <4> QED BY <4>1, <4>2
    <3>5. 0 + 1 = 1 OBVIOUS
    <3> QED BY <2>2, <3>4, <3>5 DEF First
  <2> QED BY <2>1, <2>2
<1>3. ring'[b] \in {ring[b], WrapTag} BY <1>1 DEF Keeps
<1>4. CASE ring[b] = WrapTag BY <1>2, <1>3, <1>4 DEF Number
<1>5. CASE ring[b] # WrapTag
  <2>1. ring'[b] = ring[b] BY <1>3, <1>5, NewWrap
  <2>2. PICK n \in Sizes : n = ring[b].n /\ n \in Nat /\ n > 0 /\ Fits(b, n) BY <1>5, SizedMessage
  <2>3. \A k \in 1 .. n : ring'[b + k] = ring[b + k] BY <1>1, <2>2 DEF Keeps
  <2>4. 1 \in 1 .. n BY <2>2
  <2>5. ring'[b + 1] = ring[b + 1] BY <2>3, <2>4
  <2> QED BY <1>2, <1>5, <2>1, <2>5 DEF Number
<1> QED BY <1>4, <1>5, <1>3, <1>2

(* The steps of the publisher, by what they do to the ring.                *)
LEMMA PubCases ==
    ASSUME PubStep
    PROVE  \/ UNCHANGED <<write_pointer, ring, log>>
           \/ /\ SendWrap \/ SendTag \/ SendData
              /\ pub.pc \in Sending /\ UNCHANGED <<write_pointer, log>>
           \/ SendCycle /\ pub.pc = "cycle" /\ pub.pc \in Sending /\ pub.pc \in MayWrap
           \/ SendDone /\ pub.pc = "done" /\ pub.pc \in Sending
BY DEF PubStep, Send, PubStart, PubClear, PubKill, SendBegin, SendBeyond, SendEvict, Loop, SendWrap, SendTag,
       SendData, SendCycle, SendDone, shared, history, Sending, MayWrap

(* A message that does not fit has two before it in its cycle.             *)
LEMMA TwoSoFar ==
    ASSUME RoomForTag, QueueOK, OrderOK, WrapsOK, pub.pc \in MayWrap
    PROVE  First < Len(log) /\ write_pointer.ptr # 0
<1>1. /\ Size \in Nat /\ write_pointer.ptr \in 0 .. Size - 1 /\ write_pointer.ptr > 0 /\ pub.size \in Sizes
    BY Constants DEF QueueOK, Pointer, PubOK, PubType, Sending, MayWrap
<1>2. First \in Nat /\ Len(log) \in Nat BY <1>1, FirstMessage
<1> SUFFICES ASSUME First >= Len(log) PROVE FALSE BY <1>1, <1>2
<1>3. PICK n \in Sizes : write_pointer.ptr = n + 1 BY <1>1, OneSoFar
<1>4. n + pub.size + pub.size + 4 <= Size /\ n \in Nat /\ pub.size \in Nat BY <1>1, Room
<1>5. write_pointer.ptr + pub.size + 2 >= Size BY DEF WrapsOK
<1> QED BY <1>1, <1>3, <1>4, <1>5

(* A reader on time stays on time while the publisher runs, as long as it  *)
(* has at most one unread message when the next one is sent.               *)
LEMMA OnTimeStays ==
    ASSUME RoomForTag, MInv, OrderOK, WrapsOK, PubStep, NEW p, p.ptr \in 0 .. Size - 1, NEW m \in Nat,
           OnTime(p, m), pub.pc \in Sending => Len(log) <= m + 1
    PROVE  OnTime(p, m)'
<1>1. /\ Size \in Nat /\ write_pointer.ptr \in 0 .. Size - 1 /\ write_pointer.cycles \in Nat /\ Len(log) \in Nat
      /\ QueueOK /\ HeaderOK /\ QueueOK' /\ Keeps /\ Boundary(p.ptr)
  <2>1. QueueOK /\ HeaderOK BY DEF MInv
  <2> QED BY <2>1, QueueStep, Numbers DEF QueueOK, OnTime
<1>2. CASE UNCHANGED <<write_pointer, ring, log>>
  <2>1. Number(p.ptr)' = Number(p.ptr) BY <1>2, NumbersStay
  <2> QED BY <1>2, <2>1 DEF OnTime, Boundary
<1>3. ASSUME pub.pc \in Sending
      PROVE  /\ Clear(p.ptr) /\ Boundary(p.ptr)'
             /\ pub.pc \in MayWrap => p.cycles = write_pointer.cycles
             /\ p.ptr = write_pointer.ptr => p.cycles = write_pointer.cycles /\ m = Len(log)
             /\ p.ptr > write_pointer.ptr =>
                    /\ write_pointer.ptr + Total <= p.ptr /\ pub.pc \notin MayWrap
                    /\ p.cycles + 1 = write_pointer.cycles /\ Number(p.ptr) = m + 1
             /\ p.ptr < write_pointer.ptr => p.cycles = write_pointer.cycles /\ Number(p.ptr) = m + 1
  <2>1. Len(log) <= m + 1 BY <1>3
  <2>2. /\ Clear(p.ptr)
        /\ pub.pc \in MayWrap => p.cycles = write_pointer.cycles
        /\ p.ptr = write_pointer.ptr => p.cycles = write_pointer.cycles /\ m = Len(log)
        /\ p.ptr > write_pointer.ptr =>
                    /\ write_pointer.ptr + Total <= p.ptr /\ pub.pc \notin MayWrap
                    /\ p.cycles + 1 = write_pointer.cycles /\ Number(p.ptr) = m + 1
    BY <1>3, <2>1, NoHit
  <2>3. Boundary(p.ptr)' BY <1>1, <2>2 DEF Keeps
  <2>4. p.ptr < write_pointer.ptr => p.cycles = write_pointer.cycles /\ Number(p.ptr) = m + 1 BY <1>1 DEF OnTime
  <2> QED BY <2>2, <2>3, <2>4
<1>4. CASE /\ SendWrap \/ SendTag \/ SendData
           /\ pub.pc \in Sending /\ UNCHANGED <<write_pointer, log>>
  <2>1. CASE p.ptr = write_pointer.ptr BY <1>3, <1>4, <2>1 DEF OnTime
  <2>2. CASE p.ptr # write_pointer.ptr
    <3>1. Number(p.ptr)' = Number(p.ptr) BY <1>1, <1>3, <1>4, <2>2, NumberStays DEF Boundary
    <3> QED BY <1>1, <1>3, <1>4, <2>2, <3>1 DEF OnTime
  <2> QED BY <2>1, <2>2
<1>5. CASE SendCycle /\ pub.pc = "cycle" /\ pub.pc \in Sending /\ pub.pc \in MayWrap
  <2>1. /\ write_pointer'.ptr = 0 /\ write_pointer'.cycles = write_pointer.cycles + 1 /\ UNCHANGED <<ring, log>>
    BY <1>5 DEF SendCycle, history
  <2>2. First < Len(log) /\ write_pointer.ptr # 0 /\ First \in Nat BY <1>1, <1>5, TwoSoFar, FirstMessage
  <2>3. Len(log) <= m + 1 BY <1>5
  <2>4. CASE p.ptr = write_pointer.ptr
    <3>1. ring[p.ptr] = WrapTag BY <1>5, <2>4 DEF MInv, QueueOK, PubOK
    <3>2. Number(p.ptr)' = Len(log) + 1 BY <2>1, <3>1 DEF Number, First
    <3>3. p.cycles + 1 = write_pointer'.cycles /\ m = Len(log) /\ p.ptr > 0 BY <1>1, <1>3, <1>5, <2>1, <2>2, <2>4
    <3> QED BY <1>3, <1>5, <2>1, <3>2, <3>3 DEF OnTime
  <2>5. CASE p.ptr < write_pointer.ptr
    <3>1. p.cycles = write_pointer.cycles /\ Number(p.ptr) = m + 1 BY <1>3, <1>5, <2>5
    <3>2. p.ptr # 0
      <4> SUFFICES ASSUME p.ptr = 0 PROVE FALSE OBVIOUS
      <4>1. Number(0) = First BY <1>1, <2>2, FirstMessage
      <4> QED BY <1>1, <2>2, <2>3, <3>1, <4>1
    <3>3. IsTag(ring[p.ptr]) /\ ring[p.ptr] # WrapTag
      BY <1>1, <2>5 DEF Boundary, QueueOK, RingOK
    <3>4. Number(p.ptr)' = Number(p.ptr) BY <2>1, <3>3 DEF Number
    <3>5. p.ptr > 0 BY <1>1, <3>2
    <3> QED BY <1>3, <1>5, <2>1, <3>1, <3>4, <3>5 DEF OnTime
  <2> QED BY <1>1, <1>3, <1>5, <2>4, <2>5
<1>6. CASE SendDone /\ pub.pc = "done" /\ pub.pc \in Sending
  <2>1. /\ First' = First /\ Number(p.ptr)' = Number(p.ptr) /\ Number(write_pointer.ptr) = Len(log) + 1
    BY <1>1, <1>6, OrderDone
  <2>2. /\ write_pointer'.ptr = write_pointer.ptr + Total /\ write_pointer'.cycles = write_pointer.cycles
        /\ Total \in Nat /\ Total > 0 /\ Total = pub.size + 1
    BY <1>1, <1>6, Numbers DEF SendDone, QueueOK, Pointer
  <2>3. Len(log') = Len(log) + 1 BY <1>1, <1>6 DEF SendDone, QueueOK
  <2>4. Len(log) <= m + 1 BY <1>6
  <2>5. CASE p.ptr <= write_pointer.ptr
    <3>1. p.cycles = write_pointer.cycles /\ Number(p.ptr) = m + 1 BY <1>1, <1>3, <1>6, <2>1, <2>5
    <3>2. p.ptr < write_pointer'.ptr BY <1>1, <2>2, <2>5
    <3> QED BY <1>3, <1>6, <2>1, <2>2, <3>1, <3>2 DEF OnTime
  <2>6. CASE p.ptr > write_pointer.ptr
    <3>1. /\ write_pointer'.ptr <= p.ptr /\ p.cycles + 1 = write_pointer'.cycles /\ Number(p.ptr) = m + 1
      BY <1>3, <1>6, <2>2, <2>6
    <3>2. CASE p.ptr # write_pointer'.ptr
      <4>1. p.ptr > write_pointer'.ptr BY <1>1, <2>2, <3>1, <3>2
      <4> QED BY <1>3, <1>6, <2>1, <3>1, <4>1 DEF OnTime
    <3>3. CASE p.ptr = write_pointer'.ptr
      <4>1. m + 1 <= Len(log)
        <5>1. IsTag(ring[p.ptr]) BY <1>1, <2>6 DEF Boundary
        <5>2. ring[p.ptr] # WrapTag => m + 1 = Len(log) BY <1>1, <2>4, <2>6, <3>1, <5>1, FarAhead
        <5>3. CASE ring[p.ptr] = WrapTag
          <6>1. m + 1 = First BY <3>1, <5>3 DEF Number
          <6>2. write_pointer.ptr # 0
            <7> SUFFICES ASSUME write_pointer.ptr = 0 PROVE FALSE OBVIOUS
            <7>1. PICK n \in Sizes : p.ptr + n + 2 >= Size BY <5>3 DEF WrapsOK
            <7>2. pub.size \in Sizes BY <1>1, <1>6 DEF QueueOK, PubType
            <7>3. n + pub.size + pub.size + 4 <= Size /\ n \in Nat /\ pub.size \in Nat BY <7>2, Room
            <7>4. p.ptr = pub.size + 1 BY <2>2, <3>3, <7>3
            <7> QED BY <1>1, <7>1, <7>3, <7>4
          <6>3. First <= Len(log) BY <1>1, <6>2, FirstMessage
          <6> QED BY <6>1, <6>3
        <5> QED BY <1>1, <5>2, <5>3
      <4>2. m + 2 <= Len(log') BY <1>1, <2>3, <4>1
      <4> QED BY <1>3, <1>6, <3>1, <3>3, <4>2 DEF OnTime
    <3> QED BY <3>2, <3>3
  <2> QED BY <1>1, <2>5, <2>6
<1> QED BY <1>2, <1>4, <1>5, <1>6, PubCases

(* Where a publisher is that comes up.                                     *)
LEMMA ClearMoves == ASSUME QueueOK, PubClear PROVE pub'.pc \in {"idle", "init", "init_uid"}
<1>1. pub \in PubRecord BY DEF QueueOK, PubType
<1>2. CASE pub' = Idle BY <1>2 DEF Idle
<1>3. CASE pub' = [pub EXCEPT !.pc = "init_uid"] BY <1>1, <1>3 DEF PubRecord
<1>4. CASE pub' = [pub EXCEPT !.pc = "init", !.i = @ + 1] BY <1>1, <1>4 DEF PubRecord
<1> QED BY <1>2, <1>3, <1>4 DEF PubClear

(* Wraparound tags are where a message did not fit.                        *)
LEMMA WrapsStep ==
    ASSUME QueueOK, HeaderOK, WrapsOK, PubStep
    PROVE  WrapsOK'
<1>1. Size \in Nat /\ write_pointer.ptr \in 0 .. Size - 1 /\ ring \in [0 .. Size - 1 -> Words]
      /\ pub \in PubRecord /\ pub.size \in Nat /\ Len(log) \in Nat
    BY Constants DEF QueueOK, Pointer, PubType, PubRecord
<1>2. CASE SendBegin
  <2>1. left.sends \in Seq(Sizes) /\ left.sends # << >> BY <1>2 DEF HeaderOK, SendBegin
  <2>2. PICK n \in Sizes : n = Head(left.sends) BY <2>1
  <2>3. n \in Nat BY Constants
  <2>4. pub' = [pub EXCEPT !.size = n, !.n = num_readers, !.i = 1, !.pc = IF MustWrap(n) THEN "wrap" ELSE "evict"]
    BY <1>2, <2>2 DEF SendBegin
  <2>5. pub'.size = n /\ pub'.pc = IF MustWrap(n) THEN "wrap" ELSE "evict" BY <1>1, <2>4 DEF PubRecord
  <2>6. pub'.pc \in MayWrap => write_pointer.ptr + n + 2 >= Size BY <1>1, <2>3, <2>5 DEF MayWrap, MustWrap
  <2>7. UNCHANGED <<write_pointer, ring>> BY <1>2 DEF SendBegin, shared
  <2> QED BY <2>5, <2>6, <2>7 DEF WrapsOK
<1>3. CASE SendWrap
  <2>1. /\ ring' = [ring EXCEPT ![write_pointer.ptr] = WrapTag] /\ write_pointer' = write_pointer
        /\ pub.pc = "wrap" /\ pub' = [pub EXCEPT !.pc = "beyond"]
    BY <1>3 DEF SendWrap
  <2>2. pub.size \in Sizes /\ write_pointer.ptr + pub.size + 2 >= Size /\ pub'.size = pub.size
    BY <1>1, <2>1 DEF QueueOK, PubType, Sending, WrapsOK, MayWrap, PubRecord
  <2>3. \A a \in 0 .. Size - 1 : a # write_pointer.ptr => ring'[a] = ring[a] BY <1>1, <2>1
  <2> QED BY <2>1, <2>2, <2>3 DEF WrapsOK
<1>4. CASE SendTag \/ SendData
  <2>1. /\ write_pointer' = write_pointer /\ pub.pc \in {"tag", "data"}
        /\ pub'.pc \in {"data", "done"}
    BY <1>1, <1>4 DEF SendTag, SendData, PubRecord
  <2>2. pub.size \in Sizes /\ pub.i \in Nat BY <1>1, <2>1 DEF QueueOK, PubType, Sending, PubRecord
  <2>3. \A a \in 0 .. Size - 1 : ring'[a] = WrapTag => ring[a] = WrapTag
    <3>1. CASE SendTag
      <4>1. ring' = [ring EXCEPT ![write_pointer.ptr] = SizeTag(pub.size)] BY <3>1 DEF SendTag
      <4> QED BY <1>1, <2>2, <4>1, Tags
    <3>2. CASE SendData
      <4>1. ring' = [ring EXCEPT ![write_pointer.ptr + pub.i] = Payload(Len(log) + 1, pub.i)] BY <3>2 DEF SendData
      <4>2. Payload(Len(log) + 1, pub.i) # WrapTag BY <1>1, <2>2, Tags, WrittenWords
      <4> QED BY <1>1, <4>1, <4>2
    <3> QED BY <1>4, <3>1, <3>2
  <2> QED BY <2>1, <2>3 DEF WrapsOK, MayWrap
<1>5. CASE SendBeyond
  <2>1. UNCHANGED <<ring, write_pointer>> /\ pub.pc \in MayWrap /\ pub'.size = pub.size
    BY <1>1, <1>5 DEF SendBeyond, Loop, shared, MayWrap, PubRecord
  <2> QED BY <2>1 DEF WrapsOK
<1>6. CASE PubStart \/ PubClear \/ PubKill \/ SendCycle \/ SendEvict \/ SendDone
  <2>1. ring' = ring /\ pub'.pc \notin MayWrap
    <3>1. CASE PubClear \/ SendDone
      <4>1. ring' = ring BY <3>1 DEF PubClear, SendDone
      <4>2. pub'.pc \in {"idle", "init", "init_uid"} BY <3>1, ClearMoves DEF SendDone, Idle
      <4> QED BY <4>1, <4>2 DEF MayWrap
    <3>2. CASE PubStart \/ SendCycle BY <1>1, <3>2 DEF PubStart, SendCycle, MayWrap, PubRecord
    <3>3. CASE PubKill BY <3>3 DEF PubKill, shared, Idle, MayWrap
    <3>4. CASE SendEvict BY <1>1, <3>4 DEF SendEvict, Loop, shared, MayWrap, PubRecord
    <3> QED BY <1>6, <3>1, <3>2, <3>3, <3>4
  <2> QED BY <2>1 DEF WrapsOK
<1> QED BY <1>2, <1>3, <1>4, <1>5, <1>6 DEF PubStep, Send

(* Behind a message comes the next one of its cycle, or the cycle's end.   *)
LEMMA TurnsStep ==
    ASSUME RoomForTag, QueueOK, HeaderOK, OrderOK, WrapsOK, TurnsOK, PubStep
    PROVE  TurnsOK'
<1>1. /\ Size \in Nat /\ write_pointer.ptr \in 0 .. Size - 1 /\ Len(log) \in Nat /\ First \in Nat
      /\ ring \in [0 .. Size - 1 -> Words] /\ QueueOK' /\ pub \in PubRecord
    BY QueueStep, FirstMessage, Constants DEF QueueOK, Pointer, PubType
<1>2. CASE UNCHANGED <<write_pointer, ring, log>>
  <2>1. First' = First /\ \A a : Number(a)' = Number(a) /\ End(a)' = End(a) BY <1>2, NumbersStay DEF End
  <2> QED BY <1>2, <2>1 DEF TurnsOK
<1>3. CASE /\ SendWrap \/ SendTag \/ SendData
           /\ pub.pc \in Sending /\ UNCHANGED <<write_pointer, log>>
  <2> SUFFICES ASSUME NEW a \in 0 .. Size - 1, a > write_pointer.ptr, IsTag(ring'[a]), ring'[a] # WrapTag,
                      ring'[End(a)'] = WrapTag
               PROVE  Number(a)' + 1 = First' \/ Number(a)' + 3 <= First'
    BY <1>3 DEF TurnsOK
  <2>1. PICK x \in 0 .. Size - 1 : /\ \A b \in 0 .. Size - 1 : b # x => ring'[b] = ring[b]
                                   /\ x # a /\ a + 1 # x
                                   /\ x > write_pointer.ptr => ring'[x] # WrapTag
                                   /\ write_pointer.ptr <= x
    <3>1. CASE SendWrap \/ SendTag
      <4>1. \A b \in 0 .. Size - 1 : b # write_pointer.ptr => ring'[b] = ring[b]
        BY <1>1, <3>1 DEF SendWrap, SendTag
      <4> QED BY <1>1, <4>1
    <3>2. CASE SendData
      <4>1. /\ ring' = [ring EXCEPT ![write_pointer.ptr + pub.i] = Payload(Len(log) + 1, pub.i)]
            /\ pub.pc = "data"
        BY <3>2 DEF SendData
      <4>2. /\ pub.size \in Nat /\ pub.i \in 1 .. pub.size /\ Total = pub.size + 1
        BY <1>1, <4>1 DEF QueueOK, PubType, PubRecord, Sending, Total
      <4>3. write_pointer.ptr + Total + 1 < Size BY <4>1 DEF QueueOK, PubOK, Writing
      <4>4. PICK x : x = write_pointer.ptr + pub.i OBVIOUS
      <4>5. x \in 0 .. Size - 1 /\ x > write_pointer.ptr
        <5>1. PICK w, i, n : w = write_pointer.ptr /\ i = pub.i /\ n = pub.size OBVIOUS
        <5>2. /\ w \in Nat /\ n \in Nat /\ Size \in Nat /\ i \in 1 .. n
              /\ w + (n + 1) + 1 < Size /\ x = w + i
          BY <1>1, <4>2, <4>3, <4>4, <5>1
        <5>3. x \in 0 .. Size - 1 /\ x > w BY <5>2
        <5> QED BY <5>1, <5>3
      <4>6. ring'[x] = Payload(Len(log) + 1, pub.i) /\ \A b \in 0 .. Size - 1 : b # x => ring'[b] = ring[b]
        BY <1>1, <4>1, <4>4, <4>5
      <4>7. ~IsTag(ring'[x]) /\ ring'[x] # WrapTag BY <1>1, <4>2, <4>6, Tags, WrittenWords
      <4>8. a + 1 # x
        <5> SUFFICES ASSUME a + 1 = x PROVE FALSE OBVIOUS
        <5>1. PICK k : k = pub.i - 1 OBVIOUS
        <5>2. k \in 1 .. pub.size /\ k \in Nat /\ k < pub.i /\ a = write_pointer.ptr + k
          <6>1. PICK w, i, n : w = write_pointer.ptr /\ i = pub.i /\ n = pub.size OBVIOUS
          <6>2. w \in Nat /\ i \in 1 .. n /\ n \in Nat /\ a \in Nat /\ a > w /\ a + 1 = w + i /\ k = i - 1
            BY <1>1, <4>2, <4>4, <5>1, <6>1
          <6>3. k \in 1 .. n /\ k \in Nat /\ k < i /\ a = w + k BY <6>2
          <6> QED BY <6>1, <6>3
        <5>3. ring[a] = Payload(Len(log) + 1, k) BY <4>1, <5>2 DEF QueueOK, PubOK
        <5>4. ring'[a] = ring[a] BY <4>5, <4>6
        <5> QED BY <1>1, <5>2, <5>3, <5>4, Tags
      <4>9. write_pointer.ptr <= x BY <1>1, <4>5
      <4> QED BY <4>5, <4>6, <4>7, <4>8, <4>9
    <3> QED BY <1>3, <3>1, <3>2
  <2>2. ring'[a] = ring[a] BY <2>1
  <2>3. PICK e \in 0 .. Size - 1 : e = End(a) /\ e > a + 1 /\ a + 1 \in 0 .. Size - 1 BY <1>1, <2>2, SizedMessage
  <2>4. End(a)' = e BY <2>2, <2>3 DEF End
  <2>5. ring[e] = WrapTag
    <3>1. e > write_pointer.ptr BY <1>1, <2>3
    <3>2. e # x BY <1>1, <2>1, <2>4, <3>1
    <3> QED BY <2>1, <2>4, <3>2
  <2>6. ring'[a + 1] = ring[a + 1] BY <2>1, <2>3
  <2>7. Number(a)' = Number(a) BY <2>2, <2>6 DEF Number
  <2>8. First' = First
    <3>1. CASE write_pointer.ptr = 0 BY <1>3, <3>1 DEF First
    <3>2. CASE write_pointer.ptr # 0
      <4>1. write_pointer.ptr > 1 BY <3>2, FirstMessage
      <4>2. 1 \in 0 .. Size - 1 /\ 1 # x BY <1>1, <2>1, <4>1
      <4>3. ring'[1] = ring[1] BY <2>1, <4>2
      <4> QED BY <1>3, <4>3 DEF First
    <3> QED BY <3>1, <3>2
  <2> QED BY <2>2, <2>3, <2>5, <2>7, <2>8 DEF TurnsOK
<1>4. CASE SendCycle /\ pub.pc = "cycle" /\ pub.pc \in Sending /\ pub.pc \in MayWrap
  <2>1. write_pointer'.ptr = 0 /\ UNCHANGED <<ring, log>> /\ ring[write_pointer.ptr] = WrapTag
    BY <1>4 DEF SendCycle, history, QueueOK, PubOK
  <2>2. First < Len(log) /\ write_pointer.ptr # 0 BY <1>4, TwoSoFar
  <2>3. First' = Len(log) + 1 BY <2>1 DEF First
  <2> SUFFICES ASSUME NEW a \in 0 .. Size - 1, IsTag(ring[a]), ring[a] # WrapTag, ring[End(a)] = WrapTag
               PROVE  Number(a)' + 1 = First' \/ Number(a)' + 3 <= First'
    BY <2>1 DEF TurnsOK, End
  <2>4. Number(a)' = Number(a) BY <2>1 DEF Number
  <2>5. a # write_pointer.ptr BY <2>1
  <2>6. PICK e \in 0 .. Size - 1 : e = End(a) /\ Boundary(e) /\ (a < write_pointer.ptr => e <= write_pointer.ptr)
                                   /\ Number(a) \in 1 .. Len(log)
    BY <1>1, <2>5, SizedMessage
  <2>7. CASE a < write_pointer.ptr
    <3>1. e = write_pointer.ptr
      <4> SUFFICES ASSUME e # write_pointer.ptr PROVE FALSE OBVIOUS
      <4>1. IsTag(ring[e]) BY <2>6 DEF Boundary
      <4>2. e > write_pointer.ptr BY <2>6, <4>1 DEF QueueOK, RingOK
      <4> QED BY <1>1, <2>6, <2>7, <4>2
    <3>2. Coming(e) = Number(a) + 1 BY <2>6, <2>7 DEF OrderOK
    <3>3. Coming(e) = Len(log) + 1 BY <3>1 DEF Coming
    <3> QED BY <2>3, <2>4, <3>2, <3>3
  <2>8. CASE a > write_pointer.ptr
    <3>1. Number(a) < First BY <2>8 DEF OrderOK
    <3> QED BY <1>1, <2>2, <2>3, <2>4, <2>6, <3>1
  <2> QED BY <1>1, <2>5, <2>7, <2>8
<1>5. CASE SendDone /\ pub.pc = "done" /\ pub.pc \in Sending
  <2>1. First' = First /\ \A a : Number(a)' = Number(a) BY <1>1, <1>5, OrderDone
  <2>2. ring' = ring /\ \A a : End(a)' = End(a) BY <1>5 DEF SendDone, End
  <2>3. write_pointer'.ptr = write_pointer.ptr + Total /\ Total \in Nat
    BY <1>1, <1>5 DEF SendDone, QueueOK, Pointer, Total, PubRecord
  <2>4. \A a \in 0 .. Size - 1 : a > write_pointer'.ptr => a > write_pointer.ptr BY <1>1, <2>3
  <2> QED BY <2>1, <2>2, <2>4 DEF TurnsOK
<1> QED BY <1>2, <1>3, <1>4, <1>5, PubCases

(* A reader that has not lagged is at most two messages behind, and one    *)
(* while the next one is sent.                                             *)
LEMMA BehindPub ==
    ASSUME MInv, PubStep, NEW r \in Readers, Behind(r)
    PROVE  Behind(r)' /\ (r \notin lagged' => r \notin lagged)
<1>1. /\ Len(log) \in Nat /\ got[r] \in Nat /\ got' = got /\ pub \in PubRecord
    BY LastNumber, PubLeaves DEF MInv, QueueOK, PubType
<1>2. CASE SendBegin
  <2>1. /\ log' = log /\ lagged' = lagged \cup {q \in Readers : Len(log) - got[q] > 1}
    BY <1>2 DEF SendBegin, Backlog
  <2>2. r \notin lagged' => r \notin lagged /\ ~(Len(log) - got[r] > 1) BY <2>1
  <2>3. r \notin lagged' => Len(log) <= got[r] + 1 /\ Len(log) <= got[r] + 2 BY <1>1, <2>2
  <2> QED BY <1>1, <2>1, <2>2, <2>3 DEF Behind
<1>3. CASE SendDone
  <2>1. pub.pc = "done" /\ log' = Append(log, pub.size) /\ pub' = Idle /\ lagged' = lagged BY <1>3 DEF SendDone
  <2>2. Len(log') = Len(log) + 1 BY <2>1 DEF MInv, QueueOK
  <2>3. pub.pc \in Sending /\ pub'.pc \notin Sending BY <2>1 DEF Sending, Idle
  <2> QED BY <1>1, <2>1, <2>2, <2>3 DEF Behind
<1>4. CASE ~SendBegin /\ ~SendDone
  <2>1. log' = log /\ lagged' = lagged
    BY <1>4 DEF PubStep, Send, PubStart, PubClear, PubKill, SendBeyond, SendEvict, Loop, SendWrap, SendTag,
                SendData, SendCycle, history
  <2>2. pub'.pc \in Sending => pub.pc \in Sending
    <3>1. CASE PubStart \/ PubClear \/ PubKill
      <4>1. CASE PubStart BY <1>1, <4>1 DEF PubStart, PubRecord, Sending
      <4>2. CASE PubClear
        <5>1. pub'.pc \in {"idle", "init", "init_uid"} BY <4>2, ClearMoves DEF MInv
        <5> QED BY <5>1 DEF Sending
      <4>3. CASE PubKill BY <4>3 DEF PubKill, Sending, Idle
      <4> QED BY <3>1, <4>1, <4>2, <4>3
    <3>2. CASE SendBeyond \/ SendEvict \/ SendWrap \/ SendTag \/ SendData \/ SendCycle
      BY <3>2 DEF SendBeyond, SendEvict, Loop, SendWrap, SendTag, SendData, SendCycle, Sending
    <3> QED BY <1>4, <3>1, <3>2 DEF PubStep, Send
  <2> QED BY <1>1, <2>1, <2>2 DEF Behind
<1> QED BY <1>2, <1>3, <1>4

(* A message that a reader is at, while another one is sent.               *)
LEMMA ExactStays ==
    ASSUME RoomForTag, MInv, OrderOK, WrapsOK, PubStep, NEW r \in Readers, NEW n, rd' = rd, got' = got,
           NEW a \in 0 .. Size - 1, a = rd[r].rp.ptr, Fits(a, n), a # write_pointer.ptr, Clear(a), Exact(r, n),
           got[r] \in Nat, Len(log) <= got[r] + 1
    PROVE  Exact(r, n)'
<1>1. Keeps /\ n \in Sizes /\ n \in Nat /\ n > 0 /\ Size \in Nat /\ a + 1 + n < Size
    BY QueueStep, Constants DEF MInv, Fits
<1>2. \A k \in 1 .. n : ring'[a + k] = ring[a + k] BY <1>1 DEF Keeps
<1>3. 1 \in 1 .. n BY <1>1
<1>4. ring'[a + 1] = ring[a + 1] BY <1>2, <1>3
<1>5. PICK p : p = NewPointer(r, n) OBVIOUS
<1>6. p.ptr = a + 1 + n
  <2>1. rd[r].rp \in Pointer BY DEF MInv, ReadersOK, RdType
  <2> QED BY <1>5, <2>1 DEF NewPointer, Pointer
<1>7. p.ptr \in 0 .. Size - 1 BY <1>1, <1>6
<1>8. PICK m \in Nat : m = got[r] + 1 /\ Len(log) <= m + 1
  <2>1. Len(log) \in Nat BY DEF MInv, QueueOK
  <2>2. got[r] + 1 \in Nat /\ Len(log) <= (got[r] + 1) + 1 BY <2>1
  <2> QED BY <2>2
<1>9. OnTime(p, m) BY <1>5, <1>8 DEF Exact
<1>10. OnTime(p, m)' BY <1>7, <1>8, <1>9, OnTimeStays
<1>11. NewPointer(r, n)' = p BY <1>5 DEF NewPointer
<1> QED BY <1>4, <1>8, <1>10, <1>11 DEF Exact

(* What a reader that is on time reads is what it is to receive, and stays *)
(* so while the publisher runs.                                            *)
LEMMA PubExactRead ==
    ASSUME RoomForTag, MInv, OrderOK, WrapsOK, PubStep, NEW r \in Readers, rd[r].pc \in Reading, Live(r),
           OnTime(Mine(r).pointer, got[r]), pub.pc \in Sending => Len(log) <= got[r] + 1, ReadExact(r)
    PROVE  ReadExact(r)'
<1>1. rd' = rd /\ got' = got BY PubLeaves DEF MInv
<1>2. CASE UNCHANGED <<write_pointer, ring, log>>
  <2>1. First' = First /\ \A a : Number(a)' = Number(a) BY <1>2, NumbersStay
  <2>2. \A p, m : OnTime(p, m) => OnTime(p, m)' BY <1>2, <2>1 DEF OnTime, Boundary
  <2>3. \A n : NewPointer(r, n)' = NewPointer(r, n) BY <1>1 DEF NewPointer
  <2>4. \A n : Exact(r, n) => Exact(r, n)' BY <1>1, <1>2, <2>2, <2>3 DEF Exact
  <2>5. Turned(r)' = Turned(r) BY <1>1 DEF Turned
  <2> QED BY <1>1, <1>2, <2>2, <2>4, <2>5 DEF ReadExact
<1>3. CASE pub.pc \in Sending
  <2>1. /\ got[r] \in Nat /\ Len(log) \in Nat /\ Len(log) <= got[r] + 1 BY <1>3, LastNumber
  <2>2. PICK a \in 0 .. Size - 1 : a = rd[r].rp.ptr BY Numbers
  <2>3. rd[r].rp = Mine(r).pointer /\ ReadOK(r) BY WhileReading
  <2>4. /\ a # write_pointer.ptr /\ Clear(a)
    <3>1. /\ Clear(a) /\ (a = write_pointer.ptr => rd[r].rp.cycles = write_pointer.cycles)
      BY <1>3, <2>1, <2>2, <2>3, NoHit
    <3>2. Before(rd[r].rp, write_pointer) BY <2>3 DEF ReadOK
    <3>3. write_pointer.cycles \in Nat /\ write_pointer.ptr \in Nat BY Numbers
    <3> QED BY <2>2, <3>1, <3>2, <3>3 DEF Before
  <2>5. Keeps BY QueueStep DEF MInv
  <2>6. \A n : Fits(a, n) /\ Exact(r, n) => Exact(r, n)' BY <1>1, <2>1, <2>2, <2>4, ExactStays
  <2>7. OnTime(Turned(r), got[r]) => OnTime(Turned(r), got[r])'
    <3>1. PICK p : p = Turned(r) OBVIOUS
    <3>2. p.ptr \in 0 .. Size - 1 BY <3>1, Constants DEF Turned
    <3>3. PICK m \in Nat : m = got[r] /\ m = got'[r] BY <1>1, <2>1
    <3>4. Turned(r)' = p BY <1>1, <3>1 DEF Turned
    <3>5. OnTime(p, m) => OnTime(p, m)' BY <2>1, <3>2, <3>3, OnTimeStays
    <3> QED BY <3>1, <3>3, <3>4, <3>5
  <2>8. CASE rd[r].pc = "size"
    <3>1. Readable(a) BY <2>2, <2>3, <2>8 DEF ReadOK
    <3>2. ring'[a] \in {ring[a], WrapTag} BY <2>4, <2>5 DEF Keeps
    <3>3. ring'[a] = ring[a]
      <4>1. ring[a] # WrapTag => ring'[a] # WrapTag BY <2>4, NewWrap DEF MInv
      <4> QED BY <3>2, <4>1
    <3>4. CASE ring[a] = WrapTag
      BY <1>1, <2>2, <2>7, <2>8, <3>3, <3>4 DEF ReadExact
    <3>5. CASE ring[a] # WrapTag
      <4>1. Fits(a, ring[a].n) BY <3>1, <3>5 DEF Readable
      <4>2. Exact(r, ring[a].n) BY <2>2, <2>8, <3>5 DEF ReadExact
      <4>3. Exact(r, ring[a].n)' BY <2>6, <3>3, <4>1, <4>2
      <4> QED BY <1>1, <2>2, <2>8, <3>3, <3>5, <4>3 DEF ReadExact
    <3> QED BY <3>4, <3>5
  <2>9. CASE rd[r].pc = "trust"
    <3>1. PICK w : w = rd[r].buf[1] /\ w = rd'[r].buf[1] BY <1>1
    <3>2. CASE w = WrapTag BY <1>1, <2>7, <2>9, <3>1, <3>2 DEF ReadExact
    <3>3. CASE w # WrapTag
      <4>1. Fits(a, w.n) BY <2>2, <2>3, <2>9, <3>1, <3>3 DEF ReadOK
      <4>2. Exact(r, w.n) BY <2>9, <3>1, <3>3 DEF ReadExact
      <4>3. Exact(r, w.n)' BY <2>6, <4>1, <4>2
      <4> QED BY <1>1, <2>9, <3>1, <3>3, <4>3 DEF ReadExact
    <3> QED BY <3>2, <3>3
  <2>10. CASE rd[r].pc = "advance"
    <3>1. rd[r].wp.ptr \in 0 .. Size - 1 /\ OnTime(rd[r].wp, got[r]) BY <2>10, Numbers DEF ReadExact
    <3>2. PICK p : p = rd[r].wp /\ p = rd'[r].wp BY <1>1
    <3>3. PICK m \in Nat : m = got[r] /\ m = got'[r] BY <1>1, <2>1
    <3>4. OnTime(p, m)' BY <2>1, <3>1, <3>2, <3>3, OnTimeStays
    <3> QED BY <1>1, <2>10, <3>2, <3>3, <3>4 DEF ReadExact
  <2>11. CASE rd[r].pc \in {"copy", "store"}
    <3>1. PICK n : n = rd[r].size OBVIOUS
    <3>2. Fits(a, n) /\ Exact(r, n) BY <2>2, <2>3, <2>11, <3>1 DEF ReadOK, ReadExact
    <3>3. Exact(r, n)' BY <2>6, <3>2
    <3> QED BY <1>1, <2>11, <3>1, <3>3 DEF ReadExact
  <2> QED BY <2>8, <2>9, <2>10, <2>11 DEF Reading
<1> QED BY <1>2, <1>3, PubCases

(* Its flag is not cleared.                                                *)
LEMMA FlagStays ==
    ASSUME RoomForTag, MInv, OrderOK, WrapsOK, PubStep, NEW r \in Readers, rd[r].id \in Slots,
           NEW m \in Nat, OnTime(Mine(r).pointer, m), pub.pc \in Sending => Len(log) <= m + 1,
           Mine(r).valid, ~Doomed(r), r \notin adrift'
    PROVE  Mine(r)'.valid /\ ~Doomed(r)'
<1>1. /\ rd' = rd /\ pub \in PubRecord /\ slot \in [Slots -> [pointer : Pointer, valid : BOOLEAN, uid : Readers \cup {Nobody}]]
      /\ pub.i \in Nat
    BY PubLeaves, Numbers DEF MInv, QueueOK, PubType, HeaderOK
<1>2. PICK j \in Slots : j = rd[r].id OBVIOUS
<1>3. CASE PubClear
  <2>1. pub'.pc \in {"idle", "init", "init_uid"} BY <1>3, ClearMoves DEF MInv
  <2>2. slot'[j].valid = slot[j].valid
    <3>1. CASE pub.pc = "init"
      <4>1. slot' = [slot EXCEPT ![pub.i].valid = FALSE] /\ Holders(pub.i) \subseteq adrift'
        BY <1>3, <3>1 DEF PubClear
      <4>2. pub.i # j BY <1>2, <4>1 DEF Holders
      <4> QED BY <1>1, <4>1, <4>2
    <3>2. CASE pub.pc = "init_uid"
      <4>1. slot' = [slot EXCEPT ![pub.i].uid = Nobody] BY <1>3, <3>2 DEF PubClear
      <4> QED BY <1>1, <4>1
    <3> QED BY <1>3, <3>1, <3>2 DEF PubClear
  <2> QED BY <1>1, <1>2, <2>1, <2>2 DEF Mine, Doomed
<1>4. CASE SendBeyond \/ SendEvict
  <2>1. pub.pc \in Sending BY <1>4 DEF SendBeyond, SendEvict, Loop, Sending
  <2>2. ~InTheWay(slot[j].pointer) /\ (pub.pc \in MayWrap => ~BeyondWrite(slot[j].pointer))
    <3>1. PICK p : p = slot[j].pointer /\ p.ptr \in 0 .. Size - 1 BY Numbers
    <3>2. OnTime(p, m) BY <1>2, <3>1 DEF Mine
    <3>3. ~InTheWay(p) /\ (pub.pc \in MayWrap => p.cycles = write_pointer.cycles) BY <2>1, <3>1, <3>2, NoHit
    <3> QED BY <3>1, <3>3 DEF BeyondWrite
  <2>3. CASE pub.pc \in {"beyond_clear", "evict_clear"}
    <3>1. pub.i # j BY <1>2, <2>3 DEF Doomed
    <3>2. slot' = [slot EXCEPT ![pub.i].valid = FALSE] /\ pub'.pc \in {"beyond", "evict"}
      BY <1>1, <1>4, <2>3 DEF SendBeyond, SendEvict, Loop, PubRecord
    <3>3. slot'[j] = slot[j] BY <1>1, <3>1, <3>2
    <3> QED BY <1>1, <1>2, <3>2, <3>3 DEF Mine, Doomed
  <2>4. CASE pub.pc \notin {"beyond_clear", "evict_clear"}
    <3>1. slot' = slot BY <1>4, <2>4 DEF SendBeyond, SendEvict, Loop, shared
    <3>2. pub'.pc \in {"beyond_clear", "evict_clear"} => pub'.i # j
      <4>1. CASE SendBeyond
        <5>1. pub.pc = "beyond" BY <2>4, <4>1 DEF SendBeyond, Loop
        <5>2. pub.i = j => ~BeyondWrite(slot[pub.i].pointer) BY <2>2, <5>1 DEF MayWrap
        <5>3. \/ BeyondWrite(slot[pub.i].pointer) /\ pub' = [pub EXCEPT !.pc = "beyond_clear"]
              \/ pub' = [pub EXCEPT !.i = @ + 1]
              \/ pub'.pc = "cycle"
          BY <1>1, <2>4, <4>1 DEF SendBeyond, Loop, PubRecord
        <5> QED BY <1>1, <5>1, <5>2, <5>3 DEF PubRecord
      <4>2. CASE SendEvict
        <5>1. pub.pc = "evict" BY <2>4, <4>2 DEF SendEvict, Loop
        <5>2. pub.i = j => ~InTheWay(slot[pub.i].pointer) BY <2>2
        <5>3. \/ InTheWay(slot[pub.i].pointer) /\ pub' = [pub EXCEPT !.pc = "evict_clear"]
              \/ pub' = [pub EXCEPT !.i = @ + 1]
              \/ pub'.pc = "tag"
          BY <1>1, <2>4, <4>2 DEF SendEvict, Loop, PubRecord
        <5> QED BY <1>1, <5>1, <5>2, <5>3 DEF PubRecord
      <4> QED BY <1>4, <4>1, <4>2
    <3> QED BY <1>1, <1>2, <3>1, <3>2 DEF Mine, Doomed
  <2> QED BY <2>3, <2>4
<1>5. CASE PubStep /\ ~PubClear /\ ~SendBeyond /\ ~SendEvict
  <2>1. slot' = slot
    BY <1>5 DEF PubStep, Send, PubStart, PubKill, SendBegin, SendWrap, SendTag, SendData, SendCycle, SendDone, shared
  <2>2. pub'.pc \notin {"beyond_clear", "evict_clear"}
    <3>1. CASE PubStart \/ PubKill \/ SendDone
      <4>1. CASE PubStart BY <1>1, <4>1 DEF PubStart, PubRecord
      <4>2. CASE PubKill BY <4>2 DEF PubKill, Idle
      <4>3. CASE SendDone BY <4>3 DEF SendDone, Idle
      <4> QED BY <3>1, <4>1, <4>2, <4>3
    <3>2. CASE SendBegin
      <4>1. pub'.pc \in {"wrap", "evict"} BY <1>1, <3>2 DEF SendBegin, PubRecord
      <4> QED BY <4>1
    <3>3. CASE SendWrap \/ SendTag \/ SendCycle
      <4>1. CASE SendWrap BY <1>1, <4>1 DEF SendWrap, PubRecord
      <4>2. CASE SendTag BY <1>1, <4>2 DEF SendTag, PubRecord
      <4>3. CASE SendCycle BY <1>1, <4>3 DEF SendCycle, PubRecord
      <4> QED BY <3>3, <4>1, <4>2, <4>3
    <3>4. CASE SendData
      <4>1. pub.pc = "data" /\ (pub' = [pub EXCEPT !.pc = "done"] \/ pub' = [pub EXCEPT !.i = @ + 1])
        BY <3>4 DEF SendData
      <4> QED BY <1>1, <4>1 DEF PubRecord
    <3> QED BY <1>5, <3>1, <3>2, <3>3, <3>4 DEF PubStep, Send
  <2> QED BY <1>1, <2>1, <2>2 DEF Mine, Doomed
<1> QED BY <1>3, <1>4, <1>5

(* A reader that keeps up, under a step of the publisher.                  *)
LEMMA PubExact ==
    ASSUME RoomForTag, MInv, Ordered, WrapsOK, PubStep, NEW r \in Readers, Behind(r),
           Promised(r) /\ Holds(r) => ExactOK(r), Promised(r)', Holds(r)'
    PROVE  ExactOK(r)'
<1>1. /\ rd' = rd /\ got' = got /\ adrift \subseteq adrift'
      /\ \A i \in Slots : /\ slot'[i].pointer = slot[i].pointer
                          /\ slot'[i].valid => slot[i].valid
                          /\ slot'[i].uid \in {slot[i].uid, Nobody}
    BY PubLeaves DEF MInv
<1>2. rd[r].pc \in Slotted /\ rd[r].id \in Slots BY <1>1, Numbers DEF Holds
<1>3. /\ Mine(r)'.pointer = Mine(r).pointer
      /\ Mine(r)'.valid => Mine(r).valid
      /\ Mine(r).uid = r \/ rd[r].pc \in Checked
    BY <1>1, <1>2, NobodyAssumption DEF Mine, Holds
<1>4. r \notin lagged /\ Promised(r)
    <2>1. r \notin lagged' => r \notin lagged BY BehindPub
    <2> QED BY <1>1, <2>1 DEF Promised
<1>5. Holds(r) BY <1>1, <1>3 DEF Holds
<1>6. ExactOK(r) BY <1>4, <1>5
<1>7. /\ got[r] \in Nat /\ Len(log) \in Nat /\ (pub.pc \in Sending => Len(log) <= got[r] + 1)
    BY <1>4, LastNumber DEF Behind
<1>8. Mine(r).valid => Live(r) BY <1>3, <1>4 DEF Live, Promised
<1>9. OrderOK /\ NewerOK(r) BY DEF Ordered
<1>10. ASSUME rd[r].pc \in Settled, Mine(r).valid
       PROVE  Seen(r) \in Nat /\ got[r] <= Seen(r) /\ (pub.pc \in Sending => Len(log) <= Seen(r) + 1)
  <2>1. Live(r) BY <1>8, <1>10
  <2>2. Seen(r) \in Nat BY <1>10, <2>1, LastNumber
  <2>3. got[r] <= Seen(r)
    <3>1. CASE rd[r].pc = "final" BY <1>7, <1>9, <2>1, <2>2, <3>1 DEF NewerOK, Seen
    <3>2. CASE rd[r].pc # "final" BY <1>7, <3>2 DEF Seen
    <3> QED BY <3>1, <3>2
  <2> QED BY <1>7, <2>2, <2>3
<1>11. Seen(r)' = Seen(r) BY <1>1 DEF Seen
<1>12. ASSUME rd[r].pc \in Settled, Mine(r).valid PROVE OnTime(Mine(r).pointer, Seen(r))'
  <2>1. PICK p, m : p = Mine(r).pointer /\ m = Seen(r) OBVIOUS
  <2>2. p.ptr \in 0 .. Size - 1 /\ m \in Nat /\ OnTime(p, m) BY <1>2, <1>6, <1>10, <1>12, <2>1, Numbers DEF ExactOK, Mine
  <2>3. OnTime(p, m)' BY <1>9, <1>10, <1>12, <2>1, <2>2, OnTimeStays
  <2> QED BY <1>3, <1>11, <2>1, <2>3
<1>13. rd[r].pc \in Reading /\ Mine(r).valid => ReadExact(r)'
  <2> SUFFICES ASSUME rd[r].pc \in Reading, Mine(r).valid PROVE ReadExact(r)' OBVIOUS
  <2>1. rd[r].pc \in Settled /\ rd[r].pc # "final" BY DEF Settled, Checked, Reading
  <2>2. OnTime(Mine(r).pointer, got[r]) /\ ReadExact(r) BY <1>6, <2>1 DEF ExactOK, Seen
  <2> QED BY <1>7, <1>8, <1>9, <2>2, PubExactRead
<1>14. ASSUME rd[r].pc \in Settled, ~rd[r].fresh PROVE Mine(r)'.valid /\ ~Doomed(r)'
  <2>1. Mine(r).valid /\ ~Doomed(r) BY <1>6, <1>14 DEF ExactOK
  <2>2. PICK m \in Nat : m = Seen(r) /\ OnTime(Mine(r).pointer, m) BY <1>6, <1>10, <1>14, <2>1 DEF ExactOK
  <2>3. r \notin adrift' BY DEF Promised
  <2> QED BY <1>2, <1>3, <1>9, <1>10, <1>14, <2>1, <2>2, <2>3, FlagStays
<1>15. rd[r].pc = "reset_store" => OnTime(rd[r].wp, got[r])'
  <2> SUFFICES ASSUME rd[r].pc = "reset_store" PROVE OnTime(rd[r].wp, got[r])' OBVIOUS
  <2>1. PICK p, m : p = rd[r].wp /\ m = got[r] /\ p = rd'[r].wp /\ m = got'[r] BY <1>1
  <2>2. p.ptr \in 0 .. Size - 1 /\ m \in Nat /\ OnTime(p, m) BY <1>6, <1>7, <2>1, Numbers DEF ExactOK
  <2>3. OnTime(p, m)' BY <1>7, <1>9, <2>1, <2>2, OnTimeStays
  <2> QED BY <2>1, <2>3
<1> QED BY <1>1, <1>3, <1>6, <1>12, <1>13, <1>14, <1>15 DEF ExactOK
----------------------------------------------------------------------------
(* Steps of a reader.  Who is on time is not their matter.                 *)
LEMMA SameTime ==
    ASSUME UNCHANGED <<write_pointer, ring, log>>, NEW p, NEW m
    PROVE  OnTime(p, m)' <=> OnTime(p, m)
<1>1. PICK a : a = p.ptr OBVIOUS
<1>2. Number(a)' = Number(a) BY NumbersStay
<1> QED BY <1>1, <1>2 DEF OnTime, Boundary

(* Only a new subscription makes up for having lagged.                     *)
LEMMA LaggedStays ==
    ASSUME MInv, NEW r \in Readers, Reader(r), NEW q \in Readers, q # r \/ ~(ResetLoad(r) /\ rd[r].fresh)
    PROVE  /\ q \notin lagged' => q \notin lagged
           /\ Promised(q)' => Promised(q)
<1>1. CASE ResetLoad(r)
  <2>1. adrift' = adrift /\ (q \notin lagged' => q \notin lagged) BY <1>1 DEF ResetLoad
  <2> QED BY <2>1 DEF Promised
<1>2. CASE CheckValid(r)
  <2>1. adrift' = adrift /\ lagged \subseteq lagged' BY <1>2 DEF CheckValid
  <2> QED BY <2>1 DEF Promised
<1>3. CASE SubKill(r) \/ ResetStore(r)
  <2>1. lagged' = lagged \cup (adrift \ adrift') BY <1>3 DEF SubKill, ResetStore
  <2> QED BY <2>1 DEF Promised
<1>5. CASE Enter(r)
  <2>1. lagged' = lagged \cup (adrift \cap {r}) /\ adrift \subseteq adrift' \cup {r} BY <1>5 DEF Enter
  <2> QED BY <2>1 DEF Promised
<1>4. CASE SubStart(r) \/ Claim(r) \/ EvictBegin(r) \/ EvictAll(r) \/ ResetValid(r) \/ CheckUid(r) \/ Compare(r)
           \/ LoadSize(r) \/ Trust(r) \/ Advance(r) \/ Copy(r) \/ Store(r) \/ Final(r)
  <2>1. lagged' = lagged /\ adrift \subseteq adrift'
    BY <1>4 DEF SubStart, Claim, EvictBegin, EvictAll, ResetValid, CheckUid, Compare, LoadSize, Trust, Advance,
                Copy, Store, Final, Disturb, history
  <2> QED BY <2>1 DEF Promised
<1> QED BY <1>1, <1>2, <1>3, <1>4, <1>5 DEF Reader, Recv

(* Who receives a message catches up.                                      *)
LEMMA BehindReader ==
    ASSUME MInv, Ordered, NEW r \in Readers, Reader(r), NEW q \in Readers, Behind(q)
    PROVE  Behind(q)'
<1>1. UNCHANGED <<pub, log>> BY OneReader
<1>2. got[q] \in Nat /\ Len(log) \in Nat BY LastNumber
<1>3. CASE ResetLoad(r) /\ rd[r].fresh /\ q = r
  <2>1. got' = [got EXCEPT ![r] = Len(log)] BY <1>3 DEF ResetLoad
  <2>2. got'[r] = Len(log) BY <2>1 DEF MInv, GotOK
  <2> QED BY <1>1, <1>2, <1>3, <2>2 DEF Behind
<1>4. CASE q # r \/ ~(ResetLoad(r) /\ rd[r].fresh)
  <2>1. q \notin lagged' => q \notin lagged BY <1>4, LaggedStays
  <2>2. got'[q] \in Nat /\ got'[q] >= got[q]
    <3>1. CASE q # r \/ (~Final(r) /\ ~ResetLoad(r)) BY <1>2, <3>1, GotOthers
    <3>2. CASE q = r /\ ResetLoad(r) BY <1>2, <1>4, <3>2 DEF ResetLoad
    <3>3. CASE q = r /\ Final(r)
      <4>1. CASE got' = got BY <1>2, <4>1
      <4>2. CASE got' # got
        <5>1. rd[r].buf[1].msg \in got[r] + 1 .. Len(log) /\ got' = [got EXCEPT ![r] = rd[r].buf[1].msg]
          BY <3>3, <4>2, ReturnMaps
        <5>2. got'[r] = rd[r].buf[1].msg BY <5>1 DEF MInv, GotOK
        <5> QED BY <1>2, <3>3, <5>1, <5>2
      <4> QED BY <4>1, <4>2
    <3> QED BY <3>1, <3>2, <3>3
  <2> QED BY <1>1, <1>2, <2>1, <2>2 DEF Behind
<1> QED BY <1>3, <1>4

(* Nobody touches the slot of a reader that is not set adrift by it, but   *)
(* to clear its uid.                                                       *)
LEMMA SlotStays ==
    ASSUME MInv, NEW r \in Readers, Reader(r), NEW q \in Readers \ {r}, q \notin adrift', NEW i \in Slots, i = rd[q].id
    PROVE  /\ slot'[i].pointer = slot[i].pointer /\ slot'[i].valid = slot[i].valid
           /\ slot'[i].uid \in {slot[i].uid, Nobody}
<1>1. RdType(r) /\ slot \in [Slots -> [pointer : Pointer, valid : BOOLEAN, uid : Readers \cup {Nobody}]]
    BY DEF MInv, ReadersOK, HeaderOK
<1>2. CASE SubStart(r) \/ SubKill(r) \/ Claim(r) \/ EvictBegin(r) \/ ResetLoad(r) \/ CheckUid(r) \/ CheckValid(r)
           \/ Compare(r) \/ LoadSize(r) \/ Trust(r) \/ Copy(r) \/ Final(r)
    BY <1>2 DEF SubStart, SubKill, Claim, EvictBegin, ResetLoad, CheckUid, CheckValid, Compare, LoadSize, Trust, Copy,
                Final, shared, history
<1>3. CASE EvictAll(r)
  <2>1. PICK j \in Slots : j = rd[r].size BY <1>1, <1>3 DEF EvictAll, RdType
  <2>2. \/ slot' = [slot EXCEPT ![j].valid = FALSE] /\ Sharing(r, j) \subseteq adrift'
        \/ slot' = [slot EXCEPT ![j].uid = Nobody]
    BY <1>3, <2>1 DEF EvictAll, Disturb
  <2>3. CASE slot' = [slot EXCEPT ![j].valid = FALSE] /\ Sharing(r, j) \subseteq adrift'
    <3>1. i # j BY <2>3 DEF Sharing, Holders
    <3> QED BY <1>1, <2>3, <3>1
  <2>4. CASE slot' = [slot EXCEPT ![j].uid = Nobody] BY <1>1, <2>4
  <2> QED BY <2>2, <2>3, <2>4
<1>4. CASE Enter(r) \/ ResetValid(r) \/ ResetStore(r) \/ Advance(r) \/ Store(r)
  <2>1. PICK j \in Slots : j = rd[r].id
    BY <1>1, <1>4 DEF Enter, ResetValid, ResetStore, Advance, Store, RdType, Slotted, Settled, Checked, Reading
  <2>2. i # j BY <1>4, <2>1 DEF Enter, ResetValid, ResetStore, Advance, Store, Disturb, Sharing, Holders
  <2>3. \E v : slot' = [slot EXCEPT ![j] = v] BY <1>4, <2>1 DEF Enter, ResetValid, ResetStore, Advance, Store
  <2> QED BY <1>1, <2>2, <2>3
<1> QED BY <1>2, <1>3, <1>4 DEF Reader, Recv

(* The others stay on time.                                                *)
LEMMA OthersExact ==
    ASSUME MInv, NEW r \in Readers, Reader(r), NEW q \in Readers \ {r},
           Promised(q) /\ Holds(q) => ExactOK(q), Promised(q)', Holds(q)'
    PROVE  ExactOK(q)'
<1>1. /\ UNCHANGED <<write_pointer, ring, pub, log>> /\ rd'[q] = rd[q] /\ got'[q] = got[q]
    BY OneReader, GotOthers
<1>2. rd[q].id \in Slots BY <1>1, Numbers DEF Holds
<1>3. /\ Mine(q)'.pointer = Mine(q).pointer /\ Mine(q)'.valid = Mine(q).valid
      /\ Mine(q)'.uid \in {Mine(q).uid, Nobody}
    BY <1>1, <1>2, SlotStays DEF Mine, Promised
<1>4. Promised(q) /\ Holds(q) BY <1>1, <1>3, LaggedStays, NobodyAssumption DEF Holds
<1>5. ExactOK(q) BY <1>4
<1>6. ASSUME NEW p, NEW m PROVE OnTime(p, m)' <=> OnTime(p, m) BY <1>1, SameTime
<1>7. Seen(q)' = Seen(q) /\ (Doomed(q)' <=> Doomed(q)) BY <1>1 DEF Seen, Doomed
<1>8. ReadExact(q)' <=> ReadExact(q)
  <2>1. Turned(q)' = Turned(q) /\ \A n : NewPointer(q, n)' = NewPointer(q, n) BY <1>1 DEF Turned, NewPointer
  <2>2. ASSUME NEW n PROVE Exact(q, n)' <=> Exact(q, n)
    <3>1. PICK p, m : p = NewPointer(q, n) /\ m = got[q] + 1 OBVIOUS
    <3>2. OnTime(p, m)' <=> OnTime(p, m) BY <1>6
    <3> QED BY <1>1, <2>1, <3>1, <3>2 DEF Exact
  <2>3. OnTime(Turned(q), got[q])' <=> OnTime(Turned(q), got[q])
    <3>1. PICK p, m : p = Turned(q) /\ m = got[q] OBVIOUS
    <3>2. OnTime(p, m)' <=> OnTime(p, m) BY <1>6
    <3> QED BY <1>1, <2>1, <3>1, <3>2
  <2>4. OnTime(rd[q].wp, got[q])' <=> OnTime(rd[q].wp, got[q])
    <3>1. PICK p, m : p = rd[q].wp /\ m = got[q] OBVIOUS
    <3>2. OnTime(p, m)' <=> OnTime(p, m) BY <1>6
    <3> QED BY <1>1, <3>1, <3>2
  <2> QED BY <1>1, <2>2, <2>3, <2>4 DEF ReadExact
<1>9. OnTime(Mine(q).pointer, Seen(q))' <=> OnTime(Mine(q).pointer, Seen(q))
  <2>1. PICK p, m : p = Mine(q).pointer /\ m = Seen(q) OBVIOUS
  <2>2. OnTime(p, m)' <=> OnTime(p, m) BY <1>6
  <2> QED BY <1>3, <1>7, <2>1, <2>2
<1>10. OnTime(rd[q].wp, got[q])' <=> OnTime(rd[q].wp, got[q])
  <2>1. PICK p, m : p = rd[q].wp /\ m = got[q] OBVIOUS
  <2>2. OnTime(p, m)' <=> OnTime(p, m) BY <1>6
  <2> QED BY <1>1, <2>1, <2>2
<1> QED BY <1>1, <1>3, <1>5, <1>7, <1>8, <1>9, <1>10 DEF ExactOK

(* Coming and going leaves the subscription as new as it was.              *)
LEMMA FreshStays ==
    ASSUME MInv, NEW r \in Readers, NEW pc, Clean(r, pc) \/ Goto(r, pc)
    PROVE  rd'[r].fresh = rd[r].fresh
<1>1. RdType(r) BY DEF MInv, ReadersOK
<1>2. CASE Clean(r, pc)
  <2>1. rd'[r] = [Off EXCEPT !.pc = pc, !.id = rd[r].id, !.fresh = rd[r].fresh] BY <1>2, RdUpdate DEF Clean
  <2> QED BY <2>1 DEF Off
<1>3. CASE Goto(r, pc)
  <2>1. rd'[r] = [rd[r] EXCEPT !.pc = pc] BY <1>3, RdUpdate DEF Goto
  <2> QED BY <1>1, <2>1 DEF RdType
<1> QED BY <1>2, <1>3

(* A reader that moves on without touching its slot.                       *)
LEMMA ExactStands ==
    ASSUME MInv, NEW r \in Readers, ExactOK(r), rd[r].pc \in Settled, rd[r].pc # "final",
           UNCHANGED <<write_pointer, ring, pub, log, slot>>, got'[r] = got[r],
           rd'[r].id = rd[r].id, rd'[r].pc \in Settled, rd'[r].pc # "final",
           ~rd'[r].fresh => Mine(r).valid /\ ~Doomed(r),
           Mine(r).valid /\ rd'[r].pc \in Reading => ReadExact(r)'
    PROVE  ExactOK(r)'
<1>1. Mine(r)' = Mine(r) /\ (Doomed(r)' <=> Doomed(r)) BY DEF Mine, Doomed
<1>2. Seen(r)' = got[r] /\ Seen(r) = got[r] BY DEF Seen
<1>3. Mine(r).valid => OnTime(Mine(r).pointer, Seen(r))'
  <2>1. PICK p, m : p = Mine(r).pointer /\ m = got[r] OBVIOUS
  <2>2. OnTime(p, m)' <=> OnTime(p, m) BY SameTime
  <2> QED BY <1>1, <1>2, <2>1, <2>2 DEF ExactOK
<1>4. rd'[r].pc \notin {"reset", "reset_load", "reset_store"} BY DEF Settled, Checked, Reading
<1> QED BY <1>1, <1>3, <1>4 DEF ExactOK

(* One that starts a reset, or has crashed.                                *)
LEMMA ExactUnsettled ==
    ASSUME NEW r \in Readers, rd'[r].pc \in {"reset", "reset_load", "crashed"},
           rd'[r].pc # "crashed" => rd'[r].fresh
    PROVE  ExactOK(r)'
BY DEF ExactOK, Settled, Checked, Reading

(* A reset: it is on time by the pointer it has loaded.                    *)
LEMMA SelfExactResets ==
    ASSUME MInv, NEW r \in Readers,
           \/ SubStart(r) \/ SubKill(r) \/ Claim(r) \/ EvictBegin(r) \/ EvictAll(r) \/ Enter(r) \/ ResetValid(r)
           \/ ResetLoad(r) \/ ResetStore(r),
           Promised(r) /\ Holds(r) => ExactOK(r), Promised(r)', Holds(r)'
    PROVE  ExactOK(r)'
<1>1. RdType(r) BY DEF MInv, ReadersOK
<1>2. Reader(r) BY DEF Reader, Recv
<1>3. CASE SubStart(r)
  <2>1. rd'[r] = [rd[r] EXCEPT !.pc = "claim"] BY <1>3, RdUpdate DEF SubStart, Goto
  <2>2. rd'[r].pc = "claim" BY <1>1, <2>1 DEF RdType
  <2> QED BY <2>2 DEF Holds, Slotted, Settled, Checked, Reading
<1>4. CASE SubKill(r)
  <2>1. rd'[r] = Off BY <1>4, RdUpdate DEF SubKill
  <2>2. rd'[r].pc = "off" BY <2>1 DEF Off
  <2> QED BY <2>2 DEF Holds, Slotted, Settled, Checked, Reading
<1>5. CASE Claim(r)
  <2>1. \/ rd'[r] = [Off EXCEPT !.pc = "enter", !.id = num_readers + 1]
        \/ rd'[r] = [Off EXCEPT !.pc = "full"]
    BY <1>5, RdUpdate DEF Claim
  <2>2. rd'[r].pc \in {"enter", "full"} BY <2>1 DEF Off
  <2> QED BY <2>2 DEF Holds, Slotted, Settled, Checked, Reading
<1>11. CASE EvictBegin(r)
  <2>1. rd'[r] = [Off EXCEPT !.pc = "evict", !.size = 1] BY <1>11, RdUpdate DEF EvictBegin
  <2>2. rd'[r].pc = "evict" BY <2>1 DEF Off
  <2> QED BY <2>2 DEF Holds, Slotted, Settled, Checked, Reading
<1>6. CASE EvictAll(r)
  <2>1. rd'[r].pc \in {"claim", "evict", "evict_uid"}
    <3>1. CASE rd[r].pc = "evict"
      <4>1. rd'[r] = [rd[r] EXCEPT !.pc = "evict_uid"] BY <1>6, <3>1, RdUpdate DEF EvictAll, Goto
      <4> QED BY <1>1, <4>1 DEF RdType
    <3>2. CASE rd[r].pc = "evict_uid" /\ rd[r].size = NUM_READERS
      <4>1. rd'[r] = [Off EXCEPT !.pc = "claim"] BY <1>6, <3>2, RdUpdate DEF EvictAll
      <4> QED BY <4>1 DEF Off
    <3>3. CASE rd[r].pc = "evict_uid" /\ rd[r].size # NUM_READERS
      <4>1. rd' = [rd EXCEPT ![r].pc = "evict", ![r].size = @ + 1] BY <1>6, <3>3 DEF EvictAll
      <4>2. rd = [q \in Readers |-> rd[q]] BY DEF MInv
      <4>3. rd'[r] = [rd[r] EXCEPT !.pc = "evict", !.size = @ + 1] BY <4>1, <4>2
      <4> QED BY <1>1, <4>3 DEF RdType
    <3> QED BY <1>6, <3>1, <3>2, <3>3 DEF EvictAll
  <2> QED BY <2>1 DEF Holds, Slotted, Settled, Checked, Reading
<1>7. CASE Enter(r)
  <2>1. rd'[r] = [rd[r] EXCEPT !.pc = "reset", !.fresh = TRUE] BY <1>7, RdUpdate DEF Enter
  <2>2. rd'[r].pc = "reset" /\ rd'[r].fresh BY <1>1, <2>1 DEF RdType
  <2> QED BY <2>2, ExactUnsettled
<1>8. CASE ResetValid(r)
  <2>1. rd[r].pc = "reset" /\ rd[r].pc \in Slotted /\ Goto(r, "reset_load") BY <1>8 DEF ResetValid, Slotted
  <2>2. rd'[r].pc = "reset_load" /\ rd'[r].id = rd[r].id /\ rd'[r].fresh = rd[r].fresh BY <2>1, Moved, FreshStays
  <2>3. rd[r].id \in Slots BY <2>1, Numbers
  <2>4. Mine(r)'.uid = Mine(r).uid
    <3>1. slot' = [slot EXCEPT ![rd[r].id].valid = TRUE] BY <1>8 DEF ResetValid
    <3> QED BY <2>2, <2>3, <3>1 DEF MInv, HeaderOK, Mine
  <2>5. Promised(r) BY <1>2, <1>8, <2>1, LaggedStays DEF ResetLoad
  <2>6. Holds(r) BY <2>1, <2>2, <2>4 DEF Holds, Checked, Reading
  <2>7. rd[r].fresh BY <2>1, <2>5, <2>6 DEF ExactOK
  <2> QED BY <2>2, <2>7, ExactUnsettled
<1>9. CASE ResetLoad(r)
  <2>1. rd[r].pc = "reset_load" /\ rd[r].pc \in Slotted BY <1>9 DEF ResetLoad, Slotted
  <2>2. rd'[r] = [rd[r] EXCEPT !.pc = "reset_store", !.wp = write_pointer] BY <1>9, RdUpdate DEF ResetLoad
  <2>3. /\ rd'[r].pc = "reset_store" /\ rd'[r].wp = write_pointer /\ rd'[r].id = rd[r].id
        /\ rd'[r].fresh = rd[r].fresh
    BY <1>1, <2>2 DEF RdType
  <2>4. UNCHANGED <<write_pointer, ring, log, slot>> BY <1>9 DEF ResetLoad, shared
  <2>5. rd[r].fresh
    <3> SUFFICES ASSUME ~rd[r].fresh PROVE FALSE OBVIOUS
    <3>1. Promised(r) BY <1>2, LaggedStays
    <3>2. Holds(r) BY <2>1, <2>3, <2>4 DEF Holds, Mine, Checked, Reading
    <3> QED BY <2>1, <3>1, <3>2 DEF ExactOK
  <2>6. got'[r] = Len(log)
    <3>1. got' = [got EXCEPT ![r] = Len(log)] BY <1>9, <2>5 DEF ResetLoad
    <3> QED BY <3>1 DEF MInv, GotOK
  <2>7. OnTime(rd[r].wp, got[r])'
    <3>1. PICK p, m : p = write_pointer /\ m = Len(log) OBVIOUS
    <3>2. OnTime(p, m) BY <3>1 DEF OnTime, Boundary
    <3>3. OnTime(p, m)' BY <2>4, <3>2, SameTime
    <3> QED BY <2>3, <2>6, <3>1, <3>3
  <2> QED BY <2>3, <2>5, <2>7 DEF ExactOK, Settled, Checked, Reading
<1>10. CASE ResetStore(r)
  <2>1. rd[r].pc = "reset_store" /\ rd[r].pc \in Slotted /\ Clean(r, "start") BY <1>10 DEF ResetStore, Slotted
  <2>2. rd'[r].pc = "start" /\ rd'[r].id = rd[r].id /\ rd'[r].fresh = rd[r].fresh BY <2>1, Cleaned, FreshStays
  <2>3. rd[r].id \in Slots BY <2>1, Numbers
  <2>4. slot' = [slot EXCEPT ![rd[r].id].pointer = rd[r].wp] BY <1>10 DEF ResetStore
  <2>5. slot'[rd[r].id].pointer = rd[r].wp /\ slot'[rd[r].id].uid = slot[rd[r].id].uid
    BY <2>3, <2>4 DEF MInv, HeaderOK
  <2>6. Mine(r)'.pointer = rd[r].wp /\ Mine(r)'.uid = Mine(r).uid BY <2>2, <2>5 DEF Mine
  <2>7. got'[r] = got[r] /\ UNCHANGED <<write_pointer, ring, log>> BY <1>10 DEF ResetStore
  <2>8. Promised(r) BY <1>2, <2>1, LaggedStays DEF ResetLoad
  <2>9. Holds(r) BY <2>1, <2>2, <2>6 DEF Holds, Checked, Reading
  <2>10. rd[r].fresh /\ OnTime(rd[r].wp, got[r]) BY <2>1, <2>8, <2>9 DEF ExactOK
  <2>11. OnTime(Mine(r).pointer, Seen(r))'
    <3>1. PICK p, m : p = rd[r].wp /\ m = got[r] OBVIOUS
    <3>2. OnTime(p, m)' BY <2>7, <2>10, <3>1, SameTime
    <3>3. Seen(r)' = m BY <2>2, <2>7, <3>1 DEF Seen
    <3> QED BY <2>6, <3>1, <3>2, <3>3
  <2> QED BY <2>2, <2>10, <2>11 DEF ExactOK, Reading
<1> QED BY <1>3, <1>4, <1>5, <1>6, <1>7, <1>8, <1>9, <1>10, <1>11

(* The first looks.                                                        *)
LEMMA SelfExactChecks ==
    ASSUME MInv, NEW r \in Readers, CheckUid(r) \/ CheckValid(r),
           Promised(r) /\ Holds(r) => ExactOK(r), Promised(r)', Holds(r)'
    PROVE  ExactOK(r)'
<1>1. RdType(r) BY DEF MInv, ReadersOK
<1>2. Reader(r) BY DEF Reader, Recv
<1>3. /\ rd[r].pc \in {"idle", "start", "valid"} /\ rd[r].pc \in Settled /\ rd[r].pc \in Slotted
      /\ rd[r].pc # "final"
    BY DEF CheckUid, CheckValid, Settled, Slotted, Checked
<1>4. UNCHANGED <<write_pointer, ring, pub, log, slot, got>> BY DEF CheckUid, CheckValid, shared, history
<1>5. Promised(r) BY <1>2, <1>3, LaggedStays DEF ResetLoad
<1>6. ASSUME rd'[r].id = rd[r].id, rd[r].pc = "valid" \/ Mine(r).uid = r PROVE ExactOK(r)
  <2>1. Holds(r) BY <1>3, <1>6 DEF Holds, Checked
  <2> QED BY <1>5, <2>1
<1>7. ASSUME rd'[r].id = rd[r].id, rd[r].pc = "valid" \/ Mine(r).uid = r,
             rd'[r].pc \in {"valid", "compare"}, ~rd'[r].fresh => Mine(r).valid /\ ~Doomed(r)
      PROVE  ExactOK(r)'
    BY <1>3, <1>4, <1>6, <1>7, ExactStands DEF Settled, Checked, Reading
<1>8. CASE Goto(r, "valid") /\ Mine(r).uid = r
  <2>1. rd'[r].pc = "valid" /\ rd'[r].id = rd[r].id /\ rd'[r].fresh = rd[r].fresh
    BY <1>3, <1>8, Moved, FreshStays
  <2>2. ~rd'[r].fresh => Mine(r).valid /\ ~Doomed(r) BY <1>3, <1>6, <1>8, <2>1 DEF ExactOK
  <2> QED BY <1>7, <1>8, <2>1, <2>2
<1>9. CASE Goto(r, "claim")
  <2>1. rd'[r].pc = "claim" BY <1>9, Moved
  <2> QED BY <2>1 DEF Holds, Slotted, Settled, Checked, Reading
<1>10. CASE rd[r].pc = "valid" /\ ~Mine(r).valid /\ Clean(r, "reset")
  <2>1. rd'[r].pc = "reset" /\ rd'[r].id = rd[r].id /\ rd'[r].fresh = rd[r].fresh
    BY <1>3, <1>10, Cleaned, FreshStays
  <2>2. rd[r].fresh BY <1>3, <1>6, <1>10, <2>1 DEF ExactOK
  <2> QED BY <2>1, <2>2, ExactUnsettled
<1>11. CASE /\ rd[r].pc = "valid" /\ Mine(r).valid
            /\ rd' = [rd EXCEPT ![r].pc = "compare", ![r].fresh = FALSE, ![r].rp = Mine(r).pointer]
            /\ lagged' = IF rd[r].fresh /\ pub.size > 0 THEN lagged \cup {r} ELSE lagged
  <2>1. rd'[r] = [rd[r] EXCEPT !.pc = "compare", !.fresh = FALSE, !.rp = Mine(r).pointer]
    <3>1. rd = [q \in Readers |-> rd[q]] BY DEF MInv
    <3>2. rd' = [rd EXCEPT ![r].pc = "compare", ![r].fresh = FALSE, ![r].rp = Mine(r).pointer] BY <1>11
    <3> QED BY <3>1, <3>2
  <2>2. rd'[r].pc = "compare" /\ rd'[r].id = rd[r].id BY <1>1, <2>1 DEF RdType
  <2>3. ~Doomed(r)
    <3>1. CASE ~rd[r].fresh BY <1>3, <1>6, <1>11, <2>2, <3>1 DEF ExactOK
    <3>2. CASE rd[r].fresh
      <4>1. ~(pub.size > 0) BY <1>11, <3>2 DEF Promised
      <4>2. pub.pc \in Sending => pub.size \in Nat /\ pub.size > 0 BY Constants DEF MInv, QueueOK, PubType
      <4> QED BY <4>1, <4>2 DEF Doomed, Sending
    <3> QED BY <3>1, <3>2
  <2> QED BY <1>7, <1>11, <2>2, <2>3
<1> QED BY <1>8, <1>9, <1>10, <1>11 DEF CheckUid, CheckValid

(* What a reader on time finds at its pointer, if there is anything new.   *)
LEMMA OnTimeFinds ==
    ASSUME MInv, OrderOK, TurnsOK, NEW r \in Readers, NEW a \in 0 .. Size - 1, a = rd[r].rp.ptr,
           a # write_pointer.ptr, OnTime(rd[r].rp, got[r]), Len(log) <= got[r] + 2
    PROVE  /\ ring[a] = WrapTag => OnTime(Turned(r), got[r])
           /\ ring[a] # WrapTag => Exact(r, ring[a].n)
<1>1. /\ Size \in Nat /\ write_pointer.ptr \in 0 .. Size - 1 /\ QueueOK /\ rd[r].rp \in Pointer
      /\ got[r] \in Nat /\ Len(log) \in Nat /\ First \in 1 .. Len(log) + 1
    BY Numbers, LastNumber, FirstMessage DEF MInv, ReadersOK, RdType
<1>2. IsTag(ring[a]) /\ Number(a) = got[r] + 1 BY DEF OnTime, Boundary
<1>3. \/ a < write_pointer.ptr /\ rd[r].rp.cycles = write_pointer.cycles
      \/ a > write_pointer.ptr /\ rd[r].rp.cycles + 1 = write_pointer.cycles
    BY DEF OnTime
<1>4. CASE ring[a] = WrapTag
  <2>1. a > write_pointer.ptr /\ First = got[r] + 1 BY <1>1, <1>2, <1>4 DEF QueueOK, RingOK, Number
  <2>2. rd[r].rp.cycles + 1 = write_pointer.cycles BY <1>1, <1>3, <2>1
  <2>3. Turned(r).ptr = 0 /\ Turned(r).cycles = write_pointer.cycles BY <2>2 DEF Turned
  <2>4. PICK p : p = Turned(r) /\ p.ptr = 0 /\ p.cycles = write_pointer.cycles BY <2>3
  <2>5. Boundary(0) BY <1>1 DEF QueueOK, RingOK
  <2>6. CASE write_pointer.ptr = 0
    <3>1. got[r] = Len(log) BY <1>1, <2>1, <2>6 DEF First
    <3> QED BY <1>4, <2>4, <2>5, <2>6, <3>1 DEF OnTime
  <2>7. CASE write_pointer.ptr # 0
    <3>1. Number(0) = First /\ write_pointer.ptr > 0 BY <1>1, <2>7, FirstMessage
    <3> QED BY <1>4, <2>1, <2>4, <2>5, <3>1 DEF OnTime
  <2> QED BY <2>6, <2>7
<1>5. CASE ring[a] # WrapTag
  <2>1. PICK n, e : n = ring[a].n /\ e = End(a) OBVIOUS
  <2>2. /\ ring[a + 1].msg = got[r] + 1 /\ e \in 0 .. Size - 1 /\ e > a + 1 /\ e = a + 1 + n /\ Boundary(e)
        /\ (a < write_pointer.ptr => e <= write_pointer.ptr)
    BY <1>1, <1>2, <1>5, <2>1, SizedMessage DEF End
  <2>3. /\ NewPointer(r, n).ptr = rd[r].rp.ptr + 1 + n /\ NewPointer(r, n).cycles = rd[r].rp.cycles
    BY <1>1 DEF NewPointer, Pointer
  <2>4. rd[r].rp.ptr + 1 + n = e BY <2>2
  <2>5. PICK p : p = NewPointer(r, n) /\ p.ptr = e /\ p.cycles = rd[r].rp.cycles
    BY <2>3, <2>4
  <2>6. OnTime(p, got[r] + 1)
    <3>1. CASE a < write_pointer.ptr /\ rd[r].rp.cycles = write_pointer.cycles
      <4>1. Coming(e) = got[r] + 2 BY <1>1, <1>2, <2>1, <3>1 DEF OrderOK
      <4>2. CASE e = write_pointer.ptr
        <5>1. got[r] + 1 = Len(log) BY <1>1, <4>1, <4>2 DEF Coming
        <5> QED BY <2>2, <2>5, <3>1, <4>2, <5>1 DEF OnTime
      <4>3. CASE e # write_pointer.ptr
        <5>1. Number(e) = (got[r] + 1) + 1 BY <1>1, <4>1, <4>3 DEF Coming
        <5>2. e < write_pointer.ptr BY <1>1, <2>2, <3>1, <4>3
        <5> QED BY <2>2, <2>5, <3>1, <5>1, <5>2 DEF OnTime
      <4> QED BY <4>2, <4>3
    <3>2. CASE a > write_pointer.ptr /\ rd[r].rp.cycles + 1 = write_pointer.cycles
      <4>1. e > write_pointer.ptr BY <1>1, <2>2, <3>2
      <4>2. Number(e) = (got[r] + 1) + 1
        <5>1. CASE ring[e] # WrapTag BY <1>1, <1>2, <1>5, <2>1, <3>2, <5>1 DEF OrderOK
        <5>2. CASE ring[e] = WrapTag
          <6>1. Number(a) + 1 = First \/ Number(a) + 3 <= First BY <1>2, <1>5, <2>1, <3>2, <5>2 DEF TurnsOK
          <6>2. First = (got[r] + 1) + 1 BY <1>1, <1>2, <6>1
          <6> QED BY <5>2, <6>2 DEF Number
        <5> QED BY <5>1, <5>2
      <4> QED BY <2>2, <2>5, <3>2, <4>1, <4>2 DEF OnTime
    <3> QED BY <1>3, <3>1, <3>2
  <2> QED BY <1>5, <2>1, <2>2, <2>5, <2>6 DEF Exact
<1> QED BY <1>4, <1>5

(* What a reader is to receive does not depend on its own steps.           *)
LEMMA SameExact ==
    ASSUME UNCHANGED <<write_pointer, ring, log>>, NEW r \in Readers, rd'[r].rp = rd[r].rp, got'[r] = got[r]
    PROVE  /\ OnTime(Turned(r), got[r])' <=> OnTime(Turned(r), got[r])
           /\ \A n : Exact(r, n)' <=> Exact(r, n)
<1>1. OnTime(Turned(r), got[r])' <=> OnTime(Turned(r), got[r])
  <2>1. PICK p, m : p = Turned(r) /\ m = got[r] OBVIOUS
  <2>2. OnTime(p, m)' <=> OnTime(p, m) BY SameTime
  <2>3. Turned(r)' = p BY <2>1 DEF Turned
  <2> QED BY <2>1, <2>2, <2>3
<1>2. ASSUME NEW n PROVE Exact(r, n)' <=> Exact(r, n)
  <2>1. PICK p, m : p = NewPointer(r, n) /\ m = got[r] + 1 OBVIOUS
  <2>2. OnTime(p, m)' <=> OnTime(p, m) BY SameTime
  <2>3. NewPointer(r, n)' = p BY <2>1 DEF NewPointer
  <2> QED BY <2>1, <2>2, <2>3 DEF Exact
<1> QED BY <1>1, <1>2

(* A reader that reads on, does so on time.                                *)
LEMMA SelfExactReads ==
    ASSUME MInv, OrderOK, TurnsOK, NEW r \in Readers, Behind(r),
           Compare(r) \/ LoadSize(r) \/ Trust(r) \/ Copy(r),
           Promised(r) /\ Holds(r) => ExactOK(r), Promised(r)', Holds(r)'
    PROVE  ExactOK(r)'
<1>1. RdType(r) /\ ReaderOK(r) BY DEF MInv, ReadersOK
<1>2. Reader(r) BY DEF Reader, Recv
<1>3. /\ rd[r].pc \in {"compare", "size", "trust", "copy"} /\ rd[r].pc \in Settled /\ rd[r].pc \in Slotted
      /\ rd[r].pc # "final" /\ rd[r].pc # "enter"
    BY DEF Compare, LoadSize, Trust, Copy, Settled, Slotted, Checked, Reading
<1>4. UNCHANGED <<write_pointer, ring, pub, log, slot, adrift, got>>
    BY DEF Compare, LoadSize, Trust, Copy, shared, history
<1>5. Promised(r) BY <1>2, <1>3, LaggedStays DEF ResetLoad
<1>6. rd = [q \in Readers |-> rd[q]] BY DEF MInv
<1>7. ASSUME rd'[r].id = rd[r].id
      PROVE  /\ ExactOK(r)
             /\ Mine(r).valid => Live(r)
  <2>1. rd[r].pc \in Checked BY <1>3 DEF Checked, Reading
  <2>2. Holds(r) BY <1>3, <2>1 DEF Holds
  <2> QED BY <1>5, <2>1, <2>2 DEF Live, Promised
<1>8. PICK a \in 0 .. Size - 1 : a = rd[r].rp.ptr BY Numbers
<1>9. ASSUME rd'[r].id = rd[r].id, rd'[r].fresh = rd[r].fresh, rd'[r].pc \in {"idle", "size", "trust", "advance", "copy", "store"},
             Mine(r).valid /\ rd'[r].pc \in Reading => ReadExact(r)'
      PROVE  ExactOK(r)'
  <2>1. ~rd'[r].fresh => Mine(r).valid /\ ~Doomed(r) BY <1>3, <1>7, <1>9 DEF ExactOK
  <2>2. rd'[r].pc \in Settled /\ rd'[r].pc # "final" BY <1>9 DEF Settled, Checked, Reading
  <2> QED BY <1>3, <1>4, <1>7, <1>9, <2>1, <2>2, ExactStands
<1>10. ASSUME rd'[r].id = rd[r].id, rd'[r].rp = rd[r].rp
       PROVE  /\ OnTime(Turned(r), got[r])' <=> OnTime(Turned(r), got[r])
              /\ \A n : Exact(r, n)' <=> Exact(r, n)
    BY <1>4, <1>10, SameExact
<1>11. CASE Compare(r) /\ Clean(r, "idle")
  <2>1. rd'[r].pc = "idle" /\ rd'[r].id = rd[r].id /\ rd'[r].fresh = rd[r].fresh
    BY <1>3, <1>11, Cleaned, FreshStays
  <2> QED BY <1>9, <2>1 DEF Reading
<1>12. CASE rd[r].pc = "compare" /\ ~NothingNew(r) /\ rd' = [rd EXCEPT ![r].pc = "size", ![r].wp = write_pointer]
  <2>1. rd' = [rd EXCEPT ![r].pc = "size", ![r].wp = write_pointer] BY <1>12
  <2>2. rd'[r] = [rd[r] EXCEPT !.pc = "size", !.wp = write_pointer] BY <1>6, <2>1
  <2>3. rd'[r].pc = "size" /\ rd'[r].id = rd[r].id /\ rd'[r].rp = rd[r].rp /\ rd'[r].fresh = rd[r].fresh
    BY <1>1, <2>2 DEF RdType
  <2>4. ASSUME Mine(r).valid PROVE ReadExact(r)'
    <3>1. rd[r].rp = Mine(r).pointer BY <1>1, <1>7, <1>12, <2>3, <2>4 DEF ReaderOK
    <3>2. OnTime(rd[r].rp, got[r]) BY <1>3, <1>7, <2>3, <2>4, <3>1 DEF ExactOK, Seen
    <3>3. a # write_pointer.ptr BY <1>8, <1>12 DEF NothingNew
    <3>4. Len(log) <= got[r] + 2 BY <1>5 DEF Behind, Promised
    <3>5. /\ ring[a] = WrapTag => OnTime(Turned(r), got[r])
          /\ ring[a] # WrapTag => Exact(r, ring[a].n)
      BY <1>8, <3>2, <3>3, <3>4, OnTimeFinds
    <3>6. PICK n : n = ring[a].n OBVIOUS
    <3>7. /\ ring[a] = WrapTag => OnTime(Turned(r), got[r])'
          /\ ring[a] # WrapTag => Exact(r, n)'
      BY <1>10, <2>3, <3>5, <3>6
    <3> QED BY <1>4, <1>8, <2>3, <3>6, <3>7 DEF ReadExact
  <2> QED BY <1>9, <2>3, <2>4
<1>13. CASE LoadSize(r)
  <2>1. rd[r].pc = "size" /\ rd'[r] = [rd[r] EXCEPT !.pc = "trust", !.buf = <<ring[a]>>]
    BY <1>8, <1>13, RdUpdate DEF LoadSize
  <2>2. /\ rd'[r].pc = "trust" /\ rd'[r].id = rd[r].id /\ rd'[r].rp = rd[r].rp /\ rd'[r].buf[1] = ring[a]
        /\ rd'[r].fresh = rd[r].fresh
    BY <1>1, <2>1 DEF RdType
  <2>3. ASSUME Mine(r).valid PROVE ReadExact(r)'
    <3>1. PICK n : n = ring[a].n OBVIOUS
    <3>2. ReadExact(r) BY <1>7, <2>1, <2>2, <2>3 DEF ExactOK, Reading
    <3>3. /\ ring[a] = WrapTag => OnTime(Turned(r), got[r])
          /\ ring[a] # WrapTag => Exact(r, n)
      BY <1>8, <2>1, <3>1, <3>2 DEF ReadExact
    <3>4. /\ ring[a] = WrapTag => OnTime(Turned(r), got[r])'
          /\ ring[a] # WrapTag => Exact(r, n)'
      BY <1>10, <2>2, <3>3
    <3> QED BY <2>2, <3>1, <3>4 DEF ReadExact
  <2> QED BY <1>9, <2>2, <2>3
<1>14. CASE Trust(r)
  <2>1. rd[r].pc = "trust" BY <1>14 DEF Trust
  <2>2. PICK w \in Words : w = rd[r].buf[1] BY <1>1, <2>1 DEF RdType
  <2>3. ASSUME rd'[r].id = rd[r].id, Mine(r).valid
        PROVE  /\ w = WrapTag => OnTime(Turned(r), got[r])
               /\ w # WrapTag => Exact(r, w.n)
    BY <1>7, <2>1, <2>2, <2>3 DEF ExactOK, ReadExact, Reading
  <2>4. CASE ~Mine(r).valid /\ Clean(r, "reset")
    <3>1. rd'[r].pc = "reset" /\ rd'[r].id = rd[r].id /\ rd'[r].fresh = rd[r].fresh
      BY <1>3, <2>4, Cleaned, FreshStays
    <3>2. rd[r].fresh BY <1>3, <1>7, <2>4, <3>1 DEF ExactOK
    <3> QED BY <3>1, <3>2, ExactUnsettled
  <2>5. CASE Goto(r, "crashed")
    <3>1. rd'[r].pc = "crashed" BY <1>3, <2>5, Moved
    <3> QED BY <3>1, ExactUnsettled
  <2>6. CASE /\ w.kind = "wrap"
             /\ rd' = [rd EXCEPT ![r].pc = "advance", ![r].buf = << >>,
                                 ![r].wp = [cycles |-> rd[r].rp.cycles + 1, ptr |-> 0]]
    <3>1. PICK q : q = [cycles |-> rd[r].rp.cycles + 1, ptr |-> 0] /\ q = Turned(r) BY DEF Turned
    <3>2. rd' = [rd EXCEPT ![r].pc = "advance", ![r].buf = << >>, ![r].wp = q] BY <2>6, <3>1
    <3>3. rd'[r] = [rd[r] EXCEPT !.pc = "advance", !.buf = << >>, !.wp = q] BY <1>6, <3>2
    <3>4. /\ rd'[r].pc = "advance" /\ rd'[r].id = rd[r].id /\ rd'[r].wp = q /\ rd'[r].rp = rd[r].rp
          /\ rd'[r].fresh = rd[r].fresh
      BY <1>1, <3>3 DEF RdType
    <3>5. ASSUME Mine(r).valid PROVE ReadExact(r)'
      <4>1. OnTime(q, got[r]) BY <2>2, <2>3, <2>6, <3>1, <3>4, <3>5, WordFacts
      <4>2. PICK m : m = got[r] /\ m = got'[r] BY <1>4
      <4>3. OnTime(q, m)' BY <1>4, <4>1, <4>2, SameTime
      <4> QED BY <3>4, <4>2, <4>3 DEF ReadExact
    <3> QED BY <1>9, <3>4, <3>5
  <2>7. CASE r \in Lossy BY <2>7 DEF Promised
  <2>8. CASE /\ w.kind = "size" /\ w.n > 0
             /\ rd' = [rd EXCEPT ![r].pc = "copy", ![r].size = w.n, ![r].buf = << >>, ![r].wp = Zero]
    <3>1. PICK n : n = w.n OBVIOUS
    <3>2. rd' = [rd EXCEPT ![r].pc = "copy", ![r].size = n, ![r].buf = << >>, ![r].wp = Zero] BY <2>8, <3>1
    <3>3. rd'[r] = [rd[r] EXCEPT !.pc = "copy", !.size = n, !.buf = << >>, !.wp = Zero] BY <1>6, <3>2
    <3>4. /\ rd'[r].pc = "copy" /\ rd'[r].id = rd[r].id /\ rd'[r].rp = rd[r].rp /\ rd'[r].size = n
          /\ rd'[r].fresh = rd[r].fresh
      BY <1>1, <3>3 DEF RdType
    <3>5. Mine(r).valid => Exact(r, n)' BY <1>10, <2>3, <2>8, <3>1, <3>4, WrittenWords
    <3>6. Mine(r).valid => ReadExact(r)' BY <3>4, <3>5 DEF ReadExact
    <3> QED BY <1>9, <3>4, <3>6
  <2> QED BY <1>14, <2>2, <2>4, <2>5, <2>6, <2>7, <2>8 DEF Trust
<1>15. CASE Copy(r)
  <2>1. rd[r].pc = "copy" BY <1>15 DEF Copy
  <2>2. \/ rd'[r] = [rd[r] EXCEPT !.pc = "store"] \/ rd'[r] = [rd[r] EXCEPT !.pc = "crashed"]
        \/ rd'[r] = [rd[r] EXCEPT !.buf = Append(@, ring[rd[r].rp.ptr + Len(rd[r].buf) + 1])]
    <3>1. \/ rd' = [rd EXCEPT ![r].pc = "store"] \/ rd' = [rd EXCEPT ![r].pc = "crashed"]
          \/ rd' = [rd EXCEPT ![r].buf = Append(@, ring[rd[r].rp.ptr + Len(rd[r].buf) + 1])]
      BY <1>15 DEF Copy
    <3> QED BY <1>6, <3>1
  <2>3. PICK n : n = rd[r].size OBVIOUS
  <2>4. /\ rd'[r].pc \in {"store", "copy", "crashed"} /\ rd'[r].id = rd[r].id /\ rd'[r].rp = rd[r].rp
        /\ rd'[r].size = n /\ rd'[r].fresh = rd[r].fresh
    BY <1>1, <2>1, <2>2, <2>3 DEF RdType
  <2>5. CASE rd'[r].pc = "crashed" BY <2>5, ExactUnsettled
  <2>6. CASE rd'[r].pc # "crashed"
    <3>1. Mine(r).valid => Exact(r, n) BY <1>7, <2>1, <2>3, <2>4 DEF ExactOK, ReadExact, Reading
    <3>2. Mine(r).valid => Exact(r, n)' BY <1>10, <2>4, <3>1
    <3>3. Mine(r).valid => ReadExact(r)' BY <2>4, <2>6, <3>2 DEF ReadExact
    <3> QED BY <1>9, <2>4, <2>6, <3>3
  <2> QED BY <2>5, <2>6
<1> QED BY <1>11, <1>12, <1>13, <1>14, <1>15 DEF Compare

(* The pointer moves over a wraparound tag.                                *)
LEMMA SelfExactAdvances ==
    ASSUME MInv, NEW r \in Readers, Advance(r),
           Promised(r) /\ Holds(r) => ExactOK(r), Promised(r)', Holds(r)'
    PROVE  ExactOK(r)'
<1>1. Reader(r) BY DEF Reader, Recv
<1>2. /\ rd[r].pc = "advance" /\ rd[r].pc \in Reading /\ rd[r].pc \in Settled
      /\ rd[r].pc # "enter" /\ Clean(r, "start")
    BY DEF Advance, Reading, Settled, Checked
<1>3. UNCHANGED <<write_pointer, ring, log, pub, got>> BY DEF Advance
<1>4. rd[r].pc \in Slotted /\ rd[r].id \in Slots BY <1>2, WhileReading
<1>5. rd'[r].pc = "start" /\ rd'[r].id = rd[r].id /\ rd'[r].fresh = rd[r].fresh BY <1>2, <1>4, Cleaned, FreshStays
<1>6. PICK p, m : p = rd[r].wp /\ m = got[r] OBVIOUS
<1>7. Mine(r)'.pointer = p /\ Mine(r)'.valid = Mine(r).valid /\ Mine(r)'.uid = Mine(r).uid
  <2>1. slot' = [slot EXCEPT ![rd[r].id].pointer = p] BY <1>6 DEF Advance
  <2> QED BY <1>4, <1>5, <2>1 DEF MInv, HeaderOK, Mine
<1>8. Promised(r) BY <1>1, <1>2, LaggedStays DEF ResetLoad
<1>9. Holds(r) BY <1>2, <1>4 DEF Holds, Checked
<1>10. ExactOK(r) BY <1>8, <1>9
<1>11. ASSUME Mine(r)'.valid PROVE OnTime(Mine(r).pointer, Seen(r))'
  <2>1. OnTime(p, m) BY <1>2, <1>6, <1>7, <1>10, <1>11 DEF ExactOK, ReadExact
  <2>2. OnTime(p, m)' BY <1>3, <2>1, SameTime
  <2>3. Seen(r)' = m BY <1>3, <1>5, <1>6 DEF Seen
  <2> QED BY <1>7, <2>2, <2>3
<1>12. ~rd'[r].fresh => Mine(r)'.valid /\ ~Doomed(r)'
  <2>1. Doomed(r)' <=> Doomed(r) BY <1>3, <1>5 DEF Doomed
  <2> QED BY <1>2, <1>5, <1>7, <1>10, <2>1 DEF ExactOK
<1> QED BY <1>5, <1>11, <1>12 DEF ExactOK, Reading

(* The pointer moves over the message that has been copied: the next one.  *)
LEMMA SelfExactSaves ==
    ASSUME MInv, NEW r \in Readers, Store(r),
           Promised(r) /\ Holds(r) => ExactOK(r), Promised(r)', Holds(r)'
    PROVE  ExactOK(r)'
<1>1. RdType(r) /\ Reader(r) BY DEF MInv, ReadersOK, Reader, Recv
<1>2. /\ rd[r].pc = "store" /\ rd[r].pc \in Reading /\ rd[r].pc \in Settled
      /\ rd[r].pc # "enter" /\ Goto(r, "final")
    BY DEF Store, Reading, Settled, Checked
<1>3. UNCHANGED <<write_pointer, ring, log, pub, got>> BY DEF Store
<1>4. rd[r].pc \in Slotted /\ rd[r].id \in Slots BY <1>2, WhileReading
<1>5. /\ rd'[r].pc = "final" /\ rd'[r].id = rd[r].id /\ rd'[r].fresh = rd[r].fresh
      /\ rd'[r].buf = rd[r].buf
    BY <1>2, <1>4, Moved, FreshStays
<1>6. PICK a, n, p, m : a = rd[r].rp.ptr /\ n = rd[r].size /\ p = NewPointer(r, n) /\ m = got[r] + 1 OBVIOUS
<1>7. Mine(r)'.pointer = p /\ Mine(r)'.valid = Mine(r).valid /\ Mine(r)'.uid = Mine(r).uid
  <2>1. slot' = [slot EXCEPT ![rd[r].id].pointer = p] BY <1>6 DEF Store
  <2> QED BY <1>4, <1>5, <2>1 DEF MInv, HeaderOK, Mine
<1>8. Promised(r) BY <1>1, <1>2, LaggedStays DEF ResetLoad
<1>9. Holds(r) BY <1>2, <1>4 DEF Holds, Checked
<1>10. ExactOK(r) BY <1>8, <1>9
<1>11. ASSUME Mine(r)'.valid
       PROVE  rd'[r].buf[1].msg = got'[r] + 1 /\ OnTime(Mine(r).pointer, Seen(r))'
  <2>1. Live(r) BY <1>7, <1>8, <1>9, <1>11 DEF Live, Promised, Holds
  <2>2. ReadOK(r) BY <1>2, <2>1, WhileReading
  <2>3. n \in Nat /\ n > 0 /\ Len(rd[r].buf) = n BY <1>1, <1>2, <1>6, Constants DEF RdType
  <2>4. 1 \in 1 .. Len(rd[r].buf) BY <2>3
  <2>5. rd[r].buf[1] = ring[a + 1] BY <1>2, <1>6, <2>2, <2>4 DEF ReadOK
  <2>6. Exact(r, n) BY <1>2, <1>6, <1>7, <1>10, <1>11 DEF ExactOK, ReadExact
  <2>7. ring[a + 1].msg = m /\ OnTime(p, m) BY <1>6, <2>6 DEF Exact
  <2>8. OnTime(p, m)' BY <1>3, <2>7, SameTime
  <2>9. Seen(r)' = m BY <1>5, <2>5, <2>7 DEF Seen
  <2> QED BY <1>3, <1>5, <1>6, <1>7, <2>5, <2>7, <2>8, <2>9
<1>12. ~rd'[r].fresh => Mine(r)'.valid /\ ~Doomed(r)'
  <2>1. Doomed(r)' <=> Doomed(r) BY <1>3, <1>5 DEF Doomed
  <2> QED BY <1>2, <1>5, <1>7, <1>10, <2>1 DEF ExactOK
<1> QED BY <1>5, <1>11, <1>12 DEF ExactOK, Reading

(* The message is returned, or the reader resets itself as it was new.     *)
LEMMA SelfExactReturns ==
    ASSUME MInv, NEW r \in Readers, Final(r),
           Promised(r) /\ Holds(r) => ExactOK(r), Promised(r)', Holds(r)'
    PROVE  ExactOK(r)'
<1>1. Reader(r) BY DEF Reader, Recv
<1>2. rd[r].pc = "final" /\ rd[r].pc \in Settled /\ rd[r].pc \in Slotted /\ rd[r].pc # "enter"
    BY DEF Final, Settled, Slotted, Checked
<1>3. UNCHANGED <<write_pointer, ring, log, pub, slot, adrift>> BY DEF Final, shared
<1>4. Promised(r) BY <1>1, <1>2, LaggedStays DEF ResetLoad
<1>5. ASSUME rd'[r].id = rd[r].id PROVE ExactOK(r)
  <2>1. Holds(r) BY <1>2 DEF Holds, Checked
  <2> QED BY <1>4, <2>1
<1>6. CASE ~Mine(r).valid /\ Clean(r, "reset")
  <2>1. rd'[r].pc = "reset" /\ rd'[r].id = rd[r].id /\ rd'[r].fresh = rd[r].fresh
    BY <1>2, <1>6, Cleaned, FreshStays
  <2>2. rd[r].fresh BY <1>2, <1>5, <1>6, <2>1 DEF ExactOK
  <2> QED BY <2>1, <2>2, ExactUnsettled
<1>7. CASE Mine(r).valid /\ Clean(r, "idle") /\ got' = [got EXCEPT ![r] = rd[r].buf[1].msg]
  <2>1. rd'[r].pc = "idle" /\ rd'[r].id = rd[r].id /\ rd'[r].fresh = rd[r].fresh
    BY <1>2, <1>7, Cleaned, FreshStays
  <2>2. Mine(r)' = Mine(r) /\ (Doomed(r)' <=> Doomed(r)) BY <1>3, <2>1 DEF Mine, Doomed
  <2>3. ExactOK(r) BY <1>5, <2>1
  <2>4. PICK p, m : p = Mine(r).pointer /\ m = rd[r].buf[1].msg OBVIOUS
  <2>5. OnTime(p, m) BY <1>2, <1>7, <2>3, <2>4 DEF ExactOK, Seen
  <2>6. OnTime(p, m)' BY <1>3, <2>5, SameTime
  <2>7. got'[r] = m BY <1>7, <2>4 DEF MInv, GotOK
  <2>8. Seen(r)' = m BY <2>1, <2>7 DEF Seen
  <2>9. OnTime(Mine(r).pointer, Seen(r))' BY <2>2, <2>4, <2>6, <2>8
  <2>10. ~rd'[r].fresh => Mine(r)'.valid /\ ~Doomed(r)' BY <1>2, <2>1, <2>2, <2>3 DEF ExactOK
  <2> QED BY <2>1, <2>9, <2>10 DEF ExactOK, Reading
<1> QED BY <1>4, <1>6, <1>7 DEF Final, Promised

(* The invariant behind the refinement holds initially ...                 *)
LEMMA InitKeepsUp == ASSUME Init PROVE KeepsUp
<1>1. \A a \in 0 .. Size - 1 : ~IsTag(ring[a]) /\ ring[a] # WrapTag BY Tags DEF Init, SizeTag, WrapTag
<1>2. \A r \in Readers : rd[r].pc = "off" /\ got[r] = 0 BY DEF Init, Off
<1>3. pub.pc = "off" /\ Len(log) = 0 BY DEF Init, Idle
<1>4. WrapsOK BY <1>1, <1>3 DEF WrapsOK, MayWrap
<1>5. TurnsOK BY <1>1 DEF TurnsOK
<1>6. ASSUME NEW r \in Readers PROVE Behind(r) BY <1>2, <1>3 DEF Behind
<1>7. ASSUME NEW r \in Readers PROVE ~Holds(r) BY <1>2 DEF Holds, Slotted, Settled, Checked, Reading
<1> QED BY <1>4, <1>5, <1>6, <1>7 DEF KeepsUp

(* ... and every step keeps it.                                            *)
LEMMA NextKeepsUp == ASSUME RoomForTag, MInv, Ordered, KeepsUp, [Next]_vars PROVE KeepsUp'
<1>1. ASSUME UNCHANGED <<write_pointer, ring, log, pub>> PROVE WrapsOK' /\ TurnsOK'
  <2>1. WrapsOK' BY <1>1 DEF KeepsUp, WrapsOK
  <2>2. First' = First /\ \A a : Number(a)' = Number(a) BY <1>1, NumbersStay
  <2>3. \A a : End(a)' = End(a) BY <1>1 DEF End
  <2>4. TurnsOK' BY <1>1, <2>2, <2>3 DEF KeepsUp, TurnsOK
  <2> QED BY <2>1, <2>4
<1>2. CASE UNCHANGED vars
  <2>1. UNCHANGED <<write_pointer, ring, log, pub, rd, slot, got, lagged, adrift>> BY <1>2 DEF vars, shared, history
  <2>2. WrapsOK' /\ TurnsOK' BY <1>1, <2>1
  <2>3. ASSUME NEW r \in Readers PROVE Behind(r)' /\ (Promised(r)' /\ Holds(r)' => ExactOK(r)')
    <3>1. Behind(r) /\ (Promised(r) /\ Holds(r) => ExactOK(r)) BY DEF KeepsUp
    <3>2. Behind(r)' BY <2>1, <3>1 DEF Behind
    <3>3. Promised(r)' <=> Promised(r) BY <2>1 DEF Promised
    <3>4. Mine(r)' = Mine(r) /\ Seen(r)' = Seen(r) /\ (Doomed(r)' <=> Doomed(r)) BY <2>1 DEF Mine, Seen, Doomed
    <3>5. Holds(r)' <=> Holds(r) BY <2>1, <3>4 DEF Holds
    <3>6. ASSUME NEW p, NEW m PROVE OnTime(p, m)' <=> OnTime(p, m) BY <2>1, SameTime
    <3>7. ASSUME ExactOK(r) PROVE ExactOK(r)'
      <4>1. PICK p, m, w, g : p = Mine(r).pointer /\ m = Seen(r) /\ w = rd[r].wp /\ g = got[r] OBVIOUS
      <4>2. OnTime(Mine(r).pointer, Seen(r))' <=> OnTime(Mine(r).pointer, Seen(r)) BY <3>4, <3>6, <4>1
      <4>3. OnTime(rd[r].wp, got[r])' <=> OnTime(rd[r].wp, got[r]) BY <2>1, <3>6, <4>1
      <4>4. ReadExact(r)' <=> ReadExact(r)
        <5>1. /\ OnTime(Turned(r), got[r])' <=> OnTime(Turned(r), got[r])
              /\ \A n : Exact(r, n)' <=> Exact(r, n)
          BY <2>1, SameExact
        <5> QED BY <2>1, <4>3, <5>1 DEF ReadExact
      <4> QED BY <2>1, <3>4, <3>7, <4>2, <4>3, <4>4 DEF ExactOK
    <3> QED BY <3>1, <3>2, <3>3, <3>5, <3>7
  <2> QED BY <2>2, <2>3 DEF KeepsUp
<1>3. CASE PubStep
  <2>1. WrapsOK' BY <1>3, WrapsStep DEF MInv, KeepsUp
  <2>2. TurnsOK' BY <1>3, TurnsStep DEF MInv, Ordered, KeepsUp
  <2>3. ASSUME NEW r \in Readers PROVE Behind(r)' /\ (Promised(r)' /\ Holds(r)' => ExactOK(r)')
    <3>1. Behind(r) /\ (Promised(r) /\ Holds(r) => ExactOK(r)) /\ WrapsOK BY DEF KeepsUp
    <3> QED BY <1>3, <3>1, BehindPub, PubExact
  <2> QED BY <2>1, <2>2, <2>3 DEF KeepsUp
<1>4. ASSUME NEW r \in Readers, Reader(r) PROVE KeepsUp'
  <2>1. WrapsOK' /\ TurnsOK' BY <1>1, <1>4, OneReader
  <2>2. \A q \in Readers : Behind(q)' BY <1>4, BehindReader DEF KeepsUp
  <2>3. ASSUME Promised(r)', Holds(r)' PROVE ExactOK(r)'
    <3>1. /\ OrderOK /\ TurnsOK /\ Behind(r) /\ (Promised(r) /\ Holds(r) => ExactOK(r))
      BY DEF KeepsUp, Ordered
    <3> QED BY <1>4, <2>3, <3>1, SelfExactResets, SelfExactChecks, SelfExactReads, SelfExactAdvances,
               SelfExactSaves, SelfExactReturns DEF Reader, Recv
  <2>4. ASSUME NEW q \in Readers \ {r}, Promised(q)', Holds(q)' PROVE ExactOK(q)'
    <3>1. Promised(q) /\ Holds(q) => ExactOK(q) BY DEF KeepsUp
    <3> QED BY <1>4, <2>4, <3>1, OthersExact
  <2> QED BY <2>1, <2>2, <2>3, <2>4 DEF KeepsUp
<1> QED BY <1>2, <1>3, <1>4 DEF Next, PubStep

(* A ring with room for three messages of any size and a tag: every reader *)
(* that keeps up is on time.                                               *)
THEOREM MsgqKeepsUp == ASSUME RoomForTag PROVE Spec => []KeepsUp
<1>1. Init => KeepsUp BY InitKeepsUp
<1>2. MInv /\ Ordered /\ KeepsUp /\ [Next]_vars => KeepsUp' BY NextKeepsUp
<1> QED BY <1>1, <1>2, MsgqInv, MsgqOrdered, PTL DEF Spec

(* Such a ring implements the channel: a reader that keeps up receives     *)
(* every message.                                                          *)
THEOREM MsgqImplements == ASSUME RoomForTag PROVE Spec => ImplementsChannel
<1>1. Init => Channel!Init
  <2> SUFFICES ASSUME Init PROVE Channel!Init OBVIOUS
  <2>1. {r \in Readers : rd[r].fresh} = {} BY DEF Init, Off
  <2> QED BY <2>1 DEF Init, Channel!Init
<1>2. MInv /\ Ordered /\ KeepsUp /\ [Next]_vars => [Channel!Next]_(Channel!vars)
  <2> SUFFICES ASSUME MInv, Ordered, KeepsUp, [Next]_vars PROVE [Channel!Next]_(Channel!vars) OBVIOUS
  <2>1. CASE UNCHANGED vars BY <2>1 DEF vars, shared, history, Channel!vars
  <2>2. CASE PubStep
    <3>1. Channel!Publish \/ Channel!Drift \/ UNCHANGED <<Joining, log, got, lagged, adrift>> BY <2>2, PubMaps
    <3> QED BY <3>1 DEF Channel!Next, Channel!vars, Joining
  <2>3. ASSUME NEW r \in Readers, Reader(r) PROVE Channel!Next
    <3>1. CASE ~(Final(r) /\ got' # got)
      <4>1. Channel!Drift \/ Channel!Subscribe(r) BY <2>3, <3>1, ReaderMaps
      <4> QED BY <4>1 DEF Channel!Next
    <3>2. CASE Final(r) /\ got' # got
      <4>1. PICK m : m = rd[r].buf[1].msg OBVIOUS
      <4>2. /\ r \notin adrift /\ Mine(r).valid /\ rd[r].pc = "final" /\ m \in got[r] + 1 .. Len(log)
            /\ got' = [got EXCEPT ![r] = m]
            /\ UNCHANGED <<Joining, log, lagged, adrift>>
        BY <3>2, <4>1, ReturnMaps
      <4>3. r \notin lagged \cup Lossy => m = got[r] + 1
        <5> SUFFICES ASSUME r \notin lagged \cup Lossy PROVE m = got[r] + 1 OBVIOUS
        <5>1. Promised(r) /\ Holds(r) BY <4>2 DEF Promised, Holds, Slotted, Settled, Checked
        <5> QED BY <4>1, <4>2, <5>1 DEF KeepsUp, ExactOK
      <4>4. Channel!Deliver(r) BY <4>2, <4>3 DEF Channel!Deliver, Joining
      <4> QED BY <4>4 DEF Channel!Next
    <3> QED BY <3>1, <3>2
  <2> QED BY <2>1, <2>2, <2>3 DEF Next, PubStep
<1> QED BY <1>1, <1>2, MsgqInv, MsgqOrdered, MsgqKeepsUp, PTL DEF Spec, ImplementsChannel, Channel!Spec
============================================================================
