-------------------------- MODULE MsgqOrderProofs --------------------------
(***************************************************************************)
(* The order of msgq, under the assumptions of MsgqProofs alone: whoever   *)
(* is not adrift receives published messages, in order and none twice.     *)
(* This is the refinement of the channel in which everybody may lose       *)
(* messages; MsgqChannelProofs adds who loses none.                        *)
(*                                                                         *)
(* MInv says where messages are in the ring, and not which they are.       *)
(* Ordered adds their numbers: they grow by one from each boundary to the  *)
(* next, up to the write pointer (OrderOK), so that a reader that goes     *)
(* from boundary to boundary comes to newer messages only (NewerOK).       *)
(***************************************************************************)
EXTENDS MsgqProofs

(* The number of the first message of this cycle, of the one that a reader *)
(* at a tag receives next, and of the one that it receives at a boundary.  *)
First     == IF write_pointer.ptr = 0 THEN Len(log) + 1 ELSE ring[1].msg
Number(a) == IF ring[a] = WrapTag THEN First ELSE ring[a + 1].msg
Coming(a) == IF a = write_pointer.ptr THEN Len(log) + 1 ELSE Number(a)

(* The boundary after the message at a.                                    *)
End(a) == a + 1 + ring[a].n

(* The numbers follow each other up to the write pointer.  What is left of *)
(* the cycle before does so too, and is older.                             *)
OrderOK ==
    /\ \A a \in 0 .. Size - 1 : a < write_pointer.ptr /\ IsTag(ring[a]) => Coming(End(a)) = Number(a) + 1
    /\ \A a \in 0 .. Size - 1 : a > write_pointer.ptr /\ IsTag(ring[a]) /\ ring[a] # WrapTag =>
           /\ Number(a) < First
           /\ ring[End(a)] # WrapTag => Number(End(a)) = Number(a) + 1

(* The last message that a reader has passed over with its pointer: in its *)
(* last step, it is the one that it has copied.                            *)
Seen(r) == IF rd[r].pc = "final" THEN rd[r].buf[1].msg ELSE got[r]

(* The message of n words at a is newer than the reader's last one, and    *)
(* what comes after it is newer still.                                     *)
Newer(r, a, n) == got[r] < ring[a + 1].msg /\ ring[a + 1].msg < Coming(a + 1 + n)

(* The same, at each step of a call.  Between the comparison and the load  *)
(* of the tag, the publisher may come around and be where the reader is.   *)
ReadNewer(r) ==
    LET a == rd[r].rp.ptr  w == rd[r].buf[1] IN
    /\ rd[r].pc = "size" =>
           \/ ring[a] = WrapTag /\ got[r] < First
           \/ /\ ring[a] # WrapTag /\ Newer(r, a, ring[a].n)
              /\ a = write_pointer.ptr => ring[a + 1].msg < First
    /\ rd[r].pc = "trust" => \/ w = WrapTag /\ got[r] < First
                             \/ w # WrapTag /\ Newer(r, a, w.n)
    /\ rd[r].pc = "advance" => got[r] < Coming(rd[r].wp.ptr)
    /\ rd[r].pc \in {"copy", "store"} => Newer(r, a, rd[r].size)

(* What a reader is to receive is newer than what it has received, as long *)
(* as its flag is on.                                                      *)
NewerOK(r) ==
    /\ rd[r].pc \in Settled /\ Live(r) => Seen(r) < Coming(Mine(r).pointer.ptr)
    /\ rd[r].pc = "final" /\ Live(r) => got[r] < rd[r].buf[1].msg
    /\ rd[r].pc \in Reading /\ Live(r) => ReadNewer(r)
    /\ rd[r].pc = "reset_store" /\ Mine(r).uid = r /\ WithinLap(rd[r].wp) => got[r] < Coming(rd[r].wp.ptr)

(* The ring is in order, and every reader reads on.                        *)
Ordered == OrderOK /\ \A r \in Readers : NewerOK(r)
----------------------------------------------------------------------------
(* Every word has a number, that of its message.                           *)
LEMMA Messages == ASSUME NEW w \in Words PROVE w.msg \in Nat
BY DEF Words, SizeTag, WrapTag

(* A size in the ring, wherever the publisher is not writing: its message  *)
(* has a number and ends at a boundary.                                    *)
LEMMA SizedMessage ==
    ASSUME QueueOK, NEW a \in 0 .. Size - 1, a # write_pointer.ptr, IsTag(ring[a]), ring[a] # WrapTag
    PROVE  /\ ring[a].kind = "size" /\ ring[a].n \in Sizes /\ ring[a].n \in Nat /\ ring[a].n > 0
           /\ Fits(a, ring[a].n) /\ PayloadAt(a, ring[a].n)
           /\ a + 1 \in 0 .. Size - 1 /\ End(a) \in 0 .. Size - 1 /\ End(a) > a + 1
           /\ Boundary(End(a))
           /\ a < write_pointer.ptr => End(a) <= write_pointer.ptr
           /\ Number(a) = ring[a + 1].msg /\ ring[a + 1].msg \in 1 .. Len(log)
<1>1. Readable(a) /\ Size \in Nat BY Constants DEF QueueOK, RingOK
<1>2. ring[a].kind = "size" /\ Fits(a, ring[a].n) /\ PayloadAt(a, ring[a].n) BY <1>1 DEF Readable
<1> DEFINE n == ring[a].n
<1>3. n \in Sizes /\ n \in Nat /\ n > 0 BY <1>2, Constants DEF Fits
<1>4. a + 1 + n < Size /\ Boundary(a + 1 + n) /\ (a < write_pointer.ptr => a + 1 + n <= write_pointer.ptr)
    BY <1>2 DEF Fits
<1>5. PICK m \in 1 .. Len(log) : \A k \in 1 .. n : ring[a + k] = Payload(m, k) BY <1>2 DEF PayloadAt
<1>6. 1 \in 1 .. n BY <1>3
<1>7. ring[a + 1] = Payload(m, 1) BY <1>5, <1>6
<1>8. ring[a + 1].msg = m BY <1>7 DEF Payload
<1> QED BY <1>1, <1>2, <1>3, <1>4, <1>8 DEF End, Number

(* The first message of a cycle is at the start of the ring.               *)
LEMMA FirstMessage ==
    ASSUME QueueOK
    PROVE  /\ Len(log) \in Nat /\ First \in 1 .. Len(log) + 1 /\ Coming(0) = First
           /\ write_pointer.ptr # 0 =>
                  /\ 0 \in 0 .. Size - 1 /\ IsTag(ring[0]) /\ ring[0] # WrapTag
                  /\ write_pointer.ptr > 1 /\ End(0) <= write_pointer.ptr
                  /\ First = ring[1].msg /\ First <= Len(log) /\ Number(0) = First
<1>1. Size \in Nat /\ Size > 0 /\ write_pointer.ptr \in 0 .. Size - 1 /\ Len(log) \in Nat
    BY Constants DEF QueueOK, Pointer
<1>2. CASE write_pointer.ptr = 0 BY <1>1, <1>2 DEF First, Coming
<1>3. CASE write_pointer.ptr # 0
  <2>1. 0 \in 0 .. Size - 1 /\ IsTag(ring[0]) BY <1>1, <1>3 DEF QueueOK, RingOK, Boundary
  <2>2. ring[0] # WrapTag BY <1>1, <1>3, <2>1 DEF QueueOK, RingOK
  <2>3. /\ End(0) <= write_pointer.ptr /\ End(0) > 0 + 1 /\ End(0) \in 0 .. Size - 1
        /\ Number(0) = ring[0 + 1].msg /\ ring[0 + 1].msg \in 1 .. Len(log)
    BY <1>1, <1>3, <2>1, <2>2, SizedMessage
  <2>4. 0 + 1 = 1 OBVIOUS
  <2> QED BY <1>1, <1>3, <2>1, <2>2, <2>3, <2>4 DEF First, Coming
<1> QED BY <1>2, <1>3

(* What a reader at a boundary receives next has been sent, or is next.    *)
LEMMA ComingBound ==
    ASSUME QueueOK, NEW a \in 0 .. Size - 1, Boundary(a)
    PROVE  Coming(a) \in 1 .. Len(log) + 1
<1>1. Len(log) \in Nat /\ First \in 1 .. Len(log) + 1 BY FirstMessage
<1>2. CASE a = write_pointer.ptr BY <1>1, <1>2 DEF Coming
<1>3. CASE a # write_pointer.ptr /\ ring[a] = WrapTag BY <1>1, <1>3 DEF Coming, Number
<1>4. CASE a # write_pointer.ptr /\ ring[a] # WrapTag
  <2>1. Number(a) \in 1 .. Len(log) BY <1>4, SizedMessage DEF Boundary
  <2> QED BY <1>1, <1>4, <2>1 DEF Coming
<1> QED BY <1>2, <1>3, <1>4

(* The same, of the state after a step.                                    *)
Counted == QueueOK => /\ Len(log) \in Nat /\ First \in 1 .. Len(log) + 1 /\ Coming(0) = First
                      /\ \A b \in 0 .. Size - 1 : Boundary(b) => Coming(b) \in 1 .. Len(log) + 1

(* They are counted in every state ...                                     *)
LEMMA CountedHere == Counted
BY FirstMessage, ComingBound DEF Counted

(* ... and so in the next one.                                             *)
LEMMA CountedNext == Counted'
BY CountedHere, PTL

(* Under a step of the publisher, the numbers that readers wait for only   *)
(* grow.                                                                   *)
Grows == /\ First <= First'
         /\ \A b \in 0 .. Size - 1 : Boundary(b) /\ Clear(b) => Coming(b) <= Coming(b)'

(* A step that does not touch the ring.                                    *)
LEMMA OrderSame ==
    ASSUME QueueOK, OrderOK, UNCHANGED <<write_pointer, ring, log>>
    PROVE  OrderOK' /\ Grows
<1>1. First' = First BY DEF First
<1>2. \A a : Number(a)' = Number(a) /\ Coming(a)' = Coming(a) /\ End(a)' = End(a)
    BY <1>1 DEF Number, Coming, End
<1>3. OrderOK' BY <1>1, <1>2 DEF OrderOK
<1>4. First \in Nat BY FirstMessage
<1>5. \A b \in 0 .. Size - 1 : Boundary(b) => Coming(b) \in Nat BY ComingBound, FirstMessage
<1> QED BY <1>1, <1>2, <1>3, <1>4, <1>5 DEF Grows

(* Writing a word at or beyond the write pointer, where no complete        *)
(* message is: tags elsewhere keep their numbers.                          *)
LEMMA OrderWord ==
    ASSUME QueueOK, QueueOK', OrderOK, NEW x \in 0 .. Size - 1, x >= write_pointer.ptr, NEW v,
           ring' = [ring EXCEPT ![x] = v], UNCHANGED <<write_pointer, log>>,
           x = 1 => write_pointer.ptr = 0,
           x # write_pointer.ptr => ~IsTag(v),
           \A a \in 0 .. Size - 1 : write_pointer.ptr < a /\ a < x => ~IsTag(ring[a]),
           x # write_pointer.ptr => pub.dirty /\ x < write_pointer.ptr + Total /\ Total \in Nat
    PROVE  OrderOK' /\ Grows
<1> DEFINE w == write_pointer.ptr
<1>1. Size \in Nat /\ w \in 0 .. Size - 1 /\ DOMAIN ring = 0 .. Size - 1 BY Constants DEF QueueOK, Pointer
<1>2. ring'[x] = v /\ \A a \in 0 .. Size - 1 : a # x => ring'[a] = ring[a] BY <1>1
<1>3. First' = First
  <2>1. CASE w = 0 BY <2>1 DEF First
  <2>2. CASE w # 0
    <3>1. w > 1 BY <2>2, FirstMessage
    <3>2. 1 \in 0 .. Size - 1 /\ 1 # x BY <1>1, <3>1
    <3>3. ring'[1] = ring[1] BY <1>2, <3>2
    <3> QED BY <2>2, <3>3 DEF First
  <2> QED BY <2>1, <2>2
<1>4. ASSUME NEW a \in 0 .. Size - 1, a # w, IsTag(ring[a]), a # x, a < w \/ a > x
      PROVE  ring'[a] = ring[a] /\ Number(a)' = Number(a) /\ Coming(a)' = Coming(a) /\ End(a)' = End(a)
  <2>1. ring'[a] = ring[a] BY <1>2, <1>4
  <2>2. CASE ring[a] = WrapTag BY <1>3, <2>1, <2>2 DEF Number, Coming, End
  <2>3. CASE ring[a] # WrapTag
    <3>1. /\ a + 1 \in 0 .. Size - 1 /\ End(a) > a + 1 /\ End(a) \in Nat /\ (a < w => End(a) <= w)
      BY <1>4, <2>3, SizedMessage
    <3>2. a + 1 # x BY <1>1, <1>4, <3>1
    <3>3. ring'[a + 1] = ring[a + 1] BY <1>2, <3>1, <3>2
    <3> QED BY <2>1, <2>3, <3>3 DEF Number, Coming, End
  <2> QED BY <2>2, <2>3
<1>5. ASSUME NEW b \in 0 .. Size - 1, Boundary(b), b = w \/ b < w \/ b > x
      PROVE  Coming(b)' = Coming(b)
  <2>1. CASE b = w BY <2>1 DEF Coming
  <2>2. CASE b # w
    <3>1. IsTag(ring[b]) /\ b # x BY <1>1, <1>5, <2>2 DEF Boundary
    <3> QED BY <1>4, <1>5, <2>2, <3>1
  <2> QED BY <2>1, <2>2
<1>6. ASSUME NEW a \in 0 .. Size - 1, a < w, IsTag(ring'[a]) PROVE Coming(End(a))' = Number(a)' + 1
  <2>1. IsTag(ring[a]) /\ a # w /\ a # x BY <1>1, <1>2, <1>6
  <2>2. Number(a)' = Number(a) /\ End(a)' = End(a) BY <1>4, <1>6, <2>1
  <2>3. ring[a] # WrapTag BY <1>1, <1>6, <2>1 DEF QueueOK, RingOK
  <2>4. End(a) \in 0 .. Size - 1 /\ Boundary(End(a)) /\ End(a) <= w BY <1>6, <2>1, <2>3, SizedMessage
  <2>5. PICK b \in 0 .. Size - 1 : b = End(a) /\ b = End(a)' BY <2>2, <2>4
  <2>6. Coming(b)' = Coming(b) BY <1>1, <1>5, <2>4, <2>5
  <2>7. Coming(b) = Number(a) + 1 BY <1>6, <2>1, <2>5 DEF OrderOK
  <2> QED BY <2>2, <2>5, <2>6, <2>7
<1>7. ASSUME NEW a \in 0 .. Size - 1, a > w, IsTag(ring'[a]), ring'[a] # WrapTag
      PROVE  /\ Number(a)' < First'
             /\ ring'[End(a)'] # WrapTag => Number(End(a))' = Number(a)' + 1
  <2>1. a > x BY <1>1, <1>2, <1>7
  <2>2. ring'[a] = ring[a] /\ IsTag(ring[a]) /\ a # w BY <1>1, <1>2, <1>7, <2>1
  <2>3. Number(a)' = Number(a) /\ End(a)' = End(a) BY <1>1, <1>4, <1>7, <2>1, <2>2
  <2>4. End(a) \in 0 .. Size - 1 /\ Boundary(End(a)) /\ End(a) > a + 1 BY <1>7, <2>2, SizedMessage
  <2>5. PICK b \in 0 .. Size - 1 : b = End(a) /\ b = End(a)' BY <2>3, <2>4
  <2>6. b > x /\ b # w /\ IsTag(ring[b]) BY <1>1, <2>1, <2>4, <2>5 DEF Boundary
  <2>7. ring'[b] = ring[b] /\ Number(b)' = Number(b) BY <1>1, <1>4, <2>6
  <2>8. Number(a) < First /\ (ring[b] # WrapTag => Number(b) = Number(a) + 1)
    BY <1>7, <2>2, <2>5 DEF OrderOK
  <2> QED BY <1>3, <2>3, <2>5, <2>7, <2>8
<1>8. OrderOK' BY <1>6, <1>7 DEF OrderOK
<1>9. ASSUME NEW b \in 0 .. Size - 1, Boundary(b), Clear(b) PROVE Coming(b) <= Coming(b)'
  <2>1. b = w \/ b < w \/ b > x BY <1>1, <1>9 DEF Clear
  <2>2. Coming(b)' = Coming(b) BY <1>5, <1>9, <2>1
  <2>3. Coming(b) \in Nat BY <1>9, ComingBound, FirstMessage
  <2> QED BY <2>2, <2>3
<1>10. First \in Nat BY FirstMessage
<1> QED BY <1>3, <1>8, <1>9, <1>10 DEF Grows

(* A new cycle: what was before the write pointer is beyond it now.        *)
LEMMA OrderCycle ==
    ASSUME QueueOK, OrderOK, SendCycle
    PROVE  OrderOK' /\ Grows
<1> DEFINE w == write_pointer.ptr
<1>1. /\ UNCHANGED <<ring, log>> /\ write_pointer'.ptr = 0 /\ pub.pc = "cycle"
    BY DEF SendCycle, history
<1>2. Size \in Nat /\ w \in 0 .. Size - 1 /\ w > 0 /\ ring[w] = WrapTag
    BY <1>1, Constants DEF QueueOK, Pointer, PubOK, MayWrap
<1>3. Len(log) \in Nat /\ First \in 1 .. Len(log) + 1 /\ First' = Len(log) + 1
    BY <1>1, FirstMessage DEF First
<1>4. ASSUME NEW a \in 0 .. Size - 1, a # w, IsTag(ring[a]), ring[a] # WrapTag
      PROVE  /\ Number(a)' = Number(a) /\ End(a)' = End(a) /\ Number(a) \in 1 .. Len(log)
             /\ End(a) \in 0 .. Size - 1
             /\ ring[End(a)] # WrapTag => Number(End(a))' = Number(a) + 1
  <2>1. /\ Number(a) \in 1 .. Len(log) /\ End(a) \in 0 .. Size - 1 /\ Boundary(End(a)) /\ End(a) > a + 1
        /\ a < w => End(a) <= w
    BY <1>4, SizedMessage
  <2>2. Number(a)' = Number(a) /\ End(a)' = End(a) BY <1>1, <1>4 DEF Number, End
  <2>3. PICK b \in 0 .. Size - 1 : b = End(a) BY <2>1
  <2>4. ASSUME ring[b] # WrapTag PROVE Number(b)' = Number(a) + 1
    <3>1. b # w /\ Number(b)' = Number(b) BY <1>1, <1>2, <2>4 DEF Number
    <3>2. CASE a < w
      <4>1. Coming(b) = Number(a) + 1 BY <1>4, <2>3, <3>2 DEF OrderOK
      <4> QED BY <3>1, <4>1 DEF Coming
    <3>3. CASE a > w BY <1>4, <2>3, <2>4, <3>1, <3>3 DEF OrderOK
    <3> QED BY <1>2, <1>4, <3>2, <3>3
  <2> QED BY <2>1, <2>2, <2>3, <2>4
<1>5. OrderOK'
  <2>1. ASSUME NEW a \in 0 .. Size - 1, a > 0, IsTag(ring[a]), ring[a] # WrapTag
        PROVE  /\ Number(a)' < First'
               /\ ring[End(a)'] # WrapTag => Number(End(a))' = Number(a)' + 1
    <3>1. a # w BY <1>2, <2>1
    <3> QED BY <1>3, <1>4, <2>1, <3>1
  <2> QED BY <1>1, <2>1 DEF OrderOK
<1>6. ASSUME NEW b \in 0 .. Size - 1, Boundary(b) PROVE Coming(b) <= Coming(b)'
  <2>1. Coming(b) \in 1 .. Len(log) + 1 BY <1>6, ComingBound
  <2>2. CASE b = 0 BY <1>1, <1>3, <2>1, <2>2 DEF Coming
  <2>3. CASE b # 0 /\ ring[b] = WrapTag
    <3>1. Coming(b)' = First' BY <1>1, <2>3 DEF Coming, Number
    <3> QED BY <1>3, <2>1, <3>1
  <2>4. CASE b # 0 /\ ring[b] # WrapTag
    <3>1. b # w /\ IsTag(ring[b]) BY <1>2, <1>6, <2>4 DEF Boundary
    <3>2. Number(b)' = Number(b) BY <1>4, <2>4, <3>1
    <3>3. Coming(b)' = Number(b)' /\ Coming(b) = Number(b) BY <1>1, <2>4, <3>1 DEF Coming
    <3> QED BY <1>3, <2>1, <3>2, <3>3
  <2> QED BY <2>2, <2>3, <2>4
<1> QED BY <1>3, <1>5, <1>6 DEF Grows

(* A message is published: it follows the last one.                        *)
LEMMA OrderDone ==
    ASSUME QueueOK, QueueOK', OrderOK, SendDone
    PROVE  /\ OrderOK' /\ Grows /\ First' = First /\ \A a : Number(a)' = Number(a)
           /\ Number(write_pointer.ptr) = Len(log) + 1
<1> SUFFICES ASSUME NEW w, w = write_pointer.ptr, NEW n, n = pub.size, NEW y, y = w + n + 1
             PROVE  /\ OrderOK' /\ Grows /\ First' = First /\ \A a : Number(a)' = Number(a)
                    /\ Number(w) = Len(log) + 1
    OBVIOUS
<1> DEFINE new == Len(log) + 1
<1>1. UNCHANGED ring /\ log' = Append(log, n) /\ pub.pc = "done" BY DEF SendDone
<1>2. /\ Size \in Nat /\ w \in 0 .. Size - 1 /\ n \in Sizes /\ n \in Nat /\ n > 0 /\ Total = n + 1
      /\ w + n + 2 < Size /\ log \in Seq(Sizes) /\ Len(log) \in Nat
  <2>1. Size \in Nat BY Constants
  <2>2. w \in 0 .. Size - 1 /\ log \in Seq(Sizes) /\ Len(log) \in Nat BY DEF QueueOK, Pointer
  <2>3. n \in Sizes /\ n \in Nat /\ n > 0 BY <1>1, Constants DEF QueueOK, PubType, Sending
  <2>4. w + Total + 1 < Size BY <1>1 DEF QueueOK, PubOK, Writing
  <2> QED BY <2>1, <2>2, <2>3, <2>4 DEF Total
<1>0. Size \in Nat /\ w \in Nat /\ n \in Nat /\ n > 0 /\ w + n + 2 < Size BY <1>2
<1>3. write_pointer'.ptr = y /\ y \in 0 .. Size - 1 /\ y > w + 1 /\ w + 1 \in 0 .. Size - 1
  <2>1. write_pointer \in [cycles : Nat, ptr : 0 .. Size - 1] BY DEF QueueOK, Pointer
  <2>2. write_pointer'.ptr = w + Total BY <2>1 DEF SendDone
  <2>3. Total = n + 1 BY <1>2
  <2>4. w + Total = y BY <1>0, <2>3
  <2>5. y \in 0 .. Size - 1 /\ y > w + 1 /\ w + 1 \in 0 .. Size - 1 BY <1>0
  <2> QED BY <2>2, <2>4, <2>5
<1>4. Len(log') = new BY <1>1, <1>2
<1>5. ring[w] = SizeTag(n) /\ IsTag(ring[w]) /\ ring[w] # WrapTag /\ ring[w].n = n
    BY <1>1, <1>2, Tags, WrittenWords DEF QueueOK, PubOK
<1>6. \A k \in 1 .. n : ring[w + k] = Payload(new, k) BY <1>1 DEF QueueOK, PubOK
<1>7. Number(w) = new /\ ring[w + 1].msg = new
  <2>1. 1 \in 1 .. n BY <1>2
  <2>2. ring[w + 1] = Payload(new, 1) BY <1>6, <2>1
  <2> QED BY <1>5, <2>2 DEF Number, Payload
<1>8. ASSUME NEW a \in 0 .. Size - 1, w < a, a < y PROVE ~IsTag(ring[a])
  <2> DEFINE k == a - w
  <2>1. k \in 1 .. n /\ k \in Nat /\ a = w + k BY <1>0, <1>8
  <2> HIDE DEF k
  <2>2. ring[a] = Payload(new, k) /\ new \in Nat BY <1>2, <1>6, <2>1
  <2> QED BY <2>1, <2>2, Tags
<1>9. First' = First
  <2>1. First' = ring[1].msg BY <1>1, <1>2, <1>3 DEF First
  <2>2. CASE w = 0
    <3>1. w + 1 = 1 BY <2>2
    <3> QED BY <1>7, <2>1, <2>2, <3>1 DEF First
  <2>3. CASE w # 0 BY <2>1, <2>3 DEF First
  <2> QED BY <2>2, <2>3
<1>10. \A a : Number(a)' = Number(a) /\ End(a)' = End(a) BY <1>1, <1>9 DEF Number, End
<1>11. End(w) = y BY <1>2, <1>5 DEF End
<1> HIDE DEF new
<1>12. ASSUME NEW a \in 0 .. Size - 1, a < y, IsTag(ring[a]) PROVE Coming(End(a))' = Number(a) + 1
  <2>1. CASE a = w
    <3>1. Coming(y)' = new + 1 BY <1>3, <1>4 DEF Coming
    <3> QED BY <1>7, <1>10, <1>11, <2>1, <3>1
  <2>2. CASE a # w
    <3>1. a < w BY <1>2, <1>3, <1>8, <1>12, <2>2
    <3>2. ring[a] # WrapTag BY <1>2, <1>12, <2>2, <3>1 DEF QueueOK, RingOK
    <3>3. End(a) \in 0 .. Size - 1 /\ End(a) <= w BY <1>12, <2>2, <3>1, <3>2, SizedMessage
    <3>4. Coming(End(a)) = Number(a) + 1 BY <1>12, <3>1 DEF OrderOK
    <3>5. PICK b \in 0 .. Size - 1 : b = End(a) /\ b = End(a)' BY <1>10, <3>3
    <3>6. b # y BY <1>2, <1>3, <3>3, <3>5
    <3>7. Coming(b)' = Number(b) BY <1>3, <1>10, <3>6 DEF Coming
    <3>8. Coming(b) = Number(b) BY <1>7, <1>2 DEF Coming, new
    <3> QED BY <3>4, <3>5, <3>7, <3>8
  <2> QED BY <2>1, <2>2
<1>13. OrderOK'
  <2>1. ASSUME NEW a \in 0 .. Size - 1, a > y, IsTag(ring[a]), ring[a] # WrapTag
        PROVE  /\ Number(a)' < First'
               /\ ring[End(a)'] # WrapTag => Number(End(a))' = Number(a)' + 1
    <3>1. a > w BY <1>2, <1>3, <2>1
    <3> QED BY <1>9, <1>10, <2>1, <3>1 DEF OrderOK
  <2> QED BY <1>1, <1>3, <1>10, <1>12, <2>1 DEF OrderOK
<1>14. ASSUME NEW b \in 0 .. Size - 1, Boundary(b) PROVE Coming(b) <= Coming(b)'
  <2>1. Coming(b) \in 1 .. Len(log) + 1 BY <1>14, ComingBound
  <2>2. CASE b = y
    <3>1. Coming(b)' = new + 1 BY <1>3, <1>4, <2>2 DEF Coming
    <3> QED BY <1>2, <2>1, <3>1 DEF new
  <2>3. CASE b # y
    <3>1. Coming(b)' = Number(b) BY <1>3, <1>10, <2>3 DEF Coming
    <3>2. Coming(b) = Number(b) BY <1>7 DEF Coming, new
    <3> QED BY <1>2, <2>1, <3>1, <3>2
  <2> QED BY <2>2, <2>3
<1>15. First \in Nat BY FirstMessage
<1> QED BY <1>7, <1>9, <1>10, <1>13, <1>14, <1>15 DEF Grows, new

(* The order of the ring, under any step of the publisher.                 *)
LEMMA OrderStep ==
    ASSUME QueueOK, HeaderOK, OrderOK, PubStep
    PROVE  OrderOK' /\ Grows
<1>1. QueueOK' BY QueueStep
<1>2. CASE SendWrap \/ SendTag
  <2> DEFINE v == IF pub.pc = "wrap" THEN WrapTag ELSE SizeTag(pub.size)
  <2>1. /\ ring' = [ring EXCEPT ![write_pointer.ptr] = v] /\ UNCHANGED <<write_pointer, log>>
    BY <1>2 DEF SendWrap, SendTag, history
  <2>2. PICK x : x = write_pointer.ptr OBVIOUS
  <2>3. x \in 0 .. Size - 1 /\ Size \in Nat BY <2>2, Constants DEF QueueOK, Pointer
  <2>4. x # 1
    <3>1. CASE x = 0 BY <3>1
    <3>2. CASE x # 0 BY <2>2, <3>2, FirstMessage
    <3> QED BY <3>1, <3>2
  <2>5. x >= write_pointer.ptr /\ (\A a \in 0 .. Size - 1 : write_pointer.ptr < a /\ a < x => ~IsTag(ring[a]))
    BY <2>2, <2>3
  <2> HIDE DEF v
  <2> QED BY <1>1, <2>1, <2>2, <2>3, <2>4, <2>5, OrderWord
<1>3. CASE SendData
  <2> DEFINE v == Payload(Len(log) + 1, pub.i)
  <2>1. /\ ring' = [ring EXCEPT ![write_pointer.ptr + pub.i] = v] /\ UNCHANGED <<write_pointer, log>>
        /\ pub.pc = "data"
    BY <1>3 DEF SendData, history
  <2>2. PICK x, i, w : x = w + i /\ i = pub.i /\ w = write_pointer.ptr OBVIOUS
  <2>3. /\ Size \in Nat /\ write_pointer.ptr \in 0 .. Size - 1 /\ Len(log) \in Nat
        /\ pub.size \in Nat /\ pub.i \in 1 .. pub.size /\ pub.dirty /\ Total = pub.size + 1
    BY <2>1, Constants DEF QueueOK, Pointer, PubType, PubRecord, PubOK, Sending, Total
  <2>4. write_pointer.ptr + Total + 1 < Size BY <2>1 DEF QueueOK, PubOK, Writing
  <2>5. /\ x \in 0 .. Size - 1 /\ x > write_pointer.ptr /\ x < write_pointer.ptr + Total /\ Total \in Nat
        /\ (x = 1 => write_pointer.ptr = 0)
    <3>1. Size \in Nat /\ w \in 0 .. Size - 1 /\ pub.size \in Nat /\ i \in 1 .. pub.size /\ Total = pub.size + 1
          /\ w + Total + 1 < Size
      BY <2>2, <2>3, <2>4
    <3>2. x \in 0 .. Size - 1 /\ x > w /\ x < w + Total /\ Total \in Nat /\ (x = 1 => w = 0) BY <2>2, <3>1
    <3> QED BY <2>2, <3>2
  <2>6. ~IsTag(v) BY <2>3, Tags
  <2>7. ASSUME NEW a \in 0 .. Size - 1, write_pointer.ptr < a, a < x PROVE ~IsTag(ring[a])
    <3>1. PICK k \in 1 .. pub.size : k \in Nat /\ k < pub.i /\ a = write_pointer.ptr + k
      <4>1. /\ a - write_pointer.ptr \in 1 .. pub.size /\ a - write_pointer.ptr \in Nat
            /\ a - write_pointer.ptr < pub.i /\ a = write_pointer.ptr + (a - write_pointer.ptr)
        BY <2>2, <2>3, <2>7
      <4> QED BY <4>1
    <3>2. ring[a] = Payload(Len(log) + 1, k) BY <2>1, <3>1 DEF QueueOK, PubOK
    <3> QED BY <2>3, <3>1, <3>2, Tags
  <2> HIDE DEF v
  <2>8. x >= write_pointer.ptr BY <2>3, <2>5
  <2>9. ring' = [ring EXCEPT ![x] = v] BY <2>1, <2>2
  <2> QED BY <1>1, <2>1, <2>3, <2>5, <2>6, <2>7, <2>8, <2>9, OrderWord
<1>4. CASE SendCycle BY <1>4, OrderCycle
<1>5. CASE SendDone BY <1>1, <1>5, OrderDone
<1>6. CASE PubStart \/ PubClear \/ PubKill \/ SendBegin \/ SendBeyond \/ SendEvict
  <2>1. UNCHANGED <<write_pointer, ring, log>>
    BY <1>6 DEF PubStart, PubClear, PubKill, SendBegin, SendBeyond, SendEvict, Loop, shared, history
  <2> QED BY <2>1, OrderSame
<1> QED BY <1>2, <1>3, <1>4, <1>5, <1>6 DEF PubStep, Send

----------------------------------------------------------------------------
(* What a reader has received has a number.                                *)
LEMMA LastNumber ==
    ASSUME MInv, NEW r \in Readers
    PROVE  /\ got[r] \in Nat /\ got[r] <= Len(log) /\ Len(log) \in Nat
           /\ rd[r].pc \in Settled /\ Live(r) => Seen(r) \in Nat
           /\ rd[r].pc = "final" /\ Live(r) =>
                  rd[r].buf[1].msg \in 1 .. Len(log)
<1>1. log \in Seq(Sizes) /\ Len(log) \in Nat /\ got[r] \in 0 .. Len(log) BY DEF MInv, QueueOK, GotOK
<1>2. ASSUME rd[r].pc = "final", Live(r) PROVE rd[r].buf[1].msg \in 1 .. Len(log)
  <2>1. Whole(r) BY <1>2 DEF MInv, ReadersOK, ReaderOK
  <2>2. PICK m \in 1 .. Len(log) : rd[r].buf = Message(m) BY <2>1 DEF Whole
  <2>3. log[m] \in Nat /\ log[m] > 0 BY <1>1, Constants
  <2>4. rd[r].buf[1].msg = m BY <2>2, <2>3 DEF Message, Payload
  <2> QED BY <2>4
<1>3. got[r] \in Nat /\ got[r] <= Len(log) BY <1>1
<1>4. rd[r].pc \in Settled /\ Live(r) => Seen(r) \in Nat BY <1>1, <1>2, <1>3 DEF Seen
<1> QED BY <1>1, <1>2, <1>3, <1>4

(* Only the write pointer's word becomes a wraparound tag.                 *)
LEMMA NewWrap ==
    ASSUME QueueOK, PubStep, NEW a \in 0 .. Size - 1, ring[a] # WrapTag, ring'[a] = WrapTag
    PROVE  a = write_pointer.ptr
<1>1. ring \in [0 .. Size - 1 -> Words] /\ Len(log) \in Nat /\ pub \in PubRecord BY DEF QueueOK, PubType
<1>2. CASE SendWrap \/ SendTag BY <1>1, <1>2 DEF SendWrap, SendTag
<1>3. CASE SendData
  <2>1. pub.i \in Nat BY <1>1 DEF PubRecord
  <2>2. Payload(Len(log) + 1, pub.i) # WrapTag BY <1>1, <2>1, Tags, WrittenWords
  <2>3. ring' = [ring EXCEPT ![write_pointer.ptr + pub.i] = Payload(Len(log) + 1, pub.i)] BY <1>3 DEF SendData
  <2> QED BY <1>1, <2>2, <2>3
<1>4. CASE ring' = ring BY <1>4
<1> QED BY <1>2, <1>3, <1>4 DEF PubStep, Send, PubStart, PubClear, PubKill, SendBegin, SendBeyond, SendEvict,
                                Loop, SendCycle, SendDone, shared

(* The pointer that a reset has loaded, under a step of the publisher: if  *)
(* it is within a lap after the step, it was so before.                    *)
LEMMA LapStays ==
    ASSUME MInv, PubStep, NEW r \in Readers, rd[r].pc = "reset_store", Mine(r)'.uid = r,
           NEW q, q = rd[r].wp, WithinLap(q)'
    PROVE  /\ Mine(r).uid = r /\ q.ptr \in 0 .. Size - 1 /\ WithinLap(q)
           /\ Boundary(q.ptr) /\ Clear(q.ptr) /\ UpTo(q, write_pointer)
<1>1. /\ rd' = rd
      /\ \A i \in Slots : slot'[i].uid \in {slot[i].uid, Nobody}
    BY PubLeaves DEF MInv
<1>2. rd[r].id \in Slots /\ rd[r].id \in Nat BY Numbers DEF Slotted
<1>3. Mine(r).uid = r BY <1>1, <1>2, NobodyAssumption DEF Mine
<1>4. /\ UpTo(q, write_pointer) /\ (WithinLap(q) => Boundary(q.ptr))
      /\ pub.pc \in {"init", "init_uid"} /\ rd[r].id < pub.i => q = write_pointer
    BY <1>3 DEF MInv, ReadersOK, ResetOK
<1>5. /\ Size \in Nat /\ NUM_READERS \in Nat /\ q.ptr \in 0 .. Size - 1 /\ q.cycles \in Nat
      /\ write_pointer.ptr \in 0 .. Size - 1 /\ write_pointer.cycles \in Nat /\ Total \in Nat /\ pub.i \in Nat
      /\ pub \in PubRecord
    BY Numbers DEF MInv, QueueOK, PubType
<1>6. WithinLap(q)
  <2>1. CASE PubClear
    <3>1. /\ pub.pc \in {"init", "init_uid"} /\ write_pointer' = write_pointer /\ pub.i \in Slots
      BY <2>1 DEF PubClear, MInv, QueueOK, PubType
    <3>2. CASE pub.pc = "init_uid" /\ pub.i = NUM_READERS
      <4>1. slot'[pub.i].uid = Nobody BY <2>1, <3>1, <3>2 DEF PubClear, MInv, HeaderOK
      <4>2. rd[r].id # pub.i BY <1>1, <4>1, NobodyAssumption DEF Mine
      <4>3. q = write_pointer BY <1>2, <1>4, <1>5, <3>1, <3>2, <4>2 DEF Slots
      <4> QED BY <4>3 DEF WithinLap
    <3>3. CASE ~(pub.pc = "init_uid" /\ pub.i = NUM_READERS)
      <4>1. pub'.dirty = pub.dirty /\ pub'.size = pub.size BY <1>5, <2>1, <3>3 DEF PubClear, PubRecord
      <4> QED BY <3>1, <4>1 DEF WithinLap, Total
    <3> QED BY <3>2, <3>3
  <2>2. CASE SendCycle
    <3>1. write_pointer'.cycles = write_pointer.cycles + 1 BY <2>2 DEF SendCycle
    <3>2. q.cycles <= write_pointer.cycles BY <1>4, <1>5 DEF UpTo
    <3> QED BY <1>5, <3>1, <3>2 DEF WithinLap
  <2>3. CASE SendDone
    <3>1. /\ write_pointer'.cycles = write_pointer.cycles
          /\ write_pointer'.ptr = write_pointer.ptr + Total
      BY <1>5, <2>3, PointerMoves DEF MInv, SendDone, SendCycle, QueueOK, Pointer
    <3>2. pub.dirty /\ ~pub'.dirty BY <2>3 DEF SendDone, Idle, MInv, QueueOK, PubOK
    <3> QED BY <1>5, <3>1, <3>2 DEF WithinLap
  <2>4. CASE ~PubClear /\ ~SendCycle /\ ~SendDone
    <3>1. write_pointer' = write_pointer BY <2>4, PointerMoves DEF MInv
    <3>2. pub.dirty => pub'.dirty /\ pub'.size = pub.size
      <4>1. pub.dirty => pub.pc \in {"tag", "data", "done", "off", "init", "init_uid"} BY DEF MInv, QueueOK, PubOK
      <4>2. CASE PubKill BY <1>5, <4>2 DEF PubKill, Idle, PubRecord
      <4>3. CASE ~PubKill
        BY <1>5, <2>4, <4>1, <4>3 DEF PubStep, Send, PubStart, SendBegin, SendWrap, SendBeyond,
           SendEvict, Loop, SendTag, SendData, PubRecord
      <4> QED BY <4>2, <4>3
    <3>3. pub'.dirty => pub'.size \in Nat
      <4>1. pub' \in PubRecord BY QueueStep DEF MInv, QueueOK, PubType
      <4> QED BY <4>1 DEF PubRecord
    <3>4. CASE pub.dirty BY <3>1, <3>2, <3>4 DEF WithinLap, Total
    <3>5. CASE ~pub.dirty BY <1>5, <3>1, <3>3, <3>5 DEF WithinLap, Total
    <3> QED BY <3>4, <3>5
  <2> QED BY <2>1, <2>2, <2>3, <2>4
<1>7. Clear(q.ptr) BY <1>4, <1>5, <1>6 DEF WithinLap, Clear, UpTo
<1> QED BY <1>3, <1>4, <1>5, <1>6, <1>7

(* A message that is being read: its number, and the one after it.         *)
LEMMA NewerStays ==
    ASSUME MInv, PubStep, Keeps, Grows, QueueOK', NEW r \in Readers,
           NEW a \in 0 .. Size - 1, NEW n, Fits(a, n), PayloadAt(a, n),
           Clear(a), pub.dirty => a # write_pointer.ptr, Newer(r, a, n)
    PROVE  Newer(r, a, n)' /\ ring'[a + 1].msg = ring[a + 1].msg /\ ring[a + 1].msg \in 1 .. Len(log)
<1>1. /\ Size \in Nat /\ write_pointer.ptr \in 0 .. Size - 1 /\ Total \in Nat /\ Total > 0
    BY Numbers
<1>2. n \in Sizes /\ n \in Nat /\ n > 0 /\ a + 1 + n < Size /\ Boundary(a + 1 + n)
      /\ (a < write_pointer.ptr => a + 1 + n <= write_pointer.ptr)
    BY Constants DEF Fits
<1>3. PICK m \in 1 .. Len(log) : \A k \in 1 .. n : ring[a + k] = Payload(m, k) BY DEF PayloadAt
<1>4. 1 \in 1 .. n BY <1>2
<1>5. ring[a + 1] = Payload(m, 1) /\ ring'[a + 1] = ring[a + 1] BY <1>2, <1>3, <1>4 DEF Keeps
<1>6. ring[a + 1].msg = m BY <1>5 DEF Payload
<1>7. PICK b \in 0 .. Size - 1 : b = a + 1 + n BY <1>1, <1>2
<1>8. Clear(b) BY <1>1, <1>2, <1>7 DEF Clear
<1>9. Coming(b) <= Coming(b)' /\ Boundary(b)' BY <1>2, <1>7, <1>8 DEF Grows, Keeps
<1>10. Len(log) \in Nat /\ Coming(b) \in Nat BY <1>2, <1>7, ComingBound, FirstMessage DEF MInv
<1>11. Coming(b)' \in Nat
  <2>1. Len(log') \in Nat /\ Coming(b)' \in 1 .. Len(log') + 1 BY <1>9, CountedNext DEF Counted
  <2> QED BY <2>1
<1>12. got' = got BY PubLeaves DEF MInv
<1>13. got[r] < m /\ m < Coming(b) BY <1>6, <1>7 DEF Newer
<1>14. m < Coming(b)' BY <1>9, <1>10, <1>11, <1>13
<1> QED BY <1>5, <1>6, <1>7, <1>12, <1>13, <1>14 DEF Newer

(* A reader within a message, under a step of the publisher.               *)
LEMMA PubNewerRead ==
    ASSUME MInv, OrderOK, PubStep, NEW r \in Readers, rd[r].pc \in Reading, Live(r), ReadNewer(r)
    PROVE  ReadNewer(r)'
<1>1. QueueOK /\ HeaderOK /\ QueueOK' /\ Keeps /\ Grows /\ rd' = rd /\ got' = got
    BY QueueStep, OrderStep, PubLeaves DEF MInv
<1>2. PICK a, w : a = rd[r].rp.ptr /\ w = rd[r].buf[1] OBVIOUS
<1>3. /\ Size \in Nat /\ write_pointer.ptr \in 0 .. Size - 1 /\ Total \in Nat /\ Total > 0
      /\ a \in 0 .. Size - 1 /\ rd[r].wp.ptr \in 0 .. Size - 1
    BY <1>2, Numbers
<1>4. Placed(r, rd[r].rp) /\ ReadOK(r) BY WhileReading
<1>5. Clear(a) /\ (pub.dirty => a # write_pointer.ptr) BY <1>2, <1>3, <1>4 DEF Placed, ReadOK, Overlooked, Clear
<1>6. /\ got[r] \in Nat /\ First \in Nat /\ First' \in Nat /\ First <= First' /\ Len(log) \in Nat
      /\ Len(log') \in Nat
    BY <1>1, LastNumber, FirstMessage, CountedNext DEF Counted, Grows
<1>7. got[r] < First => got[r] < First' BY <1>6
<1>8. ASSUME NEW n, Fits(a, n), PayloadAt(a, n), Newer(r, a, n)
      PROVE  Newer(r, a, n)' /\ ring'[a + 1].msg = ring[a + 1].msg /\ ring[a + 1].msg \in 1 .. Len(log)
    BY <1>1, <1>3, <1>5, <1>8, NewerStays
<1>9. ASSUME rd[r].pc = "size"
      PROVE  \/ ring'[a] = WrapTag /\ got[r] < First'
             \/ /\ ring'[a] # WrapTag /\ Newer(r, a, ring[a].n)'
                /\ a = write_pointer'.ptr => ring'[a + 1].msg < First'
  <2>1. Readable(a) /\ ring'[a] \in {ring[a], WrapTag} BY <1>1, <1>2, <1>3, <1>4, <1>5, <1>9 DEF ReadOK, Keeps
  <2>2. CASE ring[a] = WrapTag BY <1>2, <1>7, <1>9, <2>1, <2>2 DEF ReadNewer
  <2>3. CASE ring[a] # WrapTag
    <3>1. PICK n, m : n = ring[a].n /\ m = ring[a + 1].msg OBVIOUS
    <3>2. Newer(r, a, n) /\ (a = write_pointer.ptr => m < First) BY <1>2, <1>9, <2>3, <3>1 DEF ReadNewer
    <3>3. ring[a].kind = "size" /\ Fits(a, n) /\ PayloadAt(a, n) BY <2>1, <2>3, <3>1 DEF Readable
    <3>4. Newer(r, a, n)' /\ ring'[a + 1].msg = m /\ m \in 1 .. Len(log) BY <1>8, <3>1, <3>2, <3>3
    <3>5. got[r] < m BY <3>1, <3>2 DEF Newer
    <3>6. CASE ring'[a] = WrapTag
      <4>1. m < First BY <1>1, <1>3, <2>3, <3>2, <3>6, NewWrap
      <4> QED BY <1>6, <1>7, <3>4, <3>5, <3>6, <4>1
    <3>7. CASE ring'[a] = ring[a]
      <4>1. ASSUME a = write_pointer'.ptr PROVE m < First'
        <5>1. CASE write_pointer' = write_pointer BY <1>6, <3>2, <3>4, <4>1, <5>1
        <5>2. CASE write_pointer'.ptr = 0 /\ SendCycle
          <6>1. First' = Len(log') + 1 /\ log' = log BY <5>2 DEF First, SendCycle, history
          <6> QED BY <1>6, <3>4, <6>1
        <5>3. CASE SendDone /\ write_pointer'.ptr = write_pointer.ptr + Total
          <6>1. a > write_pointer.ptr BY <1>3, <4>1, <5>3
          <6>2. n \in Nat /\ n > 0 BY <3>3, Constants DEF Fits
          <6>3. IsTag(ring[a]) BY <3>1, <3>3, <6>2 DEF IsTag
          <6>4. Number(a) < First /\ Number(a) = m BY <1>3, <2>3, <3>1, <6>1, <6>3 DEF OrderOK, Number
          <6> QED BY <1>6, <3>4, <6>4
        <5> QED BY <1>1, <5>1, <5>2, <5>3, PointerMoves
      <4> QED BY <2>3, <3>1, <3>4, <3>7, <4>1
    <3> QED BY <2>1, <3>6, <3>7
  <2> QED BY <2>2, <2>3
<1>10. ASSUME rd[r].pc = "size", ring'[a] # WrapTag PROVE ring'[a] = ring[a]
    BY <1>1, <1>3, <1>5, <1>10 DEF Keeps
<1>11. ASSUME rd[r].pc = "trust" PROVE (w = WrapTag /\ got[r] < First') \/ (w # WrapTag /\ Newer(r, a, w.n)')
  <2>1. \/ w = WrapTag /\ got[r] < First
        \/ w # WrapTag /\ Newer(r, a, w.n)
    BY <1>2, <1>11 DEF ReadNewer
  <2>2. w # WrapTag => Fits(a, w.n) /\ PayloadAt(a, w.n) BY <1>2, <1>4, <1>11 DEF ReadOK
  <2> QED BY <1>7, <1>8, <2>1, <2>2
<1>12. ASSUME rd[r].pc = "advance" PROVE got[r] < Coming(rd[r].wp.ptr)'
  <2>1. PICK q : q = rd[r].wp OBVIOUS
  <2>2. Ahead(r, q) /\ got[r] < Coming(q.ptr) BY <1>4, <1>12, <2>1 DEF ReadOK, ReadNewer
  <2>3. Clear(q.ptr) /\ q.ptr \in 0 .. Size - 1 BY <1>2, <1>3, <1>5, <2>1, <2>2 DEF Clear, Ahead
  <2>4. Boundary(q.ptr) BY <2>2 DEF Ahead
  <2>5. Coming(q.ptr) <= Coming(q.ptr)' /\ Boundary(q.ptr)' BY <1>1, <2>3, <2>4 DEF Grows, Keeps
  <2>6. Coming(q.ptr) \in Nat BY <1>1, <1>6, <2>3, <2>4, ComingBound
  <2>7. Coming(q.ptr)' \in Nat
    <3>1. PICK b : b = q.ptr OBVIOUS
    <3>2. Coming(b)' \in 1 .. Len(log') + 1 BY <1>1, <2>3, <2>5, <3>1, CountedNext DEF Counted
    <3> QED BY <1>6, <3>1, <3>2
  <2>8. got[r] < Coming(q.ptr)' BY <1>6, <2>2, <2>5, <2>6, <2>7
  <2> QED BY <1>1, <2>1, <2>8
<1>13. ASSUME rd[r].pc \in {"copy", "store"}, NEW n, n = rd[r].size PROVE Newer(r, a, n)'
  <2>1. Newer(r, a, n) /\ Fits(a, n) /\ PayloadAt(a, n) BY <1>2, <1>4, <1>13 DEF ReadOK, ReadNewer
  <2> QED BY <1>8, <2>1
<1>14. rd'[r].rp.ptr = a /\ rd'[r].buf[1] = w /\ rd'[r].pc = rd[r].pc /\ rd'[r].size = rd[r].size
    BY <1>1, <1>2
<1>15. rd'[r].pc = "size" => \/ ring'[a] = WrapTag /\ got'[r] < First'
                             \/ /\ ring'[a] # WrapTag /\ Newer(r, a, ring[a].n)'
                                /\ a = write_pointer'.ptr => ring'[a + 1].msg < First'
  <2>1. rd[r].pc = "size" /\ ring'[a] # WrapTag => ring'[a].n = ring[a].n BY <1>10
  <2> QED BY <1>1, <1>9, <1>14, <2>1 DEF Newer
<1>16. rd'[r].pc = "trust" => \/ w = WrapTag /\ got'[r] < First'
                              \/ w # WrapTag /\ Newer(r, a, w.n)'
  BY <1>1, <1>11, <1>14
<1>17. rd'[r].pc = "advance" => got'[r] < Coming(rd[r].wp.ptr)' BY <1>1, <1>12, <1>14
<1>18. rd'[r].pc \in {"copy", "store"} => Newer(r, a, rd[r].size)'
  <2>1. PICK n : n = rd[r].size OBVIOUS
  <2> QED BY <1>13, <1>14, <2>1
<1> QED BY <1>14, <1>15, <1>16, <1>17, <1>18 DEF ReadNewer

(* What a reader may receive is newer than what it has received, whatever  *)
(* the publisher does.                                                     *)
LEMMA PubNewer ==
    ASSUME MInv, OrderOK, PubStep, NEW r \in Readers, NewerOK(r)
    PROVE  NewerOK(r)'
<1>1. QueueOK /\ QueueOK' /\ Keeps /\ Grows BY QueueStep, OrderStep DEF MInv
<1>2. /\ rd' = rd /\ got' = got /\ adrift \subseteq adrift'
      /\ \A i \in Slots : /\ slot'[i].pointer = slot[i].pointer
                          /\ slot'[i].valid => slot[i].valid
                          /\ slot'[i].uid \in {slot[i].uid, Nobody}
    BY PubLeaves DEF MInv
<1>3. ReaderOK(r) BY DEF MInv, ReadersOK
<1>4. rd[r].pc \in Settled => rd[r].id \in Slots BY Numbers DEF Slotted
<1>5. rd[r].pc \in Settled => Mine(r)'.pointer = Mine(r).pointer /\ (Live(r)' => Live(r))
    BY <1>2, <1>4, NobodyAssumption DEF Mine, Live
<1>6. "final" \in Settled /\ Reading \subseteq Settled BY DEF Settled, Checked
<1>7. ASSUME NEW b \in 0 .. Size - 1, Boundary(b), Clear(b), NEW m \in Nat, m < Coming(b)
      PROVE  m < Coming(b)'
  <2>1. Coming(b) <= Coming(b)' /\ Boundary(b)' BY <1>1, <1>7 DEF Grows, Keeps
  <2>2. Coming(b) \in 1 .. Len(log) + 1 /\ Len(log) \in Nat BY <1>1, <1>7, ComingBound, FirstMessage
  <2>3. Coming(b)' \in 1 .. Len(log') + 1 /\ Len(log') \in Nat BY <1>1, <2>1, CountedNext DEF Counted
  <2> QED BY <1>7, <2>1, <2>2, <2>3
<1>8. ASSUME rd[r].pc \in Settled, Live(r)' PROVE Seen(r)' < Coming(Mine(r).pointer.ptr)'
  <2> SUFFICES ASSUME NEW b, b = Mine(r).pointer.ptr PROVE Seen(r)' < Coming(b)'
    BY <1>5, <1>8
  <2>1. Live(r) /\ Placed(r, Mine(r).pointer) BY <1>3, <1>5, <1>8 DEF ReaderOK
  <2>2. Size \in Nat /\ b \in 0 .. Size - 1 /\ write_pointer.ptr \in Nat /\ Total \in Nat
    BY <1>4, <1>8, Numbers DEF Mine
  <2>3. Boundary(b) /\ Clear(b) BY <2>1, <2>2 DEF Placed, Overlooked, Clear
  <2>4. Seen(r) \in Nat /\ Seen(r) < Coming(b) BY <1>8, <2>1, LastNumber DEF NewerOK
  <2>5. Seen(r)' = Seen(r) BY <1>2 DEF Seen
  <2> QED BY <1>7, <2>2, <2>3, <2>4, <2>5
<1>9. ASSUME rd[r].pc = "final", Live(r)' PROVE got'[r] < rd'[r].buf[1].msg
  BY <1>2, <1>5, <1>6, <1>9 DEF NewerOK
<1>10. ASSUME rd[r].pc \in Reading, Live(r)' PROVE ReadNewer(r)'
  BY <1>5, <1>6, <1>10, PubNewerRead DEF NewerOK
<1>11. ASSUME rd[r].pc = "reset_store", Mine(r)'.uid = r, WithinLap(rd[r].wp)'
       PROVE  got'[r] < Coming(rd[r].wp.ptr)'
  <2>1. PICK q : q = rd[r].wp OBVIOUS
  <2>2. WithinLap(q)' BY <1>2, <1>11, <2>1
  <2>3. /\ Mine(r).uid = r /\ q.ptr \in 0 .. Size - 1 /\ WithinLap(q) /\ Boundary(q.ptr) /\ Clear(q.ptr)
    BY <1>11, <2>1, <2>2, LapStays
  <2>4. got[r] < Coming(q.ptr) /\ got[r] \in Nat BY <1>11, <2>1, <2>3, LastNumber DEF NewerOK
  <2>5. PICK b \in 0 .. Size - 1 : b = q.ptr BY <2>3
  <2>6. got[r] < Coming(b)' BY <1>7, <2>3, <2>4, <2>5
  <2> QED BY <1>2, <2>1, <2>5, <2>6
<1> QED BY <1>2, <1>8, <1>9, <1>10, <1>11 DEF NewerOK
----------------------------------------------------------------------------
(* The numbers, under a step of a reader.                                  *)
LEMMA NumbersStay ==
    ASSUME UNCHANGED <<write_pointer, ring, log>>
    PROVE  /\ First' = First
           /\ \A a : Number(a)' = Number(a) /\ Coming(a)' = Coming(a)
BY DEF First, Number, Coming

(* A step of a reader changes what it has received, and nobody else's.     *)
LEMMA GotOthers ==
    ASSUME MInv, NEW r \in Readers, Reader(r)
    PROVE  /\ \A q \in Readers \ {r} : got'[q] = got[q]
           /\ ~ResetLoad(r) /\ ~Final(r) => got' = got
<1>1. got \in [Readers -> 0 .. Len(log)] BY DEF MInv, GotOK
<1>2. CASE ResetLoad(r) \/ Final(r) BY <1>1, <1>2 DEF ResetLoad, Final
<1>3. CASE ~ResetLoad(r) /\ ~Final(r)
  BY <1>3 DEF Reader, Recv, SubStart, SubKill, Claim, EvictBegin, EvictAll, Enter, ResetValid, ResetStore, CheckUid,
              CheckValid, Compare, LoadSize, Trust, Advance, Copy, Store, history
<1> QED BY <1>2, <1>3

(* The others.                                                             *)
LEMMA OthersNewer ==
    ASSUME MInv, NEW r \in Readers, Reader(r), NEW q \in Readers \ {r}, NewerOK(q)
    PROVE  NewerOK(q)'
<1>1. LeavesOthers(r) BY ReaderLeaves
<1>2. /\ UNCHANGED <<write_pointer, ring, pub, log>> /\ rd'[q] = rd[q] /\ got'[q] = got[q]
      /\ q \notin adrift' => q \notin adrift
      /\ \A i \in Slots : slot'[i].uid = q => slot[i].uid = q
      /\ q \notin adrift' /\ rd[q].id \in Slots =>
                  /\ slot'[rd[q].id].pointer = slot[rd[q].id].pointer
                  /\ slot'[rd[q].id].valid => slot[rd[q].id].valid
    BY <1>1, GotOthers DEF LeavesOthers
<1>3. rd[q].pc \in Settled \cup {"reset_store"} => rd[q].id \in Slots BY Numbers DEF Slotted
<1>4. "final" \in Settled /\ Reading \subseteq Settled BY DEF Settled, Checked
<1>5. rd[q].pc \in Settled /\ Live(q)' => Live(q) /\ Mine(q)'.pointer = Mine(q).pointer
    BY <1>2, <1>3 DEF Live, Mine
<1>6. First' = First /\ \A a : Coming(a)' = Coming(a) BY <1>2, NumbersStay
<1>7. Seen(q)' = Seen(q) BY <1>2 DEF Seen
<1>8. ReadNewer(q)' <=> ReadNewer(q) BY <1>2, <1>6 DEF ReadNewer, Newer
<1>9. rd[q].pc = "reset_store" /\ Mine(q)'.uid = q => Mine(q).uid = q BY <1>2, <1>3 DEF Mine
<1>10. ASSUME NEW p PROVE WithinLap(p)' <=> WithinLap(p) BY <1>2 DEF WithinLap, Total
<1>11. rd[q].pc \in Settled /\ Live(q)' => Seen(q)' < Coming(Mine(q).pointer.ptr)'
    BY <1>5, <1>6, <1>7 DEF NewerOK
<1>12. rd[q].pc = "final" /\ Live(q)' => got'[q] < rd'[q].buf[1].msg
    BY <1>2, <1>4, <1>5 DEF NewerOK
<1>13. rd[q].pc \in Reading /\ Live(q)' => ReadNewer(q)' BY <1>4, <1>5, <1>8 DEF NewerOK
<1>14. rd[q].pc = "reset_store" /\ Mine(q)'.uid = q /\ WithinLap(rd[q].wp)' => got'[q] < Coming(rd[q].wp.ptr)'
  <2> SUFFICES ASSUME rd[q].pc = "reset_store", Mine(q)'.uid = q, WithinLap(rd[q].wp)', NEW p, p = rd[q].wp
               PROVE  got'[q] < Coming(rd[q].wp.ptr)'
    OBVIOUS
  <2>1. WithinLap(p)' BY <1>2
  <2>2. got[q] < Coming(p.ptr) BY <1>9, <1>10, <2>1 DEF NewerOK
  <2> QED BY <1>2, <1>6, <2>2
<1> QED BY <1>2, <1>11, <1>12, <1>13, <1>14 DEF NewerOK

(* A reader that stays where it is, or has its flag off.                   *)
LEMMA SelfStands ==
    ASSUME MInv, NEW r \in Readers, NewerOK(r), rd[r].pc \in Settled, rd[r].pc # "final",
           UNCHANGED <<write_pointer, ring, pub, log, slot, adrift>>, got'[r] = got[r],
           rd'[r].id = rd[r].id, rd'[r].pc \in Settled, rd'[r].pc # "final",
           rd[r].pc \in Checked \/ Mine(r).uid = r,
           Live(r) /\ rd'[r].pc \in Reading => ReadNewer(r)'
    PROVE  NewerOK(r)'
<1>1. Mine(r)' = Mine(r) BY DEF Mine
<1>2. Live(r)' => Live(r) BY <1>1 DEF Live
<1>3. Seen(r)' = got[r] /\ Seen(r) = got[r] BY DEF Seen
<1>4. Live(r)' => Seen(r)' < Coming(Mine(r).pointer.ptr)'
  <2>1. \A a : Coming(a)' = Coming(a) BY NumbersStay
  <2> QED BY <1>1, <1>2, <1>3, <2>1 DEF NewerOK
<1>5. rd'[r].pc # "reset_store" BY DEF Settled, Checked, Reading
<1> QED BY <1>2, <1>4, <1>5 DEF NewerOK

(* Nothing is asked of a reader that has not settled.                      *)
LEMMA NewerUnsettled ==
    ASSUME NEW r \in Readers,
           rd'[r].pc \in {"off", "claim", "full", "evict", "evict_uid", "enter", "reset", "reset_load", "crashed"}
    PROVE  NewerOK(r)'
BY DEF NewerOK, Settled, Checked, Reading

(* A pointer that the publisher has not passed is within a lap.            *)
LEMMA NotPassed ==
    ASSUME MInv, NEW r \in Readers, NEW p, p.cycles \in Nat, p.ptr \in 0 .. Size - 1,
           UpTo(p, write_pointer), ~Passed(r, p)
    PROVE  WithinLap(p)
<1>1. /\ Size \in Nat /\ write_pointer.ptr \in 0 .. Size - 1 /\ write_pointer.cycles \in Nat
      /\ Total \in Nat /\ Total > 0 /\ write_pointer \in Pointer
    BY Numbers DEF MInv, QueueOK
<1>2. pub.dirty => pub.pc \in {"tag", "data", "done", "off", "init", "init_uid"} BY DEF MInv, QueueOK, PubOK
<1>3. CASE pub.dirty
  <2>1. ~Wrapping /\ pub.pc # "wrap" BY <1>2, <1>3 DEF Wrapping
  <2>2. Reach(r) = [write_pointer EXCEPT !.ptr = @ + Total] BY <1>3, <2>1 DEF Reach
  <2>3. Reach(r).cycles = write_pointer.cycles /\ Reach(r).ptr = write_pointer.ptr + Total
    BY <1>1, <2>2 DEF Pointer
  <2> QED BY <1>1, <2>3 DEF Passed, UpTo, WithinLap
<1>4. CASE ~pub.dirty
  <2>1. /\ Reach(r).cycles \in Nat /\ Reach(r).ptr \in Nat
        /\ \/ Reach(r).cycles = write_pointer.cycles + 1
           \/ Reach(r).cycles = write_pointer.cycles /\ Reach(r).ptr >= write_pointer.ptr
    <3>1. \/ Reach(r) = [cycles |-> write_pointer.cycles + 1, ptr |-> Total]
          \/ Reach(r) = [write_pointer EXCEPT !.ptr = Size]
          \/ Reach(r) = [write_pointer EXCEPT !.ptr = @ + Total]
          \/ Reach(r) = write_pointer
      BY DEF Reach
    <3> QED BY <1>1, <3>1 DEF Pointer
  <2> QED BY <1>1, <1>4, <2>1 DEF Passed, UpTo, WithinLap
<1> QED BY <1>3, <1>4

(* A reset, and the first looks.                                           *)
LEMMA SelfNewerResets ==
    ASSUME MInv, NEW r \in Readers, NewerOK(r),
           \/ SubStart(r) \/ SubKill(r) \/ Claim(r) \/ EvictBegin(r) \/ EvictAll(r) \/ Enter(r) \/ ResetValid(r)
           \/ ResetLoad(r) \/ ResetStore(r) \/ CheckUid(r) \/ CheckValid(r)
    PROVE  NewerOK(r)'
<1>1. RdType(r) BY DEF MInv, ReadersOK
<1>2. Reader(r) BY DEF Reader, Recv
<1>3. CASE SubStart(r) \/ ResetValid(r)
  <2>1. \E pc \in {"claim", "reset_load"} : rd'[r] = [rd[r] EXCEPT !.pc = pc]
    BY <1>3, RdUpdate DEF SubStart, ResetValid, Goto
  <2> QED BY <1>1, <2>1, NewerUnsettled DEF RdType
<1>4. CASE SubKill(r)
  <2>1. rd'[r] = Off BY <1>4, RdUpdate DEF SubKill
  <2> QED BY <2>1, NewerUnsettled DEF Off
<1>5. CASE Claim(r)
  <2>1. \/ rd'[r] = [Off EXCEPT !.pc = "enter", !.id = num_readers + 1]
        \/ rd'[r] = [Off EXCEPT !.pc = "full"]
    BY <1>5, RdUpdate DEF Claim
  <2>2. rd'[r].pc \in {"enter", "full"} BY <2>1 DEF Off
  <2> QED BY <2>2, NewerUnsettled
<1>11. CASE EvictBegin(r)
  <2>1. rd'[r] = [Off EXCEPT !.pc = "evict", !.size = 1] BY <1>11, RdUpdate DEF EvictBegin
  <2>2. rd'[r].pc = "evict" BY <2>1 DEF Off
  <2> QED BY <2>2, NewerUnsettled
<1>6. CASE EvictAll(r)
  <2>1. CASE rd[r].pc = "evict"
    <3>1. rd'[r] = [rd[r] EXCEPT !.pc = "evict_uid"] BY <1>6, <2>1, RdUpdate DEF EvictAll, Goto
    <3> QED BY <1>1, <3>1, NewerUnsettled DEF RdType
  <2>2. CASE rd[r].pc = "evict_uid" /\ rd[r].size = NUM_READERS
    <3>1. rd'[r] = [Off EXCEPT !.pc = "claim"] BY <1>6, <2>2, RdUpdate DEF EvictAll
    <3> QED BY <3>1, NewerUnsettled DEF Off
  <2>3. CASE rd[r].pc = "evict_uid" /\ rd[r].size # NUM_READERS
    <3>1. rd' = [rd EXCEPT ![r].pc = "evict", ![r].size = @ + 1] BY <1>6, <2>3 DEF EvictAll
    <3>2. rd = [q \in Readers |-> rd[q]] BY DEF MInv
    <3>3. rd'[r] = [rd[r] EXCEPT !.pc = "evict", !.size = @ + 1] BY <3>1, <3>2
    <3> QED BY <1>1, <3>3, NewerUnsettled DEF RdType
  <2> QED BY <1>6, <2>1, <2>2, <2>3 DEF EvictAll
<1>7. CASE Enter(r)
  <2>1. rd'[r] = [rd[r] EXCEPT !.pc = "reset", !.fresh = TRUE] BY <1>7, RdUpdate DEF Enter
  <2>2. rd'[r].pc = "reset" BY <1>1, <2>1 DEF RdType
  <2> QED BY <2>2, NewerUnsettled
<1>8. CASE ResetLoad(r)
  <2>1. rd'[r] = [rd[r] EXCEPT !.pc = "reset_store", !.wp = write_pointer] BY <1>8, RdUpdate DEF ResetLoad
  <2>2. rd'[r].pc = "reset_store" /\ rd'[r].wp = write_pointer BY <1>1, <2>1 DEF RdType
  <2>3. UNCHANGED <<write_pointer, ring, log>> BY <1>8 DEF ResetLoad, shared
  <2>4. Coming(write_pointer.ptr)' = Len(log) + 1 BY <2>3 DEF Coming
  <2>5. got'[r] \in 0 .. Len(log) /\ Len(log) \in Nat BY <1>2, <2>3, GotStays DEF GotOK, MInv, QueueOK
  <2>6. got'[r] < Coming(rd[r].wp.ptr)' BY <2>2, <2>3, <2>4, <2>5
  <2> QED BY <2>2, <2>6 DEF NewerOK, Settled, Checked, Reading
<1>9. CASE ResetStore(r)
  <2>1. rd[r].pc = "reset_store" /\ rd[r].pc \in Slotted /\ Clean(r, "start") BY <1>9 DEF ResetStore, Slotted
  <2>2. rd'[r].pc = "start" /\ rd'[r].id = rd[r].id BY <2>1, Cleaned
  <2>3. rd[r].id \in Slots BY <2>1, Numbers
  <2>4. slot' = [slot EXCEPT ![rd[r].id].pointer = rd[r].wp] BY <1>9 DEF ResetStore
  <2>5. slot'[rd[r].id].pointer = rd[r].wp /\ slot'[rd[r].id].uid = slot[rd[r].id].uid
    BY <2>3, <2>4 DEF MInv, HeaderOK
  <2>6. Mine(r)'.pointer = rd[r].wp /\ Mine(r)'.uid = Mine(r).uid BY <2>2, <2>5 DEF Mine
  <2>7. got'[r] = got[r] /\ UNCHANGED <<write_pointer, ring, log>> BY <1>9 DEF ResetStore
  <2>8. ASSUME Live(r)' PROVE Seen(r)' < Coming(Mine(r).pointer.ptr)'
    <3>1. PICK p : p = rd[r].wp OBVIOUS
    <3>2. Mine(r).uid = r /\ r \notin adrift' BY <2>2, <2>6, <2>8 DEF Live, Checked, Reading
    <3>3. ~Passed(r, p) BY <1>9, <3>1, <3>2 DEF ResetStore
    <3>4. UpTo(p, write_pointer) /\ p.cycles \in Nat /\ p.ptr \in 0 .. Size - 1
      BY <2>1, <3>1, <3>2, Numbers DEF MInv, ReadersOK, ResetOK
    <3>5. WithinLap(p) BY <3>3, <3>4, NotPassed
    <3>6. got[r] < Coming(p.ptr) BY <2>1, <3>1, <3>2, <3>5 DEF NewerOK
    <3>7. Coming(p.ptr)' = Coming(p.ptr)
      <4>1. p' = p BY <2>6, <3>1
      <4>2. PICK b : b = p.ptr OBVIOUS
      <4>3. Coming(b)' = Coming(b) BY <2>7, NumbersStay
      <4> QED BY <4>2, <4>3
    <3> QED BY <2>2, <2>6, <2>7, <3>1, <3>6, <3>7 DEF Seen
  <2> QED BY <2>2, <2>8 DEF NewerOK, Reading
<1>10. CASE CheckUid(r) \/ CheckValid(r)
  <2>1. rd[r].pc \in {"idle", "start", "valid"} /\ rd[r].pc \in Settled /\ rd[r].pc \in Slotted
    BY <1>10 DEF CheckUid, CheckValid, Settled, Slotted, Checked
  <2>2. UNCHANGED <<write_pointer, ring, pub, log, slot, adrift, got>>
    BY <1>10 DEF CheckUid, CheckValid, shared, history
  <2>3. ASSUME rd'[r].id = rd[r].id, rd'[r].pc \in {"valid", "compare"}, rd[r].pc = "valid" \/ Mine(r).uid = r
        PROVE  NewerOK(r)'
    BY <2>1, <2>2, <2>3, SelfStands DEF Settled, Checked, Reading
  <2>4. CASE Goto(r, "valid") /\ Mine(r).uid = r
    <3>1. rd'[r] = [rd[r] EXCEPT !.pc = "valid"] BY <2>4, RdUpdate DEF Goto
    <3> QED BY <1>1, <2>3, <2>4, <3>1 DEF RdType
  <2>5. CASE Goto(r, "claim")
    <3>1. rd'[r] = [rd[r] EXCEPT !.pc = "claim"] BY <2>5, RdUpdate DEF Goto
    <3> QED BY <1>1, <3>1, NewerUnsettled DEF RdType
  <2>6. CASE Clean(r, "reset") BY <2>1, <2>6, Cleaned, NewerUnsettled
  <2>7. CASE /\ rd[r].pc = "valid"
             /\ rd' = [rd EXCEPT ![r].pc = "compare", ![r].fresh = FALSE, ![r].rp = Mine(r).pointer]
    <3>1. rd = [q \in Readers |-> rd[q]] BY DEF MInv
    <3>2. rd'[r] = [rd[r] EXCEPT !.pc = "compare", !.fresh = FALSE, !.rp = Mine(r).pointer] BY <2>7, <3>1
    <3>3. rd'[r].id = rd[r].id /\ rd'[r].pc = "compare" BY <1>1, <3>2 DEF RdType
    <3> QED BY <2>3, <2>7, <3>3
  <2> QED BY <1>10, <2>4, <2>5, <2>6, <2>7 DEF CheckUid, CheckValid
<1> QED BY <1>3, <1>4, <1>5, <1>6, <1>7, <1>8, <1>9, <1>10, <1>11

(* Something to read: by the order of the ring, it is newer.               *)
LEMMA SelfNewerCompares ==
    ASSUME MInv, OrderOK, NEW r \in Readers, NewerOK(r), Compare(r)
    PROVE  NewerOK(r)'
<1>1. RdType(r) /\ ReaderOK(r) /\ QueueOK BY DEF MInv, ReadersOK
<1>2. rd[r].pc = "compare" /\ rd[r].pc \in Settled /\ rd[r].pc \in Slotted
    BY DEF Compare, Settled, Slotted, Checked
<1>3. UNCHANGED <<write_pointer, ring, pub, log, slot, adrift, got>> BY DEF Compare, shared, history
<1>4. CASE Clean(r, "idle")
  <2>1. rd'[r].pc = "idle" /\ rd'[r].id = rd[r].id BY <1>2, <1>4, Cleaned
  <2> QED BY <1>2, <1>3, <2>1, SelfStands DEF Settled, Reading
<1>5. CASE ~NothingNew(r) /\ rd' = [rd EXCEPT ![r].pc = "size", ![r].wp = write_pointer]
  <2>1. rd'[r] = [rd[r] EXCEPT !.pc = "size", !.wp = write_pointer] BY <1>5, RdUpdate
  <2>2. rd'[r].pc = "size" /\ rd'[r].id = rd[r].id /\ rd'[r].rp = rd[r].rp BY <1>1, <2>1 DEF RdType
  <2>3. ASSUME Live(r) PROVE ReadNewer(r)'
    <3>1. PICK a \in 0 .. Size - 1 : a = rd[r].rp.ptr BY Numbers
    <3>2. rd[r].rp = Mine(r).pointer /\ Placed(r, rd[r].rp) BY <1>1, <1>2, <2>3 DEF ReaderOK
    <3>3. a # write_pointer.ptr /\ IsTag(ring[a]) BY <1>5, <3>1, <3>2 DEF NothingNew, Placed, Boundary
    <3>4. got[r] < Number(a) BY <1>2, <2>3, <3>1, <3>2, <3>3 DEF NewerOK, Seen, Coming
    <3>5. Size \in Nat /\ write_pointer.ptr \in Nat /\ got[r] \in Nat BY Numbers, LastNumber
    <3>6. CASE ring[a] = WrapTag
      <4>1. got[r] < First BY <3>4, <3>6 DEF Number
      <4>2. First' = First BY <1>3, NumbersStay
      <4> QED BY <1>3, <2>2, <3>1, <3>6, <4>1, <4>2 DEF ReadNewer
    <3>7. CASE ring[a] # WrapTag
      <4>1. PICK m, n, e : m = Number(a) /\ n = ring[a].n /\ e = End(a) OBVIOUS
      <4>2. /\ m = ring[a + 1].msg /\ m \in Nat /\ e \in 0 .. Size - 1 /\ e > a + 1 /\ e = a + 1 + n
        BY <1>1, <3>3, <3>7, <4>1, SizedMessage DEF End, QueueOK
      <4>3. m < Coming(e)
        <5>1. CASE a < write_pointer.ptr
          <6>1. Coming(e) = m + 1 BY <3>3, <4>1, <5>1 DEF OrderOK
          <6> QED BY <4>2, <6>1
        <5>2. CASE a > write_pointer.ptr
          <6>1. m < First /\ (ring[e] # WrapTag => Number(e) = m + 1) BY <3>3, <3>7, <4>1, <5>2 DEF OrderOK
          <6>2. e # write_pointer.ptr BY <3>5, <4>2, <5>2
          <6>3. Coming(e) = Number(e) BY <6>2 DEF Coming
          <6> QED BY <4>2, <6>1, <6>3 DEF Number
        <5> QED BY <3>3, <3>5, <5>1, <5>2
      <4>4. Newer(r, a, n) BY <3>4, <4>1, <4>2, <4>3 DEF Newer
      <4>5. Newer(r, a, n)' BY <1>3, <4>4, NumbersStay DEF Newer
      <4> QED BY <1>3, <2>2, <3>1, <3>3, <3>7, <4>1, <4>5 DEF ReadNewer
    <3> QED BY <3>6, <3>7
  <2> QED BY <1>2, <1>3, <2>2, <2>3, SelfStands DEF Settled, Checked, Reading
<1> QED BY <1>4, <1>5 DEF Compare

(* The tag, and what follows from it.                                      *)
LEMMA SelfNewerTrusts ==
    ASSUME MInv, NEW r \in Readers, NewerOK(r), LoadSize(r) \/ Trust(r) \/ Copy(r)
    PROVE  NewerOK(r)'
<1>1. RdType(r) BY DEF MInv, ReadersOK
<1>2. rd[r].pc \in {"size", "trust", "copy"} /\ rd[r].pc \in Reading /\ rd[r].pc \in Settled /\ rd[r].pc # "final"
      /\ rd[r].pc \in Slotted
    BY DEF LoadSize, Trust, Copy, Reading, Settled, Checked, Slotted
<1>3. UNCHANGED <<write_pointer, ring, pub, log, slot, adrift, got>>
    BY DEF LoadSize, Trust, Copy, shared, history
<1>4. First' = First /\ \A a : Coming(a)' = Coming(a) BY <1>3, NumbersStay
<1>5. ASSUME NEW a, NEW n PROVE Newer(r, a, n)' <=> Newer(r, a, n) BY <1>3, <1>4 DEF Newer
<1>6. Live(r) => ReadNewer(r) /\ ReadOK(r) BY <1>2, WhileReading DEF NewerOK
<1>7. PICK a \in 0 .. Size - 1 : a = rd[r].rp.ptr BY Numbers
<1>8. ASSUME rd'[r].id = rd[r].id, rd'[r].pc \in {"trust", "advance", "copy", "store"},
             Live(r) => ReadNewer(r)'
      PROVE  NewerOK(r)'
    BY <1>2, <1>3, <1>8, SelfStands DEF Settled, Checked, Reading
<1>9. CASE LoadSize(r)
  <2>1. rd[r].pc = "size" /\ rd'[r] = [rd[r] EXCEPT !.pc = "trust", !.buf = <<ring[a]>>]
    BY <1>7, <1>9, RdUpdate DEF LoadSize
  <2>2. rd'[r].pc = "trust" /\ rd'[r].id = rd[r].id /\ rd'[r].rp = rd[r].rp /\ rd'[r].buf[1] = ring[a]
    BY <1>1, <2>1 DEF RdType
  <2>3. ASSUME Live(r) PROVE ReadNewer(r)'
    <3>1. \/ ring[a] = WrapTag /\ got[r] < First
          \/ ring[a] # WrapTag /\ Newer(r, a, ring[a].n)
      BY <1>6, <1>7, <2>1, <2>3 DEF ReadNewer
    <3>2. PICK n : n = ring[a].n OBVIOUS
    <3>3. \/ ring[a] = WrapTag /\ got'[r] < First'
          \/ ring[a] # WrapTag /\ Newer(r, a, n)'
      BY <1>3, <1>4, <1>5, <3>1, <3>2
    <3> QED BY <1>7, <2>2, <3>2, <3>3 DEF ReadNewer
  <2> QED BY <1>8, <2>2, <2>3
<1>10. CASE Trust(r)
  <2>1. rd[r].pc = "trust" BY <1>10 DEF Trust
  <2>2. PICK w \in Words : w = rd[r].buf[1] BY <1>1, <2>1 DEF RdType
  <2>3. Live(r) => \/ w = WrapTag /\ got[r] < First
                   \/ w # WrapTag /\ Newer(r, a, w.n)
    BY <1>6, <1>7, <2>1, <2>2 DEF ReadNewer
  <2>4. rd = [q \in Readers |-> rd[q]] BY DEF MInv
  <2>5. CASE Clean(r, "reset") BY <1>2, <2>5, Cleaned, NewerUnsettled
  <2>6. CASE Goto(r, "crashed")
    <3>1. rd'[r] = [rd[r] EXCEPT !.pc = "crashed"] BY <2>6, RdUpdate DEF Goto
    <3> QED BY <1>1, <3>1, NewerUnsettled DEF RdType
  <2>7. ASSUME NEW q, rd' = [rd EXCEPT ![r].pc = "advance", ![r].buf = << >>, ![r].wp = q],
               Live(r) => got[r] < Coming(q.ptr)
        PROVE  NewerOK(r)'
    <3>1. rd'[r] = [rd[r] EXCEPT !.pc = "advance", !.buf = << >>, !.wp = q] BY <2>4, <2>7
    <3>2. rd'[r].pc = "advance" /\ rd'[r].id = rd[r].id /\ rd'[r].wp = q BY <1>1, <3>1 DEF RdType
    <3>3. Live(r) => ReadNewer(r)' BY <1>3, <1>4, <2>7, <3>2 DEF ReadNewer
    <3> QED BY <1>8, <3>2, <3>3
  <2>8. CASE /\ w.kind = "wrap"
             /\ rd' = [rd EXCEPT ![r].pc = "advance", ![r].buf = << >>,
                                 ![r].wp = [cycles |-> rd[r].rp.cycles + 1, ptr |-> 0]]
    <3>1. PICK q : q = [cycles |-> rd[r].rp.cycles + 1, ptr |-> 0] OBVIOUS
    <3>2. Coming(0) = First BY FirstMessage DEF MInv
    <3>3. Live(r) => got[r] < Coming(q.ptr) BY <2>2, <2>3, <2>8, <3>1, <3>2, WordFacts
    <3> QED BY <2>7, <2>8, <3>1, <3>3
  <2>9. CASE /\ w.kind = "size" /\ w.n > 0
             /\ rd' = [rd EXCEPT ![r].pc = "advance", ![r].buf = << >>, ![r].wp = NewPointer(r, w.n)]
    <3>1. PICK q : q = NewPointer(r, w.n) OBVIOUS
    <3>2. rd[r].rp \in Pointer BY <1>1 DEF RdType
    <3>3. q.ptr = a + 1 + w.n BY <1>7, <3>1, <3>2 DEF NewPointer, Pointer
    <3>4. ASSUME Live(r) PROVE got[r] < Coming(q.ptr)
      <4>1. Newer(r, a, w.n) BY <2>3, <2>9, <3>4, WrittenWords
      <4>2. got[r] < ring[a + 1].msg /\ ring[a + 1].msg < Coming(q.ptr) BY <3>3, <4>1 DEF Newer
      <4>3. Fits(a, w.n) /\ PayloadAt(a, w.n)
        BY <1>6, <1>7, <2>1, <2>2, <2>9, <3>4, WrittenWords DEF ReadOK
      <4>4. Size \in Nat /\ w.n \in Nat /\ a + 1 + w.n < Size /\ Boundary(q.ptr) /\ 1 \in 1 .. w.n
        BY <3>3, <4>3, Constants DEF Fits
      <4>5. q.ptr \in 0 .. Size - 1 BY <3>3, <4>4
      <4>6. Coming(q.ptr) \in 1 .. Len(log) + 1 /\ Len(log) \in Nat BY <4>4, <4>5, ComingBound, FirstMessage DEF MInv
      <4>7. PICK m \in 1 .. Len(log) : \A k \in 1 .. w.n : ring[a + k] = Payload(m, k) BY <4>3 DEF PayloadAt
      <4>8. ring[a + 1] = Payload(m, 1) BY <4>4, <4>7
      <4>9. ring[a + 1].msg = m BY <4>8 DEF Payload
      <4>10. got[r] \in Nat /\ m \in Nat /\ Coming(q.ptr) \in Nat BY <4>6, LastNumber
      <4> QED BY <4>2, <4>9, <4>10
    <3> QED BY <2>7, <2>9, <3>1, <3>4
  <2>10. CASE /\ w.kind = "size" /\ w.n > 0
              /\ rd' = [rd EXCEPT ![r].pc = "copy", ![r].size = w.n, ![r].buf = << >>, ![r].wp = Zero]
    <3>1. rd'[r] = [rd[r] EXCEPT !.pc = "copy", !.size = w.n, !.buf = << >>, !.wp = Zero] BY <2>4, <2>10
    <3>2. PICK n : n = w.n OBVIOUS
    <3>3. rd'[r].pc = "copy" /\ rd'[r].id = rd[r].id /\ rd'[r].rp = rd[r].rp /\ rd'[r].size = n
      BY <1>1, <3>1, <3>2 DEF RdType
    <3>4. Live(r) => Newer(r, a, n)' BY <1>5, <2>3, <2>10, <3>2, WrittenWords
    <3>5. Live(r) => ReadNewer(r)' BY <1>7, <3>3, <3>4 DEF ReadNewer
    <3> QED BY <1>8, <3>3, <3>5
  <2> QED BY <1>10, <2>2, <2>5, <2>6, <2>8, <2>9, <2>10 DEF Trust
<1>11. CASE Copy(r)
  <2>1. rd[r].pc = "copy" BY <1>11 DEF Copy
  <2>2. \/ rd'[r] = [rd[r] EXCEPT !.pc = "store"] \/ rd'[r] = [rd[r] EXCEPT !.pc = "crashed"]
        \/ rd'[r] = [rd[r] EXCEPT !.buf = Append(@, ring[rd[r].rp.ptr + Len(rd[r].buf) + 1])]
    <3>1. \/ rd' = [rd EXCEPT ![r].pc = "store"] \/ rd' = [rd EXCEPT ![r].pc = "crashed"]
          \/ rd' = [rd EXCEPT ![r].buf = Append(@, ring[rd[r].rp.ptr + Len(rd[r].buf) + 1])]
      BY <1>11 DEF Copy
    <3>2. rd = [q \in Readers |-> rd[q]] BY DEF MInv
    <3> QED BY <3>1, <3>2
  <2>3. PICK n : n = rd[r].size OBVIOUS
  <2>4. /\ rd'[r].pc \in {"store", "copy", "crashed"} /\ rd'[r].id = rd[r].id /\ rd'[r].rp = rd[r].rp
        /\ rd'[r].size = n
    BY <1>1, <2>1, <2>2, <2>3 DEF RdType
  <2>5. CASE rd'[r].pc = "crashed" BY <2>5, NewerUnsettled
  <2>6. CASE rd'[r].pc # "crashed"
    <3>1. Live(r) => Newer(r, a, n)' BY <1>5, <1>6, <1>7, <2>1, <2>3 DEF ReadNewer
    <3>2. Live(r) => ReadNewer(r)' BY <1>7, <2>4, <2>6, <3>1 DEF ReadNewer
    <3> QED BY <1>8, <2>4, <2>6, <3>2
  <2> QED BY <2>5, <2>6
<1> QED BY <1>9, <1>10, <1>11

(* The pointer moves over a tag or a message that is not wanted.           *)
LEMMA SelfNewerAdvances ==
    ASSUME MInv, NEW r \in Readers, NewerOK(r), Advance(r)
    PROVE  NewerOK(r)'
<1>1. RdType(r) BY DEF MInv, ReadersOK
<1>2. rd[r].pc = "advance" /\ rd[r].pc \in Reading BY DEF Advance, Reading
<1>3. UNCHANGED <<write_pointer, ring, log, got>> /\ adrift \subseteq adrift' BY DEF Advance, Disturb
<1>4. rd[r].pc \in Slotted /\ rd[r].id \in Slots BY <1>2, WhileReading
<1>5. rd'[r].pc = "start" /\ rd'[r].id = rd[r].id BY <1>4, Cleaned DEF Advance
<1>6. PICK q, b : q = rd[r].wp /\ b = q.ptr OBVIOUS
<1>7. Mine(r)'.pointer = q /\ Mine(r)'.valid = Mine(r).valid /\ Mine(r)'.uid = Mine(r).uid
  <2>1. slot' = [slot EXCEPT ![rd[r].id].pointer = q] BY <1>6 DEF Advance
  <2> QED BY <1>4, <1>5, <2>1 DEF MInv, HeaderOK, Mine
<1>8. ASSUME Live(r)' PROVE Seen(r)' < Coming(Mine(r).pointer.ptr)'
  <2>1. Live(r) BY <1>2, <1>3, <1>7, <1>8 DEF Live, Checked
  <2>2. got[r] < Coming(b) BY <1>2, <1>6, <2>1 DEF NewerOK, ReadNewer
  <2>3. Coming(b)' = Coming(b) BY <1>3, NumbersStay
  <2> QED BY <1>3, <1>5, <1>6, <1>7, <2>2, <2>3 DEF Seen
<1> QED BY <1>5, <1>8 DEF NewerOK, Reading

(* The pointer moves over the message that has been copied.                *)
LEMMA SelfNewerSaves ==
    ASSUME MInv, NEW r \in Readers, NewerOK(r), Store(r)
    PROVE  NewerOK(r)'
<1>1. RdType(r) BY DEF MInv, ReadersOK
<1>2. rd[r].pc = "store" /\ rd[r].pc \in Reading /\ Goto(r, "final") BY DEF Store, Reading
<1>3. UNCHANGED <<write_pointer, ring, log, got>> /\ adrift \subseteq adrift' BY DEF Store, Disturb
<1>4. rd[r].pc \in Slotted /\ rd[r].id \in Slots BY <1>2, WhileReading
<1>5. rd'[r].pc = "final" /\ rd'[r].id = rd[r].id /\ rd'[r].buf = rd[r].buf BY <1>2, <1>4, Moved
<1>6. PICK a, n, b : a = rd[r].rp.ptr /\ n = rd[r].size /\ b = a + 1 + n OBVIOUS
<1>7. Mine(r)'.pointer.ptr = b /\ Mine(r)'.valid = Mine(r).valid /\ Mine(r)'.uid = Mine(r).uid
  <2>1. rd[r].rp \in Pointer BY <1>1 DEF RdType
  <2>2. PICK q : q = NewPointer(r, n) OBVIOUS
  <2>3. q.ptr = b BY <1>6, <2>1, <2>2 DEF NewPointer, Pointer
  <2>4. slot' = [slot EXCEPT ![rd[r].id].pointer = q] BY <1>6, <2>2 DEF Store
  <2> QED BY <1>4, <1>5, <2>3, <2>4 DEF MInv, HeaderOK, Mine
<1>8. ASSUME Live(r)' PROVE got'[r] < rd'[r].buf[1].msg /\ Seen(r)' < Coming(Mine(r).pointer.ptr)'
  <2>1. Live(r) BY <1>2, <1>3, <1>7, <1>8 DEF Live, Checked
  <2>2. Newer(r, a, n) BY <1>2, <1>6, <2>1 DEF NewerOK, ReadNewer
  <2>3. ReadOK(r) BY <1>2, <2>1, WhileReading
  <2>4. n \in Nat /\ n > 0 /\ Len(rd[r].buf) = n BY <1>1, <1>2, <1>6, Constants DEF RdType
  <2>5. 1 \in 1 .. Len(rd[r].buf) BY <2>4
  <2>6. rd[r].buf[1] = ring[a + 1] BY <1>2, <1>6, <2>3, <2>5 DEF ReadOK
  <2>7. got[r] < ring[a + 1].msg /\ ring[a + 1].msg < Coming(b) BY <1>6, <2>2 DEF Newer
  <2>8. Coming(b)' = Coming(b) BY <1>3, NumbersStay
  <2> QED BY <1>3, <1>5, <1>7, <2>6, <2>7, <2>8 DEF Seen
<1> QED BY <1>5, <1>8 DEF NewerOK, Reading

(* The message is returned.                                                *)
LEMMA SelfNewerReturns ==
    ASSUME MInv, NEW r \in Readers, NewerOK(r), Final(r)
    PROVE  NewerOK(r)'
<1>1. rd[r].pc = "final" /\ rd[r].pc \in Settled /\ rd[r].pc \in Slotted
    BY DEF Final, Settled, Slotted, Checked
<1>2. UNCHANGED <<write_pointer, ring, log, slot, adrift>> BY DEF Final, shared
<1>3. CASE Clean(r, "reset") BY <1>1, <1>3, Cleaned, NewerUnsettled
<1>4. CASE Clean(r, "idle") /\ Mine(r).valid
  <2>1. rd'[r].pc = "idle" /\ rd'[r].id = rd[r].id BY <1>1, <1>4, Cleaned
  <2>2. Mine(r)' = Mine(r) BY <1>2, <2>1 DEF Mine
  <2>3. ASSUME Live(r)' PROVE Seen(r)' < Coming(Mine(r).pointer.ptr)'
    <3>1. Live(r) BY <1>1, <1>2, <2>2, <2>3 DEF Live, Checked
    <3>2. rd[r].buf[1].msg < Coming(Mine(r).pointer.ptr) BY <1>1, <3>1 DEF NewerOK, Seen
    <3>3. got'[r] = rd[r].buf[1].msg
      <4>1. Clean(r, "reset") => rd'[r].pc = "reset" BY <1>1, Cleaned
      <4>2. got' = [got EXCEPT ![r] = rd[r].buf[1].msg] BY <2>1, <3>1, <4>1 DEF Final, Live
      <4> QED BY <4>2 DEF MInv, GotOK
    <3>4. PICK b : b = Mine(r).pointer.ptr OBVIOUS
    <3>5. Coming(b)' = Coming(b) BY <1>2, NumbersStay
    <3> QED BY <2>1, <2>2, <3>2, <3>3, <3>4, <3>5 DEF Seen
  <2> QED BY <2>1, <2>3 DEF NewerOK, Reading
<1> QED BY <1>3, <1>4 DEF Final

(* Nothing has been sent.                                                  *)
LEMMA InitOrdered == ASSUME Init PROVE Ordered
<1>1. \A a \in 0 .. Size - 1 : ~IsTag(ring[a]) BY Tags DEF Init
<1>2. \A r \in Readers : rd[r].pc = "off" BY DEF Init, Off
<1> QED BY <1>1, <1>2 DEF Ordered, OrderOK, NewerOK, Settled, Checked, Reading

(* Every step keeps the order.                                             *)
LEMMA NextOrdered == ASSUME MInv, Ordered, [Next]_vars PROVE Ordered'
<1>1. CASE UNCHANGED vars
  <2>1. UNCHANGED <<write_pointer, ring, log, pub, rd, slot, got, adrift>> BY <1>1 DEF vars, shared, history
  <2>2. OrderOK' BY <2>1, OrderSame DEF MInv, Ordered
  <2>3. First' = First /\ \A a : Coming(a)' = Coming(a) BY <2>1, NumbersStay
  <2>4. ASSUME NEW r \in Readers PROVE NewerOK(r)'
    <3>1. NewerOK(r) BY DEF Ordered
    <3>2. Mine(r)' = Mine(r) /\ Seen(r)' = Seen(r) /\ (Live(r)' <=> Live(r)) BY <2>1 DEF Mine, Seen, Live
    <3>3. ReadNewer(r)' <=> ReadNewer(r) BY <2>1, <2>3 DEF ReadNewer, Newer
    <3>4. WithinLap(rd[r].wp)' <=> WithinLap(rd[r].wp) BY <2>1 DEF WithinLap, Total
    <3> QED BY <2>1, <2>3, <3>1, <3>2, <3>3, <3>4 DEF NewerOK
  <2> QED BY <2>2, <2>4 DEF Ordered
<1>2. CASE PubStep
  <2>1. OrderOK' BY <1>2, OrderStep DEF MInv, Ordered
  <2>2. \A r \in Readers : NewerOK(r)' BY <1>2, PubNewer DEF Ordered
  <2> QED BY <2>1, <2>2 DEF Ordered
<1>3. ASSUME NEW r \in Readers, Reader(r) PROVE Ordered'
  <2>1. UNCHANGED <<write_pointer, ring, log>> BY <1>3, OneReader
  <2>2. OrderOK' BY <2>1, OrderSame DEF MInv, Ordered
  <2>3. NewerOK(r)'
    BY <1>3, SelfNewerResets, SelfNewerCompares, SelfNewerTrusts, SelfNewerAdvances, SelfNewerSaves,
       SelfNewerReturns DEF Ordered, Reader, Recv
  <2>4. \A q \in Readers \ {r} : NewerOK(q)' BY <1>3, OthersNewer DEF Ordered
  <2> QED BY <2>2, <2>3, <2>4 DEF Ordered
<1> QED BY <1>1, <1>2, <1>3 DEF Next, PubStep

(* The invariant of the order.                                             *)
THEOREM MsgqOrdered == Spec => []Ordered
<1>1. Init => Ordered BY InitOrdered
<1>2. MInv /\ Ordered /\ [Next]_vars => Ordered' BY NextOrdered
<1> QED BY <1>1, <1>2, MsgqInv, PTL DEF Spec

(* What is returned to a reader that is not adrift is newer.               *)
LEMMA ReturnsNewer ==
    ASSUME MInv, Ordered, NEW r \in Readers \ adrift, rd[r].pc = "final", Mine(r).valid
    PROVE  got[r] \in Nat /\ Len(log) \in Nat /\ rd[r].buf[1].msg \in got[r] + 1 .. Len(log)
<1>1. ReaderOK(r) /\ NewerOK(r) BY DEF MInv, ReadersOK, Ordered
<1>2. rd[r].pc \in Checked BY DEF Checked
<1>3. Live(r) BY <1>1, <1>2 DEF ReaderOK, Live
<1>4. got[r] < rd[r].buf[1].msg BY <1>1, <1>3 DEF NewerOK
<1>5. got[r] \in Nat /\ Len(log) \in Nat /\ rd[r].buf[1].msg \in 1 .. Len(log) BY <1>3, LastNumber
<1> QED BY <1>4, <1>5
----------------------------------------------------------------------------
(* The refinement.  Every step but the delivery of a message is a step of  *)
(* the channel, or none.                                                   *)
Joining == {r \in Readers : rd[r].fresh}

(* A publisher's step.                                                     *)
LEMMA PubMaps ==
    ASSUME MInv, PubStep
    PROVE  Channel!Publish \/ Channel!Drift \/ UNCHANGED <<Joining, log, got, lagged, adrift>>
<1>1. rd' = rd /\ got' = got BY PubLeaves DEF MInv
<1>2. Joining' = Joining BY <1>1 DEF Joining
<1>3. CASE SendDone
  <2>1. pub.size \in Sizes BY <1>3 DEF SendDone, MInv, QueueOK, PubType, Sending
  <2>2. log' = Append(log, pub.size) /\ UNCHANGED <<lagged, adrift>> BY <1>3 DEF SendDone
  <2> QED BY <1>1, <1>2, <2>1, <2>2 DEF Channel!Publish, Joining
<1>4. CASE SendBegin
  <2>1. /\ log' = log
        /\ lagged' = lagged \cup {r \in Readers : Len(log) - got[r] > Backlog}
        /\ adrift \subseteq adrift'
    BY <1>4 DEF SendBegin
  <2> QED BY <1>1, <1>2, <2>1 DEF Channel!Drift, Joining
<1>6. CASE PubClear
  <2>1. UNCHANGED <<log, lagged>> /\ adrift \subseteq adrift' BY <1>6 DEF PubClear
  <2> QED BY <1>1, <1>2, <2>1 DEF Channel!Drift, Joining
<1>5. CASE ~SendDone /\ ~SendBegin /\ ~PubClear
  <2>1. UNCHANGED <<log, got, lagged, adrift>>
    BY <1>5 DEF PubStep, Send, PubStart, PubKill, SendWrap, SendBeyond, SendEvict, Loop,
                SendCycle, SendTag, SendData, history
  <2> QED BY <1>2, <2>1
<1> QED BY <1>3, <1>4, <1>5, <1>6

(* A reader's step, until a message is returned.                           *)
LEMMA ReaderMaps ==
    ASSUME MInv, NEW r \in Readers, Reader(r), ~(Final(r) /\ got' # got)
    PROVE  Channel!Drift \/ Channel!Subscribe(r)
<1>1. log' = log /\ (\A q \in Readers \ {r} : rd'[q] = rd[q]) BY OneReader
<1>2. Joining' \in SUBSET Readers /\ \A q \in Readers \ {r} : q \in Joining' <=> q \in Joining
    BY <1>1 DEF Joining
<1>3. ASSUME got' = got, lagged \subseteq lagged', adrift \ adrift' \subseteq lagged',
             \A q \in lagged' \ lagged : q \in adrift \ adrift' \/ q \in Joining \ Joining'
      PROVE  Channel!Drift
    BY <1>1, <1>2, <1>3 DEF Channel!Drift, Joining
<1>4. CASE ResetLoad(r) /\ rd[r].fresh
  <2>1. RdType(r) BY DEF MInv, ReadersOK
  <2>2. rd'[r] = [rd[r] EXCEPT !.pc = "reset_store", !.wp = write_pointer]
    <3>1. rd' = [rd EXCEPT ![r].pc = "reset_store", ![r].wp = write_pointer] BY <1>4 DEF ResetLoad
    <3> QED BY <3>1, RdUpdate
  <2>3. rd'[r].fresh = rd[r].fresh BY <2>1, <2>2 DEF RdType
  <2>4. r \in Joining /\ Joining' = Joining BY <1>1, <1>4, <2>3 DEF Joining
  <2> QED BY <1>1, <1>4, <2>4 DEF ResetLoad, Channel!Subscribe, Joining
<1>5. CASE CheckValid(r)
  <2>1. got' = got /\ adrift' = adrift BY <1>5 DEF CheckValid
  <2>2. CASE Mine(r).valid
    <3>1. rd' = [rd EXCEPT ![r].pc = "compare", ![r].fresh = FALSE, ![r].rp = Mine(r).pointer]
      BY <1>5, <2>2 DEF CheckValid
    <3>2. RdType(r) /\ rd = [q \in Readers |-> rd[q]] BY DEF MInv, ReadersOK
    <3>3. rd'[r] = [rd[r] EXCEPT !.pc = "compare", !.fresh = FALSE, !.rp = Mine(r).pointer] BY <3>1, <3>2
    <3>4. ~rd'[r].fresh BY <3>2, <3>3 DEF RdType
    <3>5. lagged' = IF rd[r].fresh /\ pub.size > 0 THEN lagged \cup {r} ELSE lagged
      BY <1>5, <2>2 DEF CheckValid
    <3>6. \A q \in lagged' \ lagged : q \in Joining \ Joining' BY <3>4, <3>5 DEF Joining
    <3> QED BY <1>3, <2>1, <3>5, <3>6
  <2>3. CASE ~Mine(r).valid
    <3>1. lagged' = lagged BY <1>5, <2>3 DEF CheckValid
    <3> QED BY <1>3, <2>1, <3>1
  <2> QED BY <2>2, <2>3
<1>6. CASE SubKill(r) \/ ResetStore(r)
  <2>1. got' = got /\ lagged' = lagged \cup (adrift \ adrift')
    BY <1>6 DEF SubKill, ResetStore
  <2> QED BY <1>3, <2>1
<1>7. CASE ResetLoad(r) /\ ~rd[r].fresh BY <1>3, <1>7 DEF ResetLoad
<1>8. CASE Final(r) BY <1>3, <1>8 DEF Final
<1>10. CASE Enter(r)
  <2>1. got' = got /\ lagged' = lagged \cup (adrift \cap {r}) /\ adrift \ adrift' \subseteq {r} BY <1>10 DEF Enter
  <2>2. r \notin adrift' BY <1>10 DEF Enter, Sharing
  <2> QED BY <1>3, <2>1, <2>2
<1>9. CASE SubStart(r) \/ Claim(r) \/ EvictBegin(r) \/ EvictAll(r) \/ ResetValid(r) \/ CheckUid(r) \/ Compare(r)
           \/ LoadSize(r) \/ Trust(r) \/ Advance(r) \/ Copy(r) \/ Store(r)
  <2>1. got' = got /\ lagged' = lagged /\ adrift \subseteq adrift'
    BY <1>9 DEF SubStart, Claim, EvictBegin, EvictAll, ResetValid, CheckUid, Compare, LoadSize, Trust, Advance,
                Copy, Store, Disturb, history
  <2> QED BY <1>3, <2>1
<1> QED BY <1>4, <1>5, <1>6, <1>7, <1>8, <1>9, <1>10 DEF Reader, Recv

(* A message is returned.                                                  *)
LEMMA ReturnMaps ==
    ASSUME MInv, Ordered, NEW r \in Readers, Final(r), got' # got
    PROVE  /\ r \notin adrift /\ Mine(r).valid /\ rd[r].pc = "final"
           /\ rd[r].buf[1].msg \in got[r] + 1 .. Len(log)
           /\ got' = [got EXCEPT ![r] = rd[r].buf[1].msg]
           /\ UNCHANGED <<Joining, log, lagged, adrift>>
<1>1. /\ r \notin adrift /\ Mine(r).valid /\ rd[r].pc = "final" /\ Clean(r, "idle")
      /\ got' = [got EXCEPT ![r] = rd[r].buf[1].msg]
      /\ UNCHANGED <<log, lagged, adrift>>
    BY DEF Final
<1>2. rd[r].buf[1].msg \in got[r] + 1 .. Len(log) BY <1>1, ReturnsNewer
<1>3. Joining' = Joining
  <2>1. rd'[r] = [Off EXCEPT !.pc = "idle", !.id = rd[r].id, !.fresh = rd[r].fresh] BY <1>1, RdUpdate DEF Clean
  <2>2. rd'[r].fresh = rd[r].fresh BY <2>1 DEF Off
  <2>3. \A q \in Readers \ {r} : rd'[q] = rd[q] BY OneReader DEF Reader, Recv
  <2> QED BY <2>2, <2>3 DEF Joining
<1> QED BY <1>1, <1>2, <1>3

(* The channel, where everybody may lose messages.                         *)
Loose == INSTANCE Channel WITH joining <- {r \in Readers : rd[r].fresh}, Lossy <- Readers

(* The ring implements it, whatever fits in it: everyone that is not       *)
(* adrift receives what has been published, in order and none of it twice. *)
THEOREM MsgqInOrder == Spec => Loose!Spec
<1>1. Init => Loose!Init
  <2> SUFFICES ASSUME Init PROVE Loose!Init OBVIOUS
  <2>1. {r \in Readers : rd[r].fresh} = {} BY DEF Init, Off
  <2> QED BY <2>1 DEF Init, Loose!Init
<1>2. MInv /\ Ordered /\ [Next]_vars => [Loose!Next]_(Loose!vars)
  <2> SUFFICES ASSUME MInv, Ordered, [Next]_vars PROVE [Loose!Next]_(Loose!vars) OBVIOUS
  <2>1. CASE UNCHANGED vars BY <2>1 DEF vars, shared, history, Loose!vars
  <2>2. CASE PubStep
    <3>1. Channel!Publish \/ Channel!Drift \/ UNCHANGED <<Joining, log, got, lagged, adrift>> BY <2>2, PubMaps
    <3> QED BY <3>1 DEF Channel!Publish, Channel!Drift, Loose!Next, Loose!Publish, Loose!Drift, Loose!vars, Joining
  <2>3. ASSUME NEW r \in Readers, Reader(r) PROVE Loose!Next
    <3>1. CASE ~(Final(r) /\ got' # got)
      <4>1. Channel!Drift \/ Channel!Subscribe(r) BY <2>3, <3>1, ReaderMaps
      <4> QED BY <4>1 DEF Channel!Drift, Channel!Subscribe, Loose!Next, Loose!Drift, Loose!Subscribe
    <3>2. CASE Final(r) /\ got' # got
      <4>1. /\ r \notin adrift /\ rd[r].buf[1].msg \in got[r] + 1 .. Len(log)
            /\ got' = [got EXCEPT ![r] = rd[r].buf[1].msg]
            /\ UNCHANGED <<Joining, log, lagged, adrift>>
        BY <3>2, ReturnMaps
      <4>2. Loose!Deliver(r) BY <4>1 DEF Loose!Deliver, Joining
      <4> QED BY <4>2 DEF Loose!Next
    <3> QED BY <3>1, <3>2
  <2> QED BY <2>1, <2>2, <2>3 DEF Next, PubStep
<1> QED BY <1>1, <1>2, MsgqInv, MsgqOrdered, PTL DEF Spec, Loose!Spec
============================================================================
