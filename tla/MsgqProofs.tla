----------------------------- MODULE MsgqProofs -----------------------------
(***************************************************************************)
(* The ring of msgq, for every size of the ring and of messages, every     *)
(* number of readers and slots, and every order of sends, calls, kills and *)
(* restarts: a reader that is not adrift never has to distrust a size, and *)
(* what it receives is a message as it was published.                      *)
(*                                                                         *)
(* The argument is about boundaries: the places of the ring that hold a    *)
(* tag.  Wherever there is one, except at the write pointer, a whole       *)
(* message follows, and after it another boundary (RingOK).  That is so    *)
(* for what is left of earlier laps too, since the ring is overwritten     *)
(* from the left.  A reader stays on boundaries; what it may be reading is *)
(* overwritten only after the publisher has looked at its pointer, and     *)
(* then its flag is off (ReaderOK).                                        *)
(***************************************************************************)
EXTENDS Msgq, TLAPS

IsTag(w) == w.kind = "wrap" \/ (w.kind = "size" /\ w.n > 0)

Boundary(a) == a = write_pointer.ptr \/ IsTag(ring[a])

(* A message of n words that begins at a ends at a boundary, and before    *)
(* the write pointer if it begins before it.                               *)
Fits(a, n) == /\ n \in Sizes /\ a + 1 + n < Size
              /\ Boundary(a + 1 + n)
              /\ a < write_pointer.ptr => a + 1 + n <= write_pointer.ptr

(* The words of a published message.                                       *)
PayloadAt(a, n) == \E m \in 1 .. Len(log) :
                       log[m] = n /\ \A k \in 1 .. n : ring[a + k] = Payload(m, k)

Readable(a) == \/ ring[a] = WrapTag
               \/ ring[a].kind = "size" /\ Fits(a, ring[a].n) /\ PayloadAt(a, ring[a].n)

(* Every size in the ring stays within it, also one just being written.    *)
TagsFit == \A a \in 0 .. Size - 1 :
               ring[a].kind = "size" /\ ring[a].n > 0 => ring[a].n \in Sizes /\ a + 1 + ring[a].n < Size

RingOK == /\ Boundary(0)
          /\ TagsFit
          /\ \A a \in 0 .. Size - 1 : a # write_pointer.ptr /\ IsTag(ring[a]) =>
                 Readable(a) /\ (ring[a] = WrapTag => a > write_pointer.ptr)
----------------------------------------------------------------------------
(* The publisher: its locals, and what it has written so far.              *)
Sending   == {"wrap", "beyond", "beyond_clear", "cycle", "evict", "evict_clear", "tag", "data", "done"}
MayWrap   == {"wrap", "beyond", "beyond_clear", "cycle"}
Writing   == {"evict", "evict_clear", "tag", "data", "done"}
PubPcs    == {"off", "init", "init_uid", "idle"} \cup Sending

PubRecord == [pc : PubPcs, size : Nat, n : 0 .. NUM_READERS, i : Nat, dirty : BOOLEAN]
PubType ==
    /\ pub \in PubRecord
    /\ pub.pc \in Sending => pub.size \in Sizes /\ pub.i > 0
    /\ pub.pc \in {"beyond_clear", "evict_clear"} => pub.i <= pub.n
    /\ pub.pc \in {"init", "init_uid"} => pub.i \in Slots
    /\ pub.pc = "tag" => pub.i = 1
    /\ pub.pc = "data" => pub.i <= pub.size

PubOK ==
    /\ pub.pc \in MayWrap => write_pointer.ptr > 0
    /\ pub.pc \in MayWrap \ {"wrap"} => ring[write_pointer.ptr] = WrapTag
    /\ pub.pc \in Writing => write_pointer.ptr + Total + 1 < Size
    /\ pub.pc \in {"tag", "data", "done"} => pub.dirty
    /\ pub.dirty => pub.pc \in {"tag", "data", "done", "off", "init", "init_uid"}
    /\ pub.pc \in {"data", "done"} => ring[write_pointer.ptr] = SizeTag(pub.size)
    /\ pub.pc \in {"data", "done"} =>
           \A k \in 1 .. pub.size : k < pub.i \/ pub.pc = "done" =>
               ring[write_pointer.ptr + k] = Payload(Len(log) + 1, k)
----------------------------------------------------------------------------
(* Pointers.                                                               *)
Before(p, q) == p.cycles < q.cycles \/ (p.cycles = q.cycles /\ p.ptr < q.ptr)
UpTo(p, q)   == p.cycles < q.cycles \/ (p.cycles = q.cycles /\ p.ptr <= q.ptr)

(* The publisher will write its message without another look at r.         *)
Overlooked(r) == pub.dirty \/ (Evicting /\ rd[r].id \notin pub.i .. pub.n)

(* The same of a publisher that will first start a new cycle.              *)
Uncounted(r) == pub.pc \in MayWrap /\ rd[r].id > pub.n

(* A pointer that reader r may have.                                       *)
Placed(r, p) ==
    /\ UpTo(p, write_pointer)
    /\ Boundary(p.ptr)
    /\ Overlooked(r) => ~(write_pointer.ptr < p.ptr /\ p.ptr < write_pointer.ptr + Total)
    /\ Uncounted(r) => p.cycles = write_pointer.cycles /\ p.ptr >= Total

(* A pointer that it may have next.                                        *)
Ahead(r, q) ==
    /\ UpTo(q, write_pointer)
    /\ Boundary(q.ptr)
    /\ \/ q = [cycles |-> rd[r].rp.cycles + 1, ptr |-> 0]
       \/ /\ q.cycles = rd[r].rp.cycles /\ rd[r].rp.ptr < q.ptr
          /\ rd[r].rp.ptr < write_pointer.ptr => q.ptr <= write_pointer.ptr

(* Less than a lap behind what the publisher has written.                  *)
WithinLap(p) ==
    \/ p.cycles = write_pointer.cycles
    \/ /\ p.cycles + 1 = write_pointer.cycles
       /\ p.ptr >= write_pointer.ptr + IF pub.dirty THEN Total ELSE 0
----------------------------------------------------------------------------
(* A reader.                                                               *)
Reading  == {"size", "trust", "advance", "copy", "store"}
Checked  == {"valid", "compare", "final"} \cup Reading
Settled  == {"idle", "start"} \cup Checked
Slotted  == {"enter", "reset", "reset_load", "reset_store", "crashed"} \cup Settled
RdPcs    == {"off", "claim", "full", "evict", "evict_uid"} \cup Slotted

RdType(r) ==
    /\ rd[r] \in [pc : RdPcs, id : 0 .. NUM_READERS, fresh : BOOLEAN, rp : Pointer, wp : Pointer,
                  size : Nat, buf : Seq(Words)]
    /\ rd[r].pc \in Slotted => rd[r].id \in Slots
    /\ rd[r].pc \in {"evict", "evict_uid"} => rd[r].size \in Slots
    /\ rd[r].pc = "trust" => /\ Len(rd[r].buf) = 1
                             /\ LET w == rd[r].buf[1] IN
                                w.kind = "size" /\ w.n > 0 => w.n \in Sizes /\ rd[r].rp.ptr + 1 + w.n < Size
    /\ rd[r].pc \in {"copy", "store"} => /\ rd[r].size \in Sizes /\ rd[r].rp.ptr + 1 + rd[r].size < Size
                                         /\ Len(rd[r].buf) <= rd[r].size
    /\ rd[r].pc = "store" => Len(rd[r].buf) = rd[r].size

(* Its flag is on, and its slot is its own, or was when the call began:    *)
(* the uid may be cleared behind its back, with the flag already back on.  *)
Live(r) == r \notin adrift /\ Mine(r).valid /\ (Mine(r).uid = r \/ rd[r].pc \in Checked)

(* What it reads and what it has read.                                     *)
ReadOK(r) ==
    LET p == rd[r].rp  w == rd[r].buf[1] IN
    /\ Before(p, write_pointer)
    /\ Overlooked(r) => p.ptr # write_pointer.ptr
    /\ rd[r].pc = "size" => Readable(p.ptr)
    /\ rd[r].pc = "trust" => \/ w = WrapTag /\ p.cycles < write_pointer.cycles
                             \/ w.kind = "size" /\ Fits(p.ptr, w.n) /\ PayloadAt(p.ptr, w.n)
    /\ rd[r].pc = "advance" => Ahead(r, rd[r].wp)
    /\ rd[r].pc \in {"copy", "store"} =>
           /\ Fits(p.ptr, rd[r].size) /\ PayloadAt(p.ptr, rd[r].size)
           /\ \A k \in 1 .. Len(rd[r].buf) : rd[r].buf[k] = ring[p.ptr + k]

ReaderOK(r) ==
    /\ rd[r].pc \in Settled /\ Live(r) => Placed(r, Mine(r).pointer)
    /\ rd[r].pc \in {"compare"} \cup Reading /\ Live(r) => rd[r].rp = Mine(r).pointer
    /\ rd[r].pc \in Reading /\ Live(r) => ReadOK(r)
    /\ rd[r].pc = "final" /\ Live(r) => Whole(r)
    /\ rd[r].pc = "crashed" => r \in adrift

(* The pointer of a reset, before it is stored.                            *)
ResetOK(r) ==
    rd[r].pc = "reset_store" /\ Mine(r).uid = r =>
        /\ UpTo(rd[r].wp, write_pointer)
        /\ WithinLap(rd[r].wp) => Boundary(rd[r].wp.ptr)
        /\ pub.pc \in {"init", "init_uid"} /\ rd[r].id < pub.i => rd[r].wp = write_pointer

(* The invariant: the queue, the header with what is counted, the readers. *)
QueueOK  == /\ write_pointer \in Pointer /\ ring \in [0 .. Size - 1 -> Words] /\ log \in Seq(Sizes)
            /\ PubType /\ PubOK /\ RingOK
HeaderOK == /\ num_readers \in 0 .. NUM_READERS
            /\ slot \in [Slots -> [pointer : Pointer, valid : BOOLEAN, uid : Readers \cup {Nobody}]]
            /\ left \in [starts : Nat, joins : [Readers -> Nat], sends : Seq(Sizes)]
            /\ lagged \subseteq Readers /\ adrift \subseteq Readers
GotOK     == got \in [Readers -> 0 .. Len(log)]
ReadersOK == \A r \in Readers : RdType(r) /\ ReaderOK(r) /\ ResetOK(r)

MInv == QueueOK /\ HeaderOK /\ GotOK /\ rd = [r \in Readers |-> rd[r]] /\ ReadersOK
----------------------------------------------------------------------------
(* What is assumed of the sizes, for the provers.                          *)
LEMMA Constants ==
    /\ Size \in Nat /\ Size > 0 /\ NUM_READERS \in Nat /\ NUM_READERS > 0
    /\ \A n \in Sizes : n \in Nat /\ n > 0 /\ n + 3 < Size
BY SizeAssumption, ThreeFit, SlotsAssumption

(* A word is what its kind says.                                           *)
LEMMA WordFacts ==
    ASSUME NEW w \in Words
    PROVE  /\ w.kind \in {"size", "wrap", "data"}
           /\ w.kind = "wrap" <=> w = WrapTag
           /\ w.kind = "size" => w = SizeTag(w.n) /\ w.n \in Sizes \cup {0} /\ w.n \in Nat
           /\ w.n \in Nat
BY Constants DEF Words, SizeTag, WrapTag

(* What the publisher writes.                                              *)
LEMMA WrittenWords ==
    /\ WrapTag \in Words /\ IsTag(WrapTag) /\ WrapTag.kind = "wrap"
    /\ \A n \in Sizes \cup {0} : SizeTag(n) \in Words /\ SizeTag(n).kind = "size" /\ SizeTag(n).n = n
    /\ \A m, k \in Nat : Payload(m, k) \in Words /\ Payload(m, k).kind = "data"
BY DEF Words, WrapTag, SizeTag, Payload, IsTag

(* Data is no tag, a size of a message is.                                 *)
LEMMA Tags ==
    /\ \A n \in Sizes : IsTag(SizeTag(n)) /\ SizeTag(n) # WrapTag
    /\ \A m, k \in Nat : ~IsTag(Payload(m, k))
    /\ ~IsTag(SizeTag(0))
BY Constants DEF WrapTag, SizeTag, Payload, IsTag

(* A record of the publisher, field by field.                              *)
LEMMA PubMake ==
    ASSUME NEW pc \in PubPcs, NEW size \in Nat, NEW n \in 0 .. NUM_READERS, NEW i \in Nat,
           NEW dirty \in BOOLEAN
    PROVE  [pc |-> pc, size |-> size, n |-> n, i |-> i, dirty |-> dirty] \in PubRecord
BY DEF PubRecord

(* Its program counter, counter and flag may be set to others.             *)
LEMMA PubSet ==
    ASSUME NEW p \in PubRecord, NEW pc \in PubPcs, NEW i \in Nat, NEW dirty \in BOOLEAN
    PROVE  /\ [p EXCEPT !.pc = pc] \in PubRecord
           /\ [p EXCEPT !.i = i] \in PubRecord
           /\ [p EXCEPT !.pc = pc, !.i = i] \in PubRecord
           /\ [p EXCEPT !.pc = pc, !.i = i, !.dirty = dirty] \in PubRecord
BY DEF PubRecord

(* A step that leaves the ring and the publisher alone.                    *)
LEMMA QueueStays ==
    ASSUME QueueOK, UNCHANGED <<write_pointer, ring, log, pub>>
    PROVE  QueueOK'
BY DEF QueueOK, PubType, PubOK, RingOK, Boundary, TagsFit, Readable, Fits, PayloadAt, Total

(* ... or changes only where the publisher is.                             *)
LEMMA RingStays ==
    ASSUME RingOK, UNCHANGED <<write_pointer, ring, log>>
    PROVE  RingOK'
BY DEF RingOK, Boundary, TagsFit, Readable, Fits, PayloadAt
----------------------------------------------------------------------------
(* The queue under the publisher's steps: first those that do not write    *)
(* to the ring.                                                            *)
LEMMA QueueIdle == ASSUME QueueOK, HeaderOK, PubStart \/ PubClear \/ PubKill PROVE QueueOK'
<1>0. NUM_READERS \in Nat /\ NUM_READERS > 0 BY Constants
<1>1. CASE PubStart
  <2>1. UNCHANGED <<write_pointer, ring, log>> BY <1>1 DEF PubStart, history
  <2>2. PubType'
    <3>1. pub \in PubRecord /\ pub' = [pub EXCEPT !.pc = "init", !.i = 1] BY <1>1 DEF PubStart, QueueOK, PubType
    <3>2. pub' \in PubRecord BY <3>1 DEF PubRecord, PubPcs
    <3>3. pub'.pc = "init" /\ pub'.i = 1 BY <3>1 DEF PubRecord
    <3> QED BY <1>0, <3>2, <3>3 DEF PubType, Sending, Slots
  <2>3. PubOK' BY <1>1, <2>1 DEF PubStart, QueueOK, PubType, PubRecord, PubOK, MayWrap, Writing
  <2> QED BY <2>1, <2>2, <2>3, RingStays DEF QueueOK
<1>2. CASE PubClear
  <2>1. UNCHANGED <<write_pointer, ring, log>> BY <1>2 DEF PubClear
  <2>2. pub \in PubRecord /\ pub.i \in Slots /\ pub.i \in Nat BY <1>2 DEF PubClear, QueueOK, PubType, PubRecord
  <2>3. CASE pub' = Idle
    <3>1. PubType' BY <1>0, <2>3 DEF PubType, PubRecord, PubPcs, Sending, Idle
    <3>2. PubOK' BY <2>3 DEF PubOK, MayWrap, Writing, Idle
    <3> QED BY <2>1, <3>1, <3>2, RingStays DEF QueueOK
  <2>4. CASE \E pc \in {"init", "init_uid"}, i \in Slots : pub' = [pub EXCEPT !.pc = pc, !.i = i]
    <3>1. PICK pc \in {"init", "init_uid"}, i \in Slots : pub' = [pub EXCEPT !.pc = pc, !.i = i] BY <2>4
    <3>2. pc \in PubPcs /\ i \in Nat BY <1>0 DEF PubPcs, Slots
    <3>3. pub' \in PubRecord BY <2>2, <3>1, <3>2, PubSet
    <3>4. pub'.pc = pc /\ pub'.i = i BY <2>2, <3>1 DEF PubRecord
    <3>5. PubType' BY <3>1, <3>3, <3>4 DEF PubType, Sending
    <3>6. PubOK' BY <3>4 DEF PubOK, MayWrap, Writing
    <3> QED BY <2>1, <3>5, <3>6, RingStays DEF QueueOK
  <2>5. CASE pub.pc = "init"
    <3>1. pub' = [pub EXCEPT !.pc = "init_uid"] BY <1>2, <2>5 DEF PubClear
    <3>2. pub' = [pub EXCEPT !.pc = "init_uid", !.i = pub.i] BY <2>2, <3>1 DEF PubRecord
    <3> QED BY <2>2, <2>4, <3>2
  <2>6. CASE pub.pc = "init_uid" /\ pub.i # NUM_READERS
    <3>1. pub' = [pub EXCEPT !.pc = "init", !.i = pub.i + 1] BY <1>2, <2>6 DEF PubClear
    <3>2. pub.i + 1 \in Slots BY <1>0, <2>2, <2>6 DEF Slots
    <3> QED BY <2>4, <3>1, <3>2
  <2> QED BY <1>2, <2>3, <2>5, <2>6 DEF PubClear
<1>3. CASE PubKill
  <2>1. UNCHANGED <<write_pointer, ring, log>> BY <1>3 DEF PubKill, shared, history
  <2>2. PubType'
    <3>1. /\ pub \in PubRecord
          /\ pub' = [Idle EXCEPT !.pc = "off", !.dirty = pub.dirty, !.size = IF pub.dirty THEN pub.size ELSE 0]
        BY <1>3 DEF PubKill, QueueOK, PubType
    <3>2. pub' \in PubRecord
      <4>1. CASE pub.dirty
        <5>1. pub' = [pc |-> "off", size |-> pub.size, n |-> 0, i |-> 0, dirty |-> TRUE]
          BY <3>1, <4>1 DEF Idle, PubRecord
        <5>2. "off" \in PubPcs /\ pub.size \in Nat /\ 0 \in 0 .. NUM_READERS BY <1>0, <3>1 DEF PubPcs, PubRecord
        <5> QED BY <5>1, <5>2, PubMake
      <4>2. CASE ~pub.dirty
        <5>1. pub' = [pc |-> "off", size |-> 0, n |-> 0, i |-> 0, dirty |-> FALSE]
          BY <3>1, <4>2 DEF Idle, PubRecord
        <5>2. "off" \in PubPcs /\ pub.size \in Nat /\ 0 \in 0 .. NUM_READERS BY <1>0, <3>1 DEF PubPcs, PubRecord
        <5> QED BY <5>1, <5>2, PubMake
      <4> QED BY <4>1, <4>2
    <3>3. pub'.pc = "off" BY <3>1 DEF Idle
    <3> QED BY <3>2, <3>3 DEF PubType, Sending
  <2>3. PubOK' BY <1>3, <2>1 DEF PubKill, QueueOK, PubType, PubRecord, PubOK, MayWrap, Writing, Idle
  <2> QED BY <2>1, <2>2, <2>3, RingStays DEF QueueOK
<1> QED BY <1>1, <1>2, <1>3

(* A message that need not wrap has room for itself and a tag.             *)
LEMMA QueueBegin == ASSUME QueueOK, HeaderOK, SendBegin PROVE QueueOK'
<1>1. UNCHANGED <<write_pointer, ring, log>> BY DEF SendBegin, shared
<1>2. left.sends \in Seq(Sizes) /\ left.sends # << >> BY DEF HeaderOK, SendBegin
<1> DEFINE size == Head(left.sends)
<1>3. size \in Sizes /\ size \in Nat /\ size + 3 < Size BY <1>2, Constants
<1>4. /\ pub.pc = "idle" /\ num_readers \in 0 .. NUM_READERS
      /\ pub' = [pub EXCEPT !.size = size, !.n = num_readers, !.i = 1,
                            !.pc = IF MustWrap(size) THEN "wrap" ELSE "evict"]
    BY DEF SendBegin, HeaderOK
<1> HIDE DEF size
<1>5. PubType'
  <2>1. pub \in PubRecord BY DEF QueueOK, PubType
  <2>2. pub' \in PubRecord BY <1>3, <1>4, <2>1 DEF PubRecord, PubPcs, Sending
  <2>3. pub'.pc \in {"wrap", "evict"} /\ pub'.size = size /\ pub'.i = 1 BY <1>4, <2>1 DEF PubRecord
  <2> QED BY <1>3, <2>2, <2>3 DEF PubType, Sending
<1>6. pub'.pc \in {"wrap", "evict"} /\ pub'.size = size /\ pub'.dirty = pub.dirty /\ ~pub.dirty
    BY <1>4 DEF QueueOK, PubType, PubRecord, PubOK
<1>7. write_pointer.ptr \in Nat /\ Size \in Nat BY Constants DEF QueueOK, Pointer
<1>8. pub'.pc = "wrap" => write_pointer.ptr > 0
    BY <1>3, <1>4, <1>7 DEF QueueOK, PubType, PubRecord, MustWrap
<1>9. pub'.pc = "evict" => write_pointer.ptr + size + 2 < Size
    BY <1>3, <1>4, <1>7 DEF QueueOK, PubType, PubRecord, MustWrap
<1>10. PubOK' BY <1>1, <1>3, <1>6, <1>7, <1>8, <1>9 DEF PubOK, MayWrap, Writing, Total
<1> QED BY <1>1, <1>5, <1>10, RingStays DEF QueueOK

(* The loops over the readers.                                             *)
LEMMA QueueLoops == ASSUME QueueOK, HeaderOK, SendBeyond \/ SendEvict PROVE QueueOK'
<1>1. UNCHANGED <<write_pointer, ring, log>> BY DEF SendBeyond, SendEvict, Loop, shared, history
<1>2. PubType'
  <2>1. pub \in PubRecord /\ pub.i \in Nat /\ pub.i + 1 \in Nat BY DEF QueueOK, PubType, PubRecord
  <2>2. pub' \in PubRecord
    <3>1. \/ pub' = [pub EXCEPT !.i = pub.i + 1]
          \/ \E pc \in {"beyond_clear", "evict_clear"} : pub' = [pub EXCEPT !.pc = pc]
          \/ \E pc \in {"beyond", "evict"} : pub' = [pub EXCEPT !.pc = pc, !.i = pub.i + 1]
          \/ pub' = [pub EXCEPT !.pc = "cycle", !.i = pub.i, !.dirty = FALSE]
          \/ pub' = [pub EXCEPT !.pc = "tag", !.i = 1, !.dirty = TRUE]
      BY <2>1 DEF SendBeyond, SendEvict, Loop
    <3>2. {"beyond", "evict", "beyond_clear", "evict_clear", "cycle", "tag"} \subseteq PubPcs
      BY DEF PubPcs, Sending
    <3>3. pub.i \in Nat /\ 1 \in Nat /\ TRUE \in BOOLEAN /\ FALSE \in BOOLEAN BY <2>1
    <3>4. CASE pub' = [pub EXCEPT !.i = pub.i + 1] BY <2>1, <3>4, <3>2, <3>3, PubSet
    <3>5. CASE \E pc \in {"beyond_clear", "evict_clear"} : pub' = [pub EXCEPT !.pc = pc]
      BY <2>1, <3>5, <3>2, <3>3, PubSet
    <3>6. CASE \E pc \in {"beyond", "evict"} : pub' = [pub EXCEPT !.pc = pc, !.i = pub.i + 1]
      BY <2>1, <3>6, <3>2 DEF PubRecord
    <3>7. CASE pub' = [pub EXCEPT !.pc = "cycle", !.i = pub.i, !.dirty = FALSE]
      BY <2>1, <3>7, <3>2, <3>3, PubSet, Zenon
    <3>8. CASE pub' = [pub EXCEPT !.pc = "tag", !.i = 1, !.dirty = TRUE]
      BY <2>1, <3>8, <3>2, <3>3, PubSet, Zenon
    <3> QED BY <3>1, <3>4, <3>5, <3>6, <3>7, <3>8
  <2>3. /\ pub.pc \in Sending
        /\ pub'.pc \in {"beyond", "beyond_clear", "cycle", "evict", "evict_clear", "tag"}
        /\ pub'.size = pub.size /\ pub'.n = pub.n /\ pub'.i \in {pub.i, pub.i + 1, 1}
    BY <2>1 DEF PubRecord, Sending, SendBeyond, SendEvict, Loop
  <2>4. /\ pub'.pc \in {"beyond_clear", "evict_clear"} => pub.i <= pub.n /\ pub'.i = pub.i
        /\ pub'.pc = "tag" => pub'.i = 1
    BY <2>1 DEF PubRecord, SendBeyond, SendEvict, Loop
  <2> QED BY <2>1, <2>2, <2>3, <2>4 DEF QueueOK, PubType, Sending
<1>3. PubOK'
  <2>1. CASE SendBeyond
    BY <1>1, <2>1 DEF QueueOK, PubType, PubRecord, PubOK, MayWrap, Writing, SendBeyond, Loop
  <2>2. CASE SendEvict
    BY <1>1, <2>2 DEF QueueOK, PubType, PubRecord, PubOK, MayWrap, Writing, Total, SendEvict, Loop
  <2> QED BY <2>1, <2>2
<1> QED BY <1>1, <1>2, <1>3, RingStays DEF QueueOK
----------------------------------------------------------------------------
(* What a step of the publisher leaves readable: everything but the area   *)
(* it is writing to.                                                       *)
Clear(a) == pub.dirty => a <= write_pointer.ptr \/ a >= write_pointer.ptr + Total

Keeps ==
    /\ \A a \in 0 .. Size - 1 : Boundary(a) /\ Clear(a) => Boundary(a)'
    /\ \A a \in 0 .. Size - 1, n \in Sizes :
           Fits(a, n) /\ Clear(a) /\ (pub.dirty => a # write_pointer.ptr) =>
               /\ Fits(a, n)'
               /\ PayloadAt(a, n) => PayloadAt(a, n)'
               /\ \A k \in 1 .. n : ring'[a + k] = ring[a + k]
    /\ \A a \in 0 .. Size - 1 : Clear(a) /\ (pub.dirty => a # write_pointer.ptr) =>
           ring'[a] \in {ring[a], WrapTag}

(* A step that does not touch the ring keeps all of it.                    *)
LEMMA SameKeeps == ASSUME UNCHANGED <<write_pointer, ring, log>> PROVE Keeps
BY DEF Keeps, Boundary, Fits, PayloadAt

(* Writing one word, at the write pointer or beyond, leaves alone the      *)
(* messages that begin elsewhere.                                          *)
LEMMA OneWord ==
    ASSUME QueueOK, NEW x \in 0 .. Size - 1, x >= write_pointer.ptr, NEW v,
           ring' = [ring EXCEPT ![x] = v], UNCHANGED <<write_pointer, log>>,
           NEW a \in 0 .. Size - 1, a < write_pointer.ptr \/ a >= x,
           NEW n \in Sizes, Fits(a, n)
    PROVE  /\ Fits(a, n)'
           /\ PayloadAt(a, n) => PayloadAt(a, n)'
           /\ \A k \in 1 .. n : ring'[a + k] = ring[a + k]
<1>1. /\ Size \in Nat /\ n \in Nat /\ n > 0 /\ write_pointer.ptr \in 0 .. Size - 1
      /\ a + 1 + n < Size /\ a + 1 + n \in 0 .. Size - 1
      /\ DOMAIN ring = 0 .. Size - 1
  <2>1. Size \in Nat /\ n \in Nat /\ n > 0 BY Constants
  <2>2. write_pointer.ptr \in 0 .. Size - 1 BY DEF QueueOK, Pointer
  <2>3. a + 1 + n < Size BY DEF Fits
  <2>4. DOMAIN ring = 0 .. Size - 1 BY DEF QueueOK
  <2> QED BY <2>1, <2>2, <2>3, <2>4
<1>2. \A k \in 1 .. n : a + k \in 0 .. Size - 1 /\ a + k # x
    BY <1>1 DEF Fits
<1>3. \A k \in 1 .. n : ring'[a + k] = ring[a + k]
    BY <1>1, <1>2
<1>4. a + 1 + n = write_pointer.ptr \/ a + 1 + n # x
    BY <1>1 DEF Fits
<1>5. Fits(a, n)'
    BY <1>1, <1>4 DEF Fits, Boundary
<1> QED BY <1>3, <1>5 DEF PayloadAt

(* The wraparound tag, written before anybody has been warned, and the     *)
(* size, written when everybody has.                                       *)
LEMMA QueueAtPointer ==
    ASSUME QueueOK, SendWrap \/ SendTag
    PROVE  QueueOK' /\ Keeps
<1> DEFINE x == write_pointer.ptr
           v == IF pub.pc = "wrap" THEN WrapTag ELSE SizeTag(pub.size)
<1>1. /\ ring' = [ring EXCEPT ![x] = v] /\ UNCHANGED <<write_pointer, log>>
      /\ pub.pc \in {"wrap", "tag"}
    BY DEF SendWrap, SendTag, history
<1>2. /\ Size \in Nat /\ x \in 0 .. Size - 1 /\ ring \in [0 .. Size - 1 -> Words]
      /\ pub \in PubRecord /\ pub.size \in Sizes /\ pub.size \in Nat /\ pub.size > 0
    BY <1>1, Constants DEF QueueOK, Pointer, PubType, Sending
<1>3. v \in Words /\ IsTag(v) /\ (pub.pc = "wrap" => v = WrapTag)
      /\ (pub.pc = "tag" => v = SizeTag(pub.size) /\ v.kind = "size" /\ v.n = pub.size)
    BY <1>1, <1>2, WrittenWords, Tags
<1> HIDE DEF v
<1>4. ring' \in [0 .. Size - 1 -> Words] BY <1>1, <1>2, <1>3
<1>5. ring'[x] = v /\ \A a \in 0 .. Size - 1 : a # x => ring'[a] = ring[a] BY <1>1, <1>2
<1>6. Keeps
  <2>1. ASSUME NEW a \in 0 .. Size - 1, Boundary(a) PROVE Boundary(a)'
    BY <1>1, <1>5, <2>1 DEF Boundary
  <2>2. ASSUME NEW a \in 0 .. Size - 1, NEW n \in Sizes, Fits(a, n)
        PROVE  /\ Fits(a, n)'
               /\ PayloadAt(a, n) => PayloadAt(a, n)'
               /\ \A k \in 1 .. n : ring'[a + k] = ring[a + k]
    <3>1. a < x \/ a >= x BY <1>2
    <3>2. x >= write_pointer.ptr BY <1>2
    <3> HIDE DEF x
    <3> QED BY <1>1, <1>2, <2>2, <3>1, <3>2, OneWord DEF x
  <2>3. pub.pc = "tag" => pub.dirty BY DEF QueueOK, PubOK
  <2>4. \A a \in 0 .. Size - 1 : (pub.dirty => a # x) => ring'[a] \in {ring[a], WrapTag}
    BY <1>1, <1>3, <1>5, <2>3
  <2> QED BY <2>1, <2>2, <2>4 DEF Keeps
<1>7. TagsFit'
  <2> SUFFICES ASSUME NEW a \in 0 .. Size - 1, ring'[a].kind = "size", ring'[a].n > 0
               PROVE  ring'[a].n \in Sizes /\ a + 1 + ring'[a].n < Size
    BY DEF TagsFit
  <2>1. CASE a # x BY <1>5, <2>1 DEF QueueOK, RingOK, TagsFit
  <2>2. CASE a = x
    <3>1. pub.pc = "tag" BY <1>1, <1>3, <1>5, <2>2, WrittenWords
    <3>2. x + pub.size + 2 < Size BY <1>2, <3>1 DEF QueueOK, PubOK, Writing, Total
    <3> QED BY <1>2, <1>3, <1>5, <2>2, <3>1, <3>2
  <2> QED BY <2>1, <2>2
<1>8. RingOK'
  <2>1. Boundary(0)' BY <1>1, <1>2, <1>5 DEF QueueOK, RingOK, Boundary
  <2>2. ASSUME NEW a \in 0 .. Size - 1, a # x, IsTag(ring'[a])
        PROVE  Readable(a)' /\ (ring'[a] = WrapTag => a > x)
    <3>1. ring'[a] = ring[a] /\ Readable(a) /\ (ring[a] = WrapTag => a > x)
      BY <1>5, <2>2 DEF QueueOK, RingOK
    <3>2. CASE ring[a] = WrapTag BY <3>1, <3>2 DEF Readable
    <3>3. CASE ring[a].kind = "size" /\ Fits(a, ring[a].n) /\ PayloadAt(a, ring[a].n)
      <4>1. ring[a].n \in Sizes BY <3>3 DEF Fits
      <4>2. pub.dirty => a # write_pointer.ptr BY <2>2
      <4>3. a < x \/ a >= x BY <1>2
      <4>4. x >= write_pointer.ptr BY <1>2
      <4>5. Fits(a, ring[a].n)' /\ PayloadAt(a, ring[a].n)'
        BY <1>1, <1>2, <3>3, <4>1, <4>3, <4>4, OneWord, <3>1
      <4> QED BY <3>1, <3>3, <4>5 DEF Readable
    <3> QED BY <3>1, <3>2, <3>3 DEF Readable
  <2> QED BY <1>1, <1>7, <2>1, <2>2 DEF RingOK
<1>9. PubType' /\ PubOK'
  <2>1. CASE SendWrap
    <3>1. pub' = [pub EXCEPT !.pc = "beyond"] /\ pub.pc = "wrap" BY <2>1 DEF SendWrap
    <3>2. "beyond" \in PubPcs BY DEF PubPcs, Sending
    <3>3. pub' \in PubRecord BY <1>2, <3>1, <3>2 DEF PubRecord
    <3>4. PubType' BY <3>1, <3>3 DEF QueueOK, PubType, PubRecord, Sending
    <3>5. PubOK' BY <1>1, <1>2, <1>3, <1>5, <3>1 DEF QueueOK, PubType, PubRecord, PubOK, MayWrap, Writing
    <3> QED BY <3>4, <3>5
  <2>2. CASE SendTag
    <3>1. pub' = [pub EXCEPT !.pc = "data"] /\ pub.pc = "tag" BY <2>2 DEF SendTag
    <3>2. "data" \in PubPcs BY DEF PubPcs, Sending
    <3>3. pub' \in PubRecord BY <1>2, <3>1, <3>2 DEF PubRecord
    <3>4. pub'.pc = "data" /\ pub'.size = pub.size /\ pub'.i = 1 /\ pub'.dirty = pub.dirty
      BY <1>2, <3>1 DEF QueueOK, PubType, PubRecord
    <3>5. PubType' BY <1>2, <3>3, <3>4 DEF PubType, Sending
    <3>6. pub.dirty /\ write_pointer.ptr + pub.size + 2 < Size
      BY <1>2, <3>1 DEF QueueOK, PubOK, Writing, Total
    <3>7. ring'[write_pointer.ptr] = SizeTag(pub.size) BY <1>3, <1>5, <3>1
    <3>8. \A k \in 1 .. pub.size : ~(k < 1) OBVIOUS
    <3>9. PubOK' BY <1>1, <1>2, <3>4, <3>6, <3>7, <3>8 DEF PubOK, MayWrap, Writing, Total
    <3> QED BY <3>5, <3>9
  <2> QED BY <2>1, <2>2
<1> QED BY <1>1, <1>4, <1>6, <1>8, <1>9 DEF QueueOK

(* A word of the message.  There is no tag between the write pointer and   *)
(* the word, so no message begins there.                                   *)
LEMMA QueueData == ASSUME QueueOK, SendData PROVE QueueOK' /\ Keeps
<1> DEFINE x == write_pointer.ptr + pub.i
           v == Payload(Len(log) + 1, pub.i)
<1>1. /\ ring' = [ring EXCEPT ![x] = v] /\ UNCHANGED <<write_pointer, log>>
      /\ pub.pc = "data"
    BY DEF SendData, history
<1>2. /\ Size \in Nat /\ write_pointer.ptr \in 0 .. Size - 1 /\ ring \in [0 .. Size - 1 -> Words]
      /\ pub.size \in Sizes /\ pub.size \in Nat /\ pub.i \in 1 .. pub.size /\ pub.dirty
      /\ write_pointer.ptr + pub.size + 2 < Size /\ Len(log) \in Nat
  <2>1. Size \in Nat BY Constants
  <2>2. write_pointer.ptr \in 0 .. Size - 1 /\ ring \in [0 .. Size - 1 -> Words] /\ Len(log) \in Nat
    BY DEF QueueOK, Pointer
  <2>3. pub.size \in Sizes /\ pub.size \in Nat /\ pub.i \in 1 .. pub.size
    BY <1>1, Constants DEF QueueOK, PubType, PubRecord, Sending
  <2>4. pub.dirty BY <1>1 DEF QueueOK, PubOK
  <2>5. write_pointer.ptr + pub.size + 2 < Size BY <1>1, <2>2, <2>3 DEF QueueOK, PubOK, Writing, Total
  <2> QED BY <2>1, <2>2, <2>3, <2>4, <2>5
<1>3. x \in 0 .. Size - 1 /\ x > write_pointer.ptr /\ x < write_pointer.ptr + Total
    BY <1>2 DEF Total
<1>4. v \in Words /\ v.kind = "data" /\ ~IsTag(v) BY <1>2, WrittenWords, Tags
<1>5. \A a \in 0 .. Size - 1 : write_pointer.ptr < a /\ a < x => ~IsTag(ring[a])
  <2> SUFFICES ASSUME NEW a \in 0 .. Size - 1, write_pointer.ptr < a, a < x PROVE ~IsTag(ring[a])
    OBVIOUS
  <2> DEFINE k == a - write_pointer.ptr
  <2>1. k \in 1 .. pub.size /\ k < pub.i /\ a = write_pointer.ptr + k /\ k \in Nat BY <1>2
  <2>2. ring[write_pointer.ptr + k] = Payload(Len(log) + 1, k) BY <1>1, <2>1 DEF QueueOK, PubOK
  <2> HIDE DEF k
  <2>3. ring[a] = Payload(Len(log) + 1, k) BY <2>1, <2>2
  <2> QED BY <1>2, <2>1, <2>3, Tags
<1> HIDE DEF v, x
<1>6. ring' \in [0 .. Size - 1 -> Words] BY <1>1, <1>2, <1>3, <1>4
<1>7. ring'[x] = v /\ \A a \in 0 .. Size - 1 : a # x => ring'[a] = ring[a] BY <1>1, <1>2, <1>3
<1>8. x >= write_pointer.ptr BY <1>2, <1>3
<1>9. Keeps
  <2>1. ASSUME NEW a \in 0 .. Size - 1, Boundary(a), Clear(a) PROVE Boundary(a)'
    <3>1. a # x BY <1>2, <1>3, <2>1 DEF Clear, Total
    <3> QED BY <1>1, <1>7, <2>1, <3>1 DEF Boundary
  <2>2. ASSUME NEW a \in 0 .. Size - 1, NEW n \in Sizes, Fits(a, n), Clear(a), a # write_pointer.ptr
        PROVE  /\ Fits(a, n)'
               /\ PayloadAt(a, n) => PayloadAt(a, n)'
               /\ \A k \in 1 .. n : ring'[a + k] = ring[a + k]
    <3>1. a < write_pointer.ptr \/ a >= x BY <1>2, <1>3, <2>2 DEF Clear, Total
    <3> QED BY <1>1, <1>3, <1>8, <2>2, <3>1, OneWord
  <2>3. ASSUME NEW a \in 0 .. Size - 1, Clear(a), a # write_pointer.ptr PROVE ring'[a] = ring[a]
    <3>1. a # x BY <1>2, <1>3, <2>3 DEF Clear, Total
    <3> QED BY <1>7, <3>1
  <2> QED BY <1>2, <2>1, <2>2, <2>3 DEF Keeps
<1>10. TagsFit'
  <2> SUFFICES ASSUME NEW a \in 0 .. Size - 1, ring'[a].kind = "size", ring'[a].n > 0
               PROVE  ring'[a].n \in Sizes /\ a + 1 + ring'[a].n < Size
    BY DEF TagsFit
  <2>1. a # x BY <1>4, <1>7
  <2> QED BY <1>7, <2>1 DEF QueueOK, RingOK, TagsFit
<1>11. RingOK'
  <2>1. Boundary(0)'
    <3>1. 0 # x /\ 0 \in 0 .. Size - 1 BY <1>2, <1>3
    <3> QED BY <1>1, <1>7, <3>1 DEF QueueOK, RingOK, Boundary
  <2>2. ASSUME NEW a \in 0 .. Size - 1, a # write_pointer.ptr, IsTag(ring'[a])
        PROVE  Readable(a)' /\ (ring'[a] = WrapTag => a > write_pointer.ptr)
    <3>1. a # x BY <1>4, <1>7, <2>2
    <3>2. ring'[a] = ring[a] /\ Readable(a) /\ (ring[a] = WrapTag => a > write_pointer.ptr)
      BY <1>7, <2>2, <3>1 DEF QueueOK, RingOK
    <3>3. a < write_pointer.ptr \/ a >= x BY <1>2, <1>3, <1>5, <2>2, <3>1, <3>2
    <3>4. CASE ring[a] = WrapTag BY <3>2, <3>4 DEF Readable
    <3>5. CASE ring[a].kind = "size" /\ Fits(a, ring[a].n) /\ PayloadAt(a, ring[a].n)
      <4>1. ring[a].n \in Sizes BY <3>5 DEF Fits
      <4>2. Fits(a, ring[a].n)' /\ PayloadAt(a, ring[a].n)'
        BY <1>1, <1>3, <1>8, <3>2, <3>3, <3>5, <4>1, OneWord
      <4> QED BY <3>2, <3>5, <4>2 DEF Readable
    <3> QED BY <3>2, <3>4, <3>5 DEF Readable
  <2> QED BY <1>1, <1>10, <2>1, <2>2 DEF RingOK
<1>12. PubType' /\ PubOK'
  <2>1. pub \in PubRecord BY DEF QueueOK, PubType
  <2>2. /\ pub' = IF pub.i = pub.size THEN [pub EXCEPT !.pc = "done"] ELSE [pub EXCEPT !.i = pub.i + 1]
        /\ "done" \in PubPcs /\ pub.i + 1 \in Nat
    BY <1>2 DEF SendData, PubPcs, Sending
  <2>3. pub' \in PubRecord BY <2>1, <2>2 DEF PubRecord
  <2>4. /\ pub'.pc = IF pub.i = pub.size THEN "done" ELSE "data"
        /\ pub'.i = IF pub.i = pub.size THEN pub.i ELSE pub.i + 1
        /\ pub'.size = pub.size /\ pub'.dirty = pub.dirty
    BY <1>1, <2>1, <2>2 DEF PubRecord
  <2>5. PubType' BY <1>2, <2>3, <2>4 DEF PubType, Sending
  <2>6. ring'[write_pointer.ptr] = SizeTag(pub.size)
    BY <1>1, <1>2, <1>3, <1>7 DEF QueueOK, PubOK
  <2>7. ASSUME NEW k \in 1 .. pub.size, k <= pub.i
        PROVE  ring'[write_pointer.ptr + k] = Payload(Len(log) + 1, k)
    <3>1. CASE k = pub.i BY <1>7, <3>1 DEF x, v
    <3>2. CASE k < pub.i
      <4>1. ring[write_pointer.ptr + k] = Payload(Len(log) + 1, k) BY <1>1, <3>2 DEF QueueOK, PubOK
      <4>2. write_pointer.ptr + k \in 0 .. Size - 1 /\ write_pointer.ptr + k # x BY <1>2, <3>2 DEF x
      <4> QED BY <1>7, <4>1, <4>2
    <3> QED BY <1>2, <2>7, <3>1, <3>2
  <2>8. \A k \in 1 .. pub.size : (k < pub'.i \/ pub'.pc = "done") => k <= pub.i
    BY <1>2, <2>4
  <2>9. pub'.pc \in {"data", "done"} BY <2>4
  <2>10. PubOK'
    <3>1. /\ pub'.dirty /\ pub'.size = pub.size /\ write_pointer' = write_pointer /\ log' = log
          /\ write_pointer.ptr + (pub.size + 1) + 1 < Size
      BY <1>1, <2>4 DEF QueueOK, PubOK, Writing, Total
    <3>2. \A k \in 1 .. pub.size : (k < pub'.i \/ pub'.pc = "done") =>
              ring'[write_pointer.ptr + k] = Payload(Len(log) + 1, k)
      BY <2>7, <2>8
    <3> QED BY <2>6, <2>9, <3>1, <3>2 DEF PubOK, MayWrap, Writing, Total
  <2> QED BY <2>5, <2>10
<1> QED BY <1>1, <1>6, <1>9, <1>11, <1>12 DEF QueueOK

(* A new cycle: what was the write pointer now holds a wraparound tag.     *)
LEMMA QueueCycle == ASSUME QueueOK, SendCycle PROVE QueueOK' /\ Keeps
<1>1. /\ write_pointer' = [cycles |-> write_pointer.cycles + 1, ptr |-> 0]
      /\ UNCHANGED <<ring, log>> /\ pub.pc = "cycle" /\ pub' = [pub EXCEPT !.pc = "evict", !.i = 1]
    BY DEF SendCycle, history
<1>2. /\ Size \in Nat /\ Size > 0 /\ write_pointer.ptr \in 0 .. Size - 1 /\ write_pointer.cycles \in Nat
      /\ write_pointer'.ptr = 0 /\ write_pointer' \in Pointer
    BY <1>1, Constants DEF QueueOK, Pointer
<1>3. ring[write_pointer.ptr] = WrapTag /\ IsTag(WrapTag)
    BY <1>1, WrittenWords DEF QueueOK, PubOK, MayWrap
<1>4. \A a \in 0 .. Size - 1 : Boundary(a) => Boundary(a)'
    BY <1>1, <1>3 DEF Boundary
<1>5. \A a \in 0 .. Size - 1, n \in Sizes : Fits(a, n) => Fits(a, n)'
  <2> SUFFICES ASSUME NEW a \in 0 .. Size - 1, NEW n \in Sizes, Fits(a, n) PROVE Fits(a, n)'
    OBVIOUS
  <2>1. a + 1 + n \in 0 .. Size - 1 BY <1>2, Constants DEF Fits
  <2> QED BY <1>2, <1>4, <2>1 DEF Fits
<1>6. Keeps BY <1>1, <1>4, <1>5 DEF Keeps, PayloadAt
<1>7. RingOK'
  <2>1. Boundary(0)' BY <1>2 DEF Boundary
  <2>2. TagsFit' BY <1>1 DEF QueueOK, RingOK, TagsFit
  <2>3. ASSUME NEW a \in 0 .. Size - 1, a # 0, IsTag(ring[a]) PROVE Readable(a)' /\ a > 0
    <3>1. CASE a = write_pointer.ptr BY <1>1, <1>3, <2>3, <3>1 DEF Readable
    <3>2. CASE a # write_pointer.ptr
      <4>1. Readable(a) BY <2>3, <3>2 DEF QueueOK, RingOK
      <4>2. ring[a].kind = "size" /\ Fits(a, ring[a].n) => ring[a].n \in Sizes /\ Fits(a, ring[a].n)'
        BY <1>1, <1>5 DEF Fits
      <4> QED BY <1>1, <2>3, <4>1, <4>2 DEF Readable, PayloadAt
    <3> QED BY <3>1, <3>2
  <2> QED BY <1>1, <1>2, <2>1, <2>2, <2>3 DEF RingOK
<1>8. PubType' /\ PubOK'
  <2>1. pub \in PubRecord /\ pub.size \in Sizes /\ pub.size \in Nat /\ pub.size + 3 < Size
    BY <1>1, Constants DEF QueueOK, PubType, Sending
  <2>2. "evict" \in PubPcs BY DEF PubPcs, Sending
  <2>3. pub' \in PubRecord BY <1>1, <2>1, <2>2 DEF PubRecord
  <2>4. pub'.pc = "evict" /\ pub'.i = 1 /\ pub'.size = pub.size /\ pub'.dirty = pub.dirty
    BY <1>1, <2>1 DEF PubRecord
  <2>5. ~pub.dirty BY <1>1 DEF QueueOK, PubOK
  <2>6. PubType' BY <2>1, <2>3, <2>4 DEF PubType, Sending
  <2>7. PubOK' BY <1>2, <2>1, <2>4, <2>5 DEF PubOK, MayWrap, Writing, Total
  <2> QED BY <2>6, <2>7
<1> QED BY <1>1, <1>2, <1>6, <1>7, <1>8 DEF QueueOK

(* The message is published: it becomes readable, and where it ends is the *)
(* write pointer.                                                          *)
LEMMA QueueDone == ASSUME QueueOK, SendDone PROVE QueueOK' /\ Keeps
<1> SUFFICES ASSUME NEW w, w = write_pointer.ptr, NEW n0, n0 = pub.size
             PROVE  QueueOK' /\ Keeps
    OBVIOUS
<1> DEFINE new == Len(log) + 1
<1>1. /\ write_pointer' = [write_pointer EXCEPT !.ptr = @ + Total]
      /\ UNCHANGED ring /\ log' = Append(log, n0) /\ pub.pc = "done" /\ pub' = Idle
    BY DEF SendDone
<1>2. /\ Size \in Nat /\ w \in 0 .. Size - 1 /\ n0 \in Sizes /\ n0 \in Nat /\ n0 > 0 /\ Total = n0 + 1
      /\ w + n0 + 2 < Size /\ pub.dirty /\ log \in Seq(Sizes) /\ Len(log) \in Nat
  <2>1. Size \in Nat BY Constants
  <2>2. w \in 0 .. Size - 1 /\ log \in Seq(Sizes) /\ Len(log) \in Nat BY DEF QueueOK, Pointer
  <2>3. n0 \in Sizes /\ n0 \in Nat /\ n0 > 0 BY <1>1, Constants DEF QueueOK, PubType, Sending
  <2>4. w + n0 + 2 < Size
    <3>1. w + Total + 1 < Size BY <1>1 DEF QueueOK, PubOK, Writing
    <3> QED BY <2>1, <2>2, <2>3, <3>1 DEF Total
  <2>5. pub.dirty BY <1>1 DEF QueueOK, PubOK
  <2> QED BY <2>1, <2>2, <2>3, <2>4, <2>5 DEF Total
<1>3. write_pointer'.ptr = w + n0 + 1 /\ write_pointer' \in Pointer /\ write_pointer'.cycles = write_pointer.cycles
  <2>1. write_pointer \in [cycles : Nat, ptr : 0 .. Size - 1] BY DEF QueueOK, Pointer
  <2>2. w + Total = w + n0 + 1 /\ w + n0 + 1 \in 0 .. Size - 1 BY <1>2
  <2>3. write_pointer' = [write_pointer EXCEPT !.ptr = w + n0 + 1] BY <1>1, <2>2
  <2> QED BY <2>1, <2>2, <2>3 DEF Pointer
<1>4. /\ log' \in Seq(Sizes) /\ Len(log') = new /\ log'[new] = n0
      /\ \A m \in 1 .. Len(log) : m \in 1 .. Len(log') /\ log'[m] = log[m]
    BY <1>1, <1>2
<1>5. ring[w] = SizeTag(n0) /\ IsTag(ring[w]) /\ ring[w].kind = "size" /\ ring[w].n = n0 /\ ring[w] # WrapTag
    BY <1>1, <1>2, Tags, WrittenWords DEF QueueOK, PubOK
<1>6. \A k \in 1 .. n0 : ring[w + k] = Payload(new, k)
    BY <1>1 DEF QueueOK, PubOK
<1>7. \A a \in 0 .. Size - 1 : w < a /\ a < w + n0 + 1 => ~IsTag(ring[a])
  <2> SUFFICES ASSUME NEW a \in 0 .. Size - 1, w < a, a < w + n0 + 1 PROVE ~IsTag(ring[a])
    OBVIOUS
  <2> DEFINE k == a - w
  <2>1. k \in 1 .. n0 /\ a = w + k /\ k \in Nat /\ new \in Nat BY <1>2
  <2> HIDE DEF k, new
  <2>2. ring[a] = Payload(new, k) BY <1>6, <2>1
  <2> QED BY <2>1, <2>2, Tags
<1>8. ASSUME NEW a \in 0 .. Size - 1, Boundary(a), a <= w \/ a >= w + n0 + 1 PROVE Boundary(a)'
    BY <1>1, <1>3, <1>5, <1>8 DEF Boundary
<1>9. ASSUME NEW a, NEW n \in Sizes, PayloadAt(a, n) PROVE PayloadAt(a, n)'
    BY <1>1, <1>4, <1>9 DEF PayloadAt
<1>10. ASSUME NEW a \in 0 .. Size - 1, NEW n \in Sizes, Fits(a, n), a < w \/ a >= w + n0 + 1
       PROVE  Fits(a, n)'
  <2>1. n \in Nat /\ a + 1 + n \in 0 .. Size - 1 /\ Boundary(a + 1 + n) BY <1>2, <1>10, Constants DEF Fits
  <2>2. a < w => a + 1 + n <= w BY <1>10 DEF Fits
  <2>3. a + 1 + n <= w \/ a + 1 + n >= w + n0 + 1 BY <1>2, <1>10, <2>1, <2>2
  <2>4. Boundary(a + 1 + n)' BY <1>8, <2>1, <2>3
  <2>5. a < write_pointer'.ptr => a + 1 + n <= write_pointer'.ptr BY <1>2, <1>3, <1>10, <2>1, <2>2
  <2> QED BY <1>10, <2>4, <2>5 DEF Fits
<1>11. Keeps
  <2>1. \A a \in 0 .. Size - 1 : Clear(a) => a <= w \/ a >= w + n0 + 1 BY <1>2 DEF Clear
  <2>2. \A a \in 0 .. Size - 1 : Clear(a) /\ a # write_pointer.ptr => a < w \/ a >= w + n0 + 1
    BY <1>2, <2>1
  <2> QED BY <1>1, <1>2, <1>8, <1>9, <1>10, <2>1, <2>2 DEF Keeps
<1>12. RingOK'
  <2>1. Boundary(0)'
    <3>1. Boundary(0) /\ 0 \in 0 .. Size - 1 /\ 0 <= w BY <1>2 DEF QueueOK, RingOK
    <3> QED BY <1>8, <3>1
  <2>2. TagsFit' BY <1>1 DEF QueueOK, RingOK, TagsFit
  <2>3. ASSUME NEW a \in 0 .. Size - 1, a # write_pointer'.ptr, IsTag(ring[a])
        PROVE  Readable(a)' /\ (ring[a] = WrapTag => a > write_pointer'.ptr)
    <3>1. CASE a = w
      <4>1. PayloadAt(w, n0)'
        <5>1. new \in 1 .. Len(log') BY <1>2, <1>4
        <5> QED BY <1>1, <1>4, <1>6, <5>1 DEF PayloadAt
      <4>2. Boundary(w + 1 + n0)' BY <1>2, <1>3 DEF Boundary
      <4>3. Fits(w, n0)' BY <1>2, <1>3, <4>2 DEF Fits
      <4> QED BY <1>1, <1>5, <3>1, <4>1, <4>3 DEF Readable
    <3>2. CASE a # w
      <4>1. Readable(a) /\ (ring[a] = WrapTag => a > w) BY <2>3, <3>2 DEF QueueOK, RingOK
      <4>2. a < w \/ a > w + n0 + 1
        <5>1. ~(w < a /\ a < w + n0 + 1) BY <1>7, <2>3
        <5>2. a # w + n0 + 1 BY <1>3, <2>3
        <5> QED BY <1>2, <3>2, <5>1, <5>2
      <4>3. CASE ring[a] = WrapTag BY <1>1, <1>2, <1>3, <4>1, <4>2, <4>3 DEF Readable
      <4>4. CASE ring[a].kind = "size" /\ Fits(a, ring[a].n) /\ PayloadAt(a, ring[a].n)
        <5>1. ring[a].n \in Sizes /\ (a < w \/ a >= w + n0 + 1) BY <1>2, <4>2, <4>4 DEF Fits
        <5>2. Fits(a, ring[a].n)' BY <1>1, <1>10, <4>4, <5>1
        <5>3. PayloadAt(a, ring[a].n)' BY <1>1, <1>9, <4>4, <5>1
        <5>4. ring[a] # WrapTag BY <4>4, WrittenWords
        <5> QED BY <1>1, <4>4, <5>2, <5>3, <5>4 DEF Readable
      <4> QED BY <4>1, <4>3, <4>4 DEF Readable
    <3> QED BY <3>1, <3>2
  <2> QED BY <1>1, <2>1, <2>2, <2>3 DEF RingOK
<1>13. PubType' /\ PubOK'
  <2>1. "idle" \in PubPcs /\ 0 \in Nat /\ 0 \in 0 .. NUM_READERS BY Constants DEF PubPcs
  <2>2. Idle \in PubRecord BY <2>1, PubMake DEF Idle
  <2>3. pub' \in PubRecord /\ pub'.pc = "idle" /\ ~pub'.dirty BY <1>1, <2>2 DEF Idle
  <2> QED BY <2>3 DEF PubType, PubOK, Sending, MayWrap, Writing
<1> QED BY <1>1, <1>2, <1>3, <1>4, <1>11, <1>12, <1>13 DEF QueueOK

(* Every step of the publisher.                                            *)
PubStep == PubStart \/ PubClear \/ PubKill \/ Send

(* The queue under any of them.                                            *)
LEMMA QueueStep == ASSUME QueueOK, HeaderOK, PubStep PROVE QueueOK' /\ Keeps
<1>1. CASE PubStart \/ PubClear \/ PubKill
  <2>1. UNCHANGED <<write_pointer, ring, log>> BY <1>1 DEF PubStart, PubClear, PubKill, shared, history
  <2> QED BY <1>1, <2>1, QueueIdle, SameKeeps
<1>2. CASE SendBegin
  <2>1. UNCHANGED <<write_pointer, ring, log>> BY <1>2 DEF SendBegin, shared
  <2> QED BY <1>2, <2>1, QueueBegin, SameKeeps
<1>3. CASE SendBeyond \/ SendEvict
  <2>1. UNCHANGED <<write_pointer, ring, log>> BY <1>3 DEF SendBeyond, SendEvict, Loop, shared, history
  <2> QED BY <1>3, <2>1, QueueLoops, SameKeeps
<1>4. CASE SendWrap \/ SendTag BY <1>4, QueueAtPointer
<1>5. CASE SendData BY <1>5, QueueData
<1>6. CASE SendCycle BY <1>6, QueueCycle
<1>7. CASE SendDone BY <1>7, QueueDone
<1> QED BY <1>1, <1>2, <1>3, <1>4, <1>5, <1>6, <1>7 DEF PubStep, Send
----------------------------------------------------------------------------
(* The publisher moves its pointer in two steps only.                      *)
LEMMA PointerMoves ==
    ASSUME QueueOK, PubStep
    PROVE  \/ write_pointer' = write_pointer
           \/ /\ SendCycle
              /\ write_pointer'.cycles = write_pointer.cycles + 1 /\ write_pointer'.ptr = 0
           \/ /\ SendDone /\ pub.dirty /\ Total \in Nat
              /\ write_pointer'.cycles = write_pointer.cycles
              /\ write_pointer'.ptr = write_pointer.ptr + Total
<1>1. CASE SendCycle BY <1>1 DEF SendCycle
<1>2. CASE SendDone
  <2>1. write_pointer \in [cycles : Nat, ptr : 0 .. Size - 1] BY DEF QueueOK, Pointer
  <2>2. pub.dirty BY <1>2 DEF SendDone, QueueOK, PubOK
  <2>3. Total \in Nat BY DEF Total, QueueOK, PubType, PubRecord
  <2> QED BY <1>2, <2>1, <2>2, <2>3 DEF SendDone
<1>3. CASE PubStep /\ ~SendCycle /\ ~SendDone
  BY <1>3 DEF PubStep, Send, PubStart, PubClear, PubKill, SendBegin, SendWrap, SendBeyond, SendEvict, Loop,
              SendTag, SendData, shared
<1> QED BY <1>1, <1>2, <1>3

(* It never gives a reader its flag back, and moves no reader's pointer.   *)
LEMMA PubLeaves ==
    ASSUME QueueOK, HeaderOK, PubStep
    PROVE  /\ rd' = rd /\ got' = got /\ adrift \subseteq adrift'
           /\ \A i \in Slots : /\ slot'[i].pointer = slot[i].pointer
                               /\ slot'[i].valid => slot[i].valid
                               /\ slot'[i].uid \in {slot[i].uid, Nobody}
           /\ HeaderOK'
<1> DEFINE Rec == [pointer : Pointer, valid : BOOLEAN, uid : Readers \cup {Nobody}]
<1>0. slot \in [Slots -> Rec] BY DEF HeaderOK
<1>1. CASE PubClear
  <2>1. pub.i \in Slots BY <1>1 DEF PubClear, QueueOK, PubType
  <2>2. /\ \/ slot' = [slot EXCEPT ![pub.i].valid = FALSE]
           \/ slot' = [slot EXCEPT ![pub.i].uid = Nobody]
        /\ UNCHANGED <<num_readers, rd, left, got, lagged>>
        /\ adrift \subseteq adrift' /\ adrift' \subseteq adrift \cup Readers
    BY <1>1 DEF PubClear, Holders
  <2>3. slot' \in [Slots -> Rec] BY <1>0, <2>1, <2>2
  <2>4. \A i \in Slots : i # pub.i => slot'[i] = slot[i] BY <1>0, <2>1, <2>2
  <2>5. /\ slot'[pub.i].pointer = slot[pub.i].pointer /\ (slot'[pub.i].valid => slot[pub.i].valid)
        /\ slot'[pub.i].uid \in {slot[pub.i].uid, Nobody}
    BY <1>0, <2>1, <2>2
  <2> QED BY <2>2, <2>3, <2>4, <2>5 DEF HeaderOK
<1>2. CASE pub.pc \in {"beyond_clear", "evict_clear"} /\ (SendBeyond \/ SendEvict)
  <2>1. pub.i \in Slots BY <1>2, Constants DEF QueueOK, PubType, PubRecord, Sending, Slots
  <2>2. /\ slot' = [slot EXCEPT ![pub.i].valid = FALSE]
        /\ UNCHANGED <<num_readers, rd, left, got, adrift, lagged>>
    BY <1>2 DEF SendBeyond, SendEvict, Loop, history
  <2>3. slot' \in [Slots -> Rec] BY <1>0, <2>1, <2>2
  <2>4. \A i \in Slots : i # pub.i => slot'[i] = slot[i] BY <1>0, <2>1, <2>2
  <2>5. slot'[pub.i].pointer = slot[pub.i].pointer /\ ~slot'[pub.i].valid /\ slot'[pub.i].uid = slot[pub.i].uid
    BY <1>0, <2>1, <2>2
  <2> QED BY <2>2, <2>3, <2>4, <2>5 DEF HeaderOK
<1>3. CASE PubStart
  <2>1. UNCHANGED <<slot, rd, got, adrift, lagged>> /\ num_readers' = 0 BY <1>3 DEF PubStart, history
  <2>2. left' \in [starts : Nat, joins : [Readers -> Nat], sends : Seq(Sizes)]
    BY <1>3 DEF PubStart, HeaderOK
  <2> QED BY <2>1, <2>2, Constants DEF HeaderOK
<1>4. CASE SendBegin
  <2>1. UNCHANGED <<slot, rd, got, num_readers>> /\ adrift \subseteq adrift'
    BY <1>4 DEF SendBegin, shared
  <2>2. adrift' \subseteq Readers /\ lagged' \subseteq Readers BY <1>4 DEF SendBegin, HeaderOK
  <2>3. left' \in [starts : Nat, joins : [Readers -> Nat], sends : Seq(Sizes)]
    <3>1. left.sends \in Seq(Sizes) /\ left.sends # << >> BY <1>4 DEF SendBegin, HeaderOK
    <3>2. Tail(left.sends) \in Seq(Sizes) BY <3>1
    <3> QED BY <1>4, <3>2 DEF SendBegin, HeaderOK
  <2> QED BY <2>1, <2>2, <2>3 DEF HeaderOK
<1>5. CASE PubKill \/ SendWrap \/ SendCycle \/ SendTag \/ SendData \/ SendDone
           \/ (~(pub.pc \in {"beyond_clear", "evict_clear"}) /\ (SendBeyond \/ SendEvict))
  <2>1. UNCHANGED <<num_readers, slot, rd, left, got, adrift, lagged>>
    BY <1>5 DEF PubKill, SendWrap, SendCycle, SendTag, SendData, SendDone, SendBeyond, SendEvict, Loop,
                shared, history
  <2> QED BY <2>1 DEF HeaderOK
<1> QED BY <1>1, <1>2, <1>3, <1>4, <1>5 DEF PubStep, Send

(* The types that arithmetic needs.                                        *)
LEMMA Numbers ==
    ASSUME MInv
    PROVE  /\ Size \in Nat /\ NUM_READERS \in Nat
           /\ write_pointer.ptr \in 0 .. Size - 1 /\ write_pointer.cycles \in Nat
           /\ pub.size \in Nat /\ Total \in Nat /\ Total > 0 /\ Total = pub.size + 1
           /\ pub.i \in Nat /\ pub.n \in Nat /\ pub.dirty \in BOOLEAN
           /\ \A i \in Slots : slot[i].pointer.ptr \in 0 .. Size - 1 /\ slot[i].pointer.cycles \in Nat
           /\ \A r \in Readers : /\ rd[r].pc \in Slotted => rd[r].id \in Slots
                                 /\ rd[r].id \in Nat
                                 /\ rd[r].rp.ptr \in 0 .. Size - 1 /\ rd[r].rp.cycles \in Nat
                                 /\ rd[r].wp.ptr \in 0 .. Size - 1 /\ rd[r].wp.cycles \in Nat
<1>1. Size \in Nat /\ NUM_READERS \in Nat BY Constants
<1>2. write_pointer.ptr \in 0 .. Size - 1 /\ write_pointer.cycles \in Nat BY DEF MInv, QueueOK, Pointer
<1>3. pub \in PubRecord BY DEF MInv, QueueOK, PubType
<1>4. pub.size \in Nat /\ pub.i \in Nat /\ pub.n \in Nat /\ pub.dirty \in BOOLEAN BY <1>1, <1>3 DEF PubRecord
<1>5. \A i \in Slots : slot[i].pointer.ptr \in 0 .. Size - 1 /\ slot[i].pointer.cycles \in Nat
    BY DEF MInv, HeaderOK, Pointer
<1>6. ASSUME NEW r \in Readers
      PROVE  /\ rd[r].pc \in Slotted => rd[r].id \in Slots
             /\ rd[r].id \in Nat
             /\ rd[r].rp.ptr \in 0 .. Size - 1 /\ rd[r].rp.cycles \in Nat
             /\ rd[r].wp.ptr \in 0 .. Size - 1 /\ rd[r].wp.cycles \in Nat
  <2>1. RdType(r) BY DEF MInv, ReadersOK
  <2> QED BY <1>1, <2>1 DEF RdType, Pointer
<1> QED BY <1>1, <1>2, <1>4, <1>5, <1>6 DEF Total

(* The heart of the protocol: whatever the publisher is about to overwrite *)
(* belongs to no reader whose flag is still on.                            *)
LEMMA StaysSafe ==
    ASSUME MInv, PubStep, NEW r \in Readers, rd[r].pc \in Settled, Live(r), Live(r)',
           NEW p, p = Mine(r).pointer, Placed(r, p),
           rd[r].pc \in Reading => ReadOK(r) /\ rd[r].rp = p
    PROVE  /\ Overlooked(r)' => ~(write_pointer'.ptr < p.ptr /\ p.ptr < write_pointer'.ptr + Total')
           /\ Uncounted(r)' => p.cycles = write_pointer'.cycles /\ p.ptr >= Total'
           /\ rd[r].pc \in Reading /\ Overlooked(r)' => p.ptr # write_pointer'.ptr
<1>1. /\ Size \in Nat /\ write_pointer.ptr \in 0 .. Size - 1 /\ write_pointer.cycles \in Nat
      /\ Total \in Nat /\ Total > 0 /\ pub.i \in Nat /\ pub.n \in Nat
      /\ rd[r].id \in Slots /\ rd[r].id \in Nat /\ rd[r].id > 0 /\ p.ptr \in 0 .. Size - 1 /\ p.cycles \in Nat
  <2>1. rd[r].pc \in Slotted BY DEF Slotted
  <2>2. rd[r].id \in Slots BY <2>1, Numbers
  <2> QED BY <2>2, Numbers DEF Mine, Slots
<1>2. rd' = rd BY PubLeaves DEF MInv
<1>3. pub \in PubRecord BY DEF MInv, QueueOK, PubType
<1>4. pub.dirty => pub.pc \in {"tag", "data", "done", "off", "init", "init_uid"} BY DEF MInv, QueueOK, PubOK
<1>5. CASE /\ write_pointer' = write_pointer /\ Total' = Total
           /\ Overlooked(r)' => Overlooked(r)
           /\ Uncounted(r)' => Uncounted(r)
  BY <1>5 DEF Placed, ReadOK
<1>6. CASE ~Overlooked(r)' /\ ~Uncounted(r)'
  BY <1>6
<1>7. CASE PubStart \/ PubClear
  <2>1. /\ pub'.pc \in {"init", "init_uid", "idle"} /\ (pub'.dirty => pub.dirty /\ pub'.size = pub.size)
        /\ write_pointer' = write_pointer
    <3>1. CASE PubStart BY <1>3, <3>1 DEF PubStart, PubRecord
    <3>2. CASE PubClear /\ pub.pc = "init_uid" /\ pub.i = NUM_READERS
      <4>1. pub' = Idle /\ write_pointer' = write_pointer BY <3>2 DEF PubClear
      <4> QED BY <4>1 DEF Idle
    <3>3. CASE PubClear /\ ~(pub.pc = "init_uid" /\ pub.i = NUM_READERS) BY <1>3, <3>3 DEF PubClear, PubRecord
    <3> QED BY <1>7, <3>1, <3>2, <3>3
  <2>2. CASE pub'.dirty BY <1>5, <2>1, <2>2 DEF Overlooked, Uncounted, Evicting, MayWrap, Total
  <2>3. CASE ~pub'.dirty BY <1>6, <2>1, <2>3 DEF Overlooked, Uncounted, Evicting, MayWrap
  <2> QED BY <2>2, <2>3
<1>8. CASE PubKill
  <2>1. /\ pub'.pc = "off" /\ pub'.dirty = pub.dirty /\ (pub.dirty => pub'.size = pub.size)
        /\ write_pointer' = write_pointer
    BY <1>3, <1>8 DEF PubKill, PubRecord, Idle, shared
  <2>2. CASE pub.dirty BY <1>5, <2>1, <2>2 DEF Overlooked, Uncounted, Evicting, MayWrap, Total
  <2>3. CASE ~pub.dirty BY <1>6, <2>1, <2>3 DEF Overlooked, Uncounted, Evicting, MayWrap
  <2> QED BY <2>2, <2>3
<1>9. CASE SendBegin
  <2>1. /\ pub'.pc \in {"wrap", "evict"} /\ pub'.dirty = pub.dirty /\ ~pub.dirty
        /\ pub'.n = num_readers /\ pub'.i = 1
        /\ rd[r].id > num_readers => r \in adrift'
    BY <1>3, <1>4, <1>9 DEF SendBegin, PubRecord
  <2>2. rd[r].id <= num_readers /\ num_readers \in Nat
    BY <1>1, <2>1, Constants DEF Live, MInv, HeaderOK
  <2>3. rd[r].id \in 1 .. num_readers BY <1>1, <2>2
  <2> QED BY <1>1, <1>2, <1>6, <2>1, <2>2, <2>3 DEF Overlooked, Uncounted, Evicting, MayWrap
<1>10. CASE SendWrap
  <2>1. /\ pub'.pc = "beyond" /\ pub.pc = "wrap" /\ pub'.dirty = pub.dirty /\ pub'.size = pub.size /\ pub'.n = pub.n
        /\ write_pointer' = write_pointer
    BY <1>3, <1>10 DEF SendWrap, PubRecord
  <2> QED BY <1>2, <1>4, <1>5, <2>1 DEF Overlooked, Uncounted, Evicting, MayWrap, Total
<1>11. CASE SendBeyond
  <2>1. /\ pub'.pc \in {"beyond", "beyond_clear", "cycle"} /\ pub.pc \in {"beyond", "beyond_clear"}
        /\ ~pub'.dirty /\ pub'.size = pub.size /\ pub'.n = pub.n
        /\ write_pointer' = write_pointer
    BY <1>3, <1>4, <1>11 DEF SendBeyond, Loop, PubRecord, shared
  <2> QED BY <1>2, <1>4, <1>5, <2>1 DEF Overlooked, Uncounted, Evicting, MayWrap, Total
<1>12. CASE SendCycle
  <2>1. /\ pub'.pc = "evict" /\ pub.pc = "cycle" /\ pub'.dirty = pub.dirty /\ pub'.size = pub.size
        /\ pub'.n = pub.n /\ pub'.i = 1 /\ write_pointer'.ptr = 0
    BY <1>3, <1>12 DEF SendCycle, PubRecord
  <2>2. ~Uncounted(r)' BY <2>1 DEF Uncounted, MayWrap
  <2>3. Total' = Total BY <2>1 DEF Total
  <2>4. Overlooked(r)' => rd[r].id > pub.n
    BY <1>1, <1>2, <1>4, <2>1 DEF Overlooked, Evicting
  <2>5. rd[r].id > pub.n => p.ptr >= Total BY <2>1 DEF Placed, Uncounted, MayWrap
  <2> QED BY <1>1, <2>1, <2>2, <2>3, <2>4, <2>5
<1>13. CASE SendEvict
  <2>1. /\ pub'.pc \in {"evict", "evict_clear", "tag"} /\ pub.pc \in {"evict", "evict_clear"}
        /\ pub'.size = pub.size /\ pub'.n = pub.n /\ write_pointer' = write_pointer
        /\ Total' = Total /\ ~Uncounted(r)' /\ ~pub.dirty
    BY <1>3, <1>4, <1>13 DEF SendEvict, Loop, PubRecord, shared, Uncounted, MayWrap, Total
  <2>2. CASE pub.pc = "evict" /\ pub.i <= pub.n /\ InTheWay(slot[pub.i].pointer)
    <3>1. pub'.pc = "evict_clear" /\ pub'.i = pub.i /\ ~pub'.dirty
      BY <1>3, <2>1, <2>2, <1>13 DEF SendEvict, Loop, PubRecord
    <3> QED BY <1>2, <1>5, <2>1, <2>2, <3>1 DEF Overlooked, Evicting
  <2>3. CASE pub.pc = "evict" /\ pub.i <= pub.n /\ ~InTheWay(slot[pub.i].pointer)
    <3>1. pub'.pc = "evict" /\ pub'.i = pub.i + 1 /\ ~pub'.dirty
      BY <1>3, <2>1, <2>3, <1>13 DEF SendEvict, Loop, PubRecord
    <3>2. CASE rd[r].id # pub.i
      <4>1. rd[r].id \in pub.i .. pub.n => rd[r].id \in pub.i + 1 .. pub.n BY <1>1, <3>2
      <4> QED BY <1>2, <1>5, <2>1, <2>3, <3>1, <4>1 DEF Overlooked, Evicting
    <3>3. CASE rd[r].id = pub.i
      <4>1. ~InTheWay(p) BY <2>3, <3>3 DEF Mine
      <4>2. p.ptr < write_pointer.ptr \/ p.ptr >= write_pointer.ptr + Total \/ p.cycles = write_pointer.cycles
        BY <1>1, <4>1 DEF InTheWay
      <4>3. p.cycles = write_pointer.cycles => p.ptr <= write_pointer.ptr BY <1>1 DEF Placed, UpTo
      <4>4. rd[r].pc \in Reading => Before(p, write_pointer) BY DEF ReadOK
      <4> QED BY <1>1, <2>1, <4>2, <4>3, <4>4 DEF Before
    <3> QED BY <3>2, <3>3
  <2>4. CASE pub.pc = "evict" /\ pub.i > pub.n
    <3>1. rd[r].id \notin pub.i .. pub.n BY <1>1, <2>4
    <3>2. Overlooked(r) BY <2>4, <3>1 DEF Overlooked, Evicting
    <3> QED BY <1>5, <2>1, <3>2
  <2>5. CASE pub.pc = "evict_clear"
    <3>1. /\ pub'.pc = "evict" /\ pub'.i = pub.i + 1 /\ ~pub'.dirty
          /\ slot' = [slot EXCEPT ![pub.i].valid = FALSE]
      BY <1>3, <2>1, <2>5, <1>13 DEF SendEvict, Loop, PubRecord
    <3>2. rd[r].id # pub.i
      <4>1. pub.i \in Slots => ~slot'[pub.i].valid BY <3>1 DEF MInv, HeaderOK
      <4> QED BY <1>1, <1>2, <4>1 DEF Live, Mine
    <3>3. rd[r].id \in pub.i .. pub.n => rd[r].id \in pub.i + 1 .. pub.n BY <1>1, <3>2
    <3> QED BY <1>2, <1>5, <2>1, <2>5, <3>1, <3>3 DEF Overlooked, Evicting
  <2> QED BY <1>1, <2>1, <2>2, <2>3, <2>4, <2>5
<1>14. CASE SendTag \/ SendData
  <2>1. /\ pub'.pc \in {"data", "done"} /\ pub.pc \in {"tag", "data"} /\ pub'.size = pub.size
        /\ write_pointer' = write_pointer
    BY <1>3, <1>14 DEF SendTag, SendData, PubRecord
  <2>2. pub.dirty BY <2>1 DEF MInv, QueueOK, PubOK
  <2> QED BY <1>5, <2>1, <2>2 DEF Overlooked, Uncounted, MayWrap, Total
<1>15. CASE SendDone
  <2>1. pub'.pc = "idle" /\ ~pub'.dirty BY <1>15 DEF SendDone, Idle
  <2> QED BY <1>6, <2>1 DEF Overlooked, Uncounted, Evicting, MayWrap
<1> QED BY <1>7, <1>8, <1>9, <1>10, <1>11, <1>12, <1>13, <1>14, <1>15 DEF PubStep, Send

(* A pointer behind the write pointer stays behind it.                     *)
LEMMA OrderStays ==
    ASSUME MInv, PubStep, NEW p, p.cycles \in Nat, p.ptr \in Nat
    PROVE  /\ UpTo(p, write_pointer) => UpTo(p, write_pointer')
           /\ Before(p, write_pointer) => Before(p, write_pointer')
           /\ p.cycles < write_pointer.cycles => p.cycles < write_pointer'.cycles
<1>1. write_pointer.ptr \in Nat /\ write_pointer.cycles \in Nat BY Numbers
<1>2. \/ write_pointer' = write_pointer
      \/ write_pointer'.cycles = write_pointer.cycles + 1 /\ write_pointer'.ptr = 0
      \/ /\ Total \in Nat /\ write_pointer'.cycles = write_pointer.cycles
         /\ write_pointer'.ptr = write_pointer.ptr + Total
    BY PointerMoves DEF MInv
<1> QED BY <1>1, <1>2 DEF UpTo, Before

(* What a reader is reading is not what the publisher is writing.          *)
LEMMA ReadStays ==
    ASSUME MInv, PubStep, Keeps, NEW r \in Readers, rd[r].pc \in Reading, Live(r), Live(r)',
           rd[r].rp = Mine(r).pointer, Placed(r, rd[r].rp), ReadOK(r)
    PROVE  ReadOK(r)'
<1> SUFFICES ASSUME NEW p, p = rd[r].rp PROVE ReadOK(r)'
    OBVIOUS
<1> DEFINE w == rd[r].buf[1]
<1>1. /\ Size \in Nat /\ write_pointer.ptr \in 0 .. Size - 1 /\ write_pointer.cycles \in Nat
      /\ Total \in Nat /\ Total > 0 /\ p.ptr \in 0 .. Size - 1 /\ p.cycles \in Nat
      /\ rd[r].wp.ptr \in 0 .. Size - 1 /\ rd[r].wp.cycles \in Nat
    BY Numbers
<1>2. rd' = rd BY PubLeaves DEF MInv
<1>3. Clear(p.ptr) /\ (pub.dirty => p.ptr # write_pointer.ptr)
    BY <1>1 DEF Placed, ReadOK, Overlooked, Clear
<1>4. Before(p, write_pointer)' BY <1>1, OrderStays DEF ReadOK, Before
<1>5. Overlooked(r)' => p.ptr # write_pointer'.ptr
  <2>1. rd[r].pc \in Settled BY DEF Settled, Checked
  <2> QED BY <2>1, StaysSafe
<1>6. ASSUME NEW n, Fits(p.ptr, n) PROVE Fits(p.ptr, n)' /\ (PayloadAt(p.ptr, n) => PayloadAt(p.ptr, n)')
  <2>1. n \in Sizes BY <1>6 DEF Fits
  <2> QED BY <1>1, <1>3, <1>6, <2>1 DEF Keeps
<1>7. rd[r].pc = "size" => Readable(p.ptr)'
  <2> SUFFICES ASSUME rd[r].pc = "size" PROVE Readable(p.ptr)' OBVIOUS
  <2>1. Readable(p.ptr) BY DEF ReadOK
  <2>2. ring'[p.ptr] \in {ring[p.ptr], WrapTag} BY <1>1, <1>3 DEF Keeps
  <2> QED BY <1>6, <2>1, <2>2 DEF Readable
<1>8. rd[r].pc = "trust" => \/ w = WrapTag /\ p.cycles < write_pointer'.cycles
                            \/ w.kind = "size" /\ Fits(p.ptr, w.n)' /\ PayloadAt(p.ptr, w.n)'
    BY <1>1, <1>2, <1>6, OrderStays DEF ReadOK
<1>9. rd[r].pc = "advance" => Ahead(r, rd[r].wp)'
  <2> SUFFICES ASSUME rd[r].pc = "advance", NEW q, q = rd[r].wp PROVE Ahead(r, q)'
    BY <1>2
  <2>1. Ahead(r, q) BY DEF ReadOK
  <2>2. UpTo(q, write_pointer)' BY <1>1, <2>1, OrderStays DEF Ahead, UpTo
  <2>3. Clear(q.ptr) BY <1>1, <1>3, <2>1 DEF Clear, Ahead
  <2>4. Boundary(q.ptr)' BY <1>1, <2>1, <2>3 DEF Ahead, Keeps
  <2>5. p.ptr < write_pointer'.ptr /\ (p.ptr < write_pointer.ptr => q.ptr <= write_pointer.ptr)
          => q.ptr <= write_pointer'.ptr
    <3>1. \/ write_pointer' = write_pointer
          \/ write_pointer'.ptr = 0
          \/ pub.dirty /\ write_pointer'.ptr = write_pointer.ptr + Total
      BY PointerMoves DEF MInv
    <3> QED BY <1>1, <1>3, <3>1 DEF Clear
  <2> QED BY <1>2, <2>1, <2>2, <2>4, <2>5 DEF Ahead
<1>10. rd[r].pc \in {"copy", "store"} =>
           /\ Fits(p.ptr, rd[r].size)' /\ PayloadAt(p.ptr, rd[r].size)'
           /\ \A k \in 1 .. Len(rd[r].buf) : rd[r].buf[k] = ring'[p.ptr + k]
  <2> SUFFICES ASSUME rd[r].pc \in {"copy", "store"}, NEW n, n = rd[r].size
               PROVE  /\ Fits(p.ptr, n)' /\ PayloadAt(p.ptr, n)'
                      /\ \A k \in 1 .. Len(rd[r].buf) : rd[r].buf[k] = ring'[p.ptr + k]
    BY <1>2
  <2>1. Fits(p.ptr, n) /\ PayloadAt(p.ptr, n) BY DEF ReadOK
  <2>2. Len(rd[r].buf) \in Nat /\ Len(rd[r].buf) <= n /\ n \in Nat /\ n \in Sizes
    BY Constants DEF MInv, ReadersOK, RdType
  <2>3. \A k \in 1 .. n : ring'[p.ptr + k] = ring[p.ptr + k] BY <1>1, <1>3, <2>1, <2>2 DEF Keeps
  <2>4. \A k \in 1 .. Len(rd[r].buf) : k \in 1 .. n /\ rd[r].buf[k] = ring[p.ptr + k] BY <2>2 DEF ReadOK
  <2> QED BY <1>6, <2>1, <2>3, <2>4
<1> QED BY <1>2, <1>4, <1>5, <1>7, <1>8, <1>9, <1>10 DEF ReadOK

(* What it has read is a message, whatever is published after it.          *)
LEMMA WholeStays ==
    ASSUME MInv, PubStep, NEW r \in Readers, Whole(r)
    PROVE  Whole(r)'
<1>1. rd' = rd BY PubLeaves DEF MInv
<1>2. log' = log \/ (pub.size \in Nat /\ log' = Append(log, pub.size))
    BY Numbers DEF PubStep, Send, PubStart, PubClear, PubKill, SendBegin, SendWrap, SendBeyond, SendEvict, Loop,
        SendCycle, SendTag, SendData, SendDone, history
<1>3. PICK m \in 1 .. Len(log) : rd[r].buf = Message(m) BY DEF Whole
<1>4. log \in Seq(Sizes) /\ Len(log) \in Nat BY DEF MInv, QueueOK
<1>5. m \in 1 .. Len(log') /\ log'[m] = log[m] BY <1>2, <1>3, <1>4
<1> QED BY <1>1, <1>3, <1>5 DEF Whole, Message

(* A reader under a step of the publisher.                                 *)
LEMMA PubKeepsReader ==
    ASSUME MInv, PubStep, Keeps, NEW r \in Readers
    PROVE  RdType(r)' /\ ReaderOK(r)'
<1>1. /\ rd' = rd /\ adrift \subseteq adrift'
      /\ \A i \in Slots : /\ slot'[i].pointer = slot[i].pointer
                          /\ slot'[i].valid => slot[i].valid
                          /\ slot'[i].uid \in {slot[i].uid, Nobody}
    BY PubLeaves DEF MInv
<1>2. RdType(r) /\ ReaderOK(r) BY DEF MInv, ReadersOK
<1>3. RdType(r)' BY <1>1, <1>2 DEF RdType
<1>4. rd[r].pc \in Settled => rd[r].id \in Slots BY Numbers DEF Slotted
<1>5. rd[r].pc \in Settled => /\ Mine(r)'.pointer = Mine(r).pointer
                              /\ Live(r)' => Live(r)
                              /\ r \notin adrift' => r \notin adrift
    BY <1>1, <1>4, NobodyAssumption DEF Mine, Live
<1>6. Checked \subseteq Settled /\ {"compare"} \cup Reading \subseteq Checked /\ "final" \in Checked
    BY DEF Settled, Checked
<1>7. ASSUME rd[r].pc \in Settled, Live(r)' PROVE Placed(r, Mine(r).pointer)'
  <2> SUFFICES ASSUME NEW p, p = Mine(r).pointer PROVE Placed(r, p)'
    BY <1>5, <1>7
  <2>1. Live(r) /\ Placed(r, p) BY <1>2, <1>5, <1>7 DEF ReaderOK
  <2>2. /\ Size \in Nat /\ p.ptr \in 0 .. Size - 1 /\ p.cycles \in Nat /\ write_pointer.ptr \in Nat /\ Total \in Nat
    BY <1>4, <1>7, Numbers DEF Mine
  <2>3. UpTo(p, write_pointer)' BY <2>1, <2>2, OrderStays DEF Placed, UpTo
  <2>4. Clear(p.ptr) BY <2>1, <2>2 DEF Placed, Overlooked, Clear
  <2>5. Boundary(p.ptr)' BY <2>1, <2>2, <2>4 DEF Placed, Keeps
  <2>6. rd[r].pc \in Reading => ReadOK(r) /\ rd[r].rp = p BY <1>2, <2>1 DEF ReaderOK
  <2>7. /\ Overlooked(r)' => ~(write_pointer'.ptr < p.ptr /\ p.ptr < write_pointer'.ptr + Total')
        /\ Uncounted(r)' => p.cycles = write_pointer'.cycles /\ p.ptr >= Total'
    BY <1>7, <2>1, <2>6, StaysSafe
  <2> QED BY <2>3, <2>5, <2>7 DEF Placed
<1>9. ASSUME rd[r].pc \in {"compare"} \cup Reading, Live(r)' PROVE rd[r].rp = Mine(r)'.pointer
  BY <1>2, <1>5, <1>6, <1>9 DEF ReaderOK
<1>10. ASSUME rd[r].pc \in Reading, Live(r)' PROVE ReadOK(r)'
  <2>1. rd[r].pc \in Settled /\ Live(r) BY <1>5, <1>6, <1>10
  <2>2. rd[r].rp = Mine(r).pointer /\ Placed(r, rd[r].rp) /\ ReadOK(r) BY <1>2, <1>10, <2>1 DEF ReaderOK
  <2> QED BY <1>10, <2>1, <2>2, ReadStays
<1>11. ASSUME rd[r].pc = "final", Live(r)' PROVE Whole(r)'
  BY <1>2, <1>5, <1>6, <1>11, WholeStays DEF ReaderOK
<1>12. rd[r].pc = "crashed" => r \in adrift' BY <1>1, <1>2 DEF ReaderOK
<1>13. ReaderOK(r)' BY <1>1, <1>7, <1>9, <1>10, <1>11, <1>12 DEF ReaderOK
<1> QED BY <1>3, <1>13

(* A reset under a step of the publisher: the pointer it has loaded stays  *)
(* a boundary until the publisher has written over it.                     *)
LEMMA PubKeepsReset ==
    ASSUME MInv, PubStep, Keeps, NEW r \in Readers
    PROVE  ResetOK(r)'
<1>1. /\ rd' = rd
      /\ \A i \in Slots : slot'[i].uid \in {slot[i].uid, Nobody}
    BY PubLeaves DEF MInv
<1> SUFFICES ASSUME rd[r].pc = "reset_store", Mine(r)'.uid = r, NEW q, q = rd[r].wp
             PROVE  /\ UpTo(q, write_pointer')
                    /\ WithinLap(q)' => Boundary(q.ptr)'
                    /\ pub'.pc \in {"init", "init_uid"} /\ rd[r].id < pub'.i => q = write_pointer'
    BY <1>1 DEF ResetOK, UpTo
<1>2. rd[r].id \in Slots /\ rd[r].id \in Nat BY Numbers DEF Slotted
<1>3. Mine(r).uid = r BY <1>1, <1>2, NobodyAssumption DEF Mine
<1>4. /\ UpTo(q, write_pointer) /\ (WithinLap(q) => Boundary(q.ptr))
      /\ pub.pc \in {"init", "init_uid"} /\ rd[r].id < pub.i => q = write_pointer
    BY <1>3 DEF MInv, ReadersOK, ResetOK
<1>5. /\ Size \in Nat /\ NUM_READERS \in Nat /\ q.ptr \in 0 .. Size - 1 /\ q.cycles \in Nat
      /\ write_pointer.ptr \in 0 .. Size - 1 /\ write_pointer.cycles \in Nat /\ Total \in Nat /\ pub.i \in Nat
      /\ pub \in PubRecord
    BY Numbers DEF MInv, QueueOK, PubType
<1>6. UpTo(q, write_pointer') BY <1>4, <1>5, OrderStays
<1>7. CASE PubClear
  <2>1. /\ pub.pc \in {"init", "init_uid"} /\ write_pointer' = write_pointer /\ pub.i \in Slots
        /\ pub.pc = "init" \/ pub.pc = "init_uid"
    BY <1>7 DEF PubClear, MInv, QueueOK, PubType
  <2>2. pub.pc = "init_uid" => rd[r].id # pub.i
    <3>1. pub.pc = "init_uid" => slot'[pub.i].uid = Nobody BY <1>7, <2>1 DEF PubClear, MInv, HeaderOK
    <3> QED BY <1>1, <3>1, NobodyAssumption DEF Mine
  <2>3. rd[r].id < pub.i => q = write_pointer BY <1>4, <2>1
  <2>4. CASE pub.pc = "init_uid" /\ pub.i = NUM_READERS
    <3>1. pub' = Idle BY <1>7, <2>4 DEF PubClear
    <3>2. q = write_pointer BY <1>2, <1>5, <2>2, <2>3, <2>4 DEF Slots
    <3> QED BY <1>6, <2>1, <3>1, <3>2 DEF Idle, Boundary
  <2>5. CASE ~(pub.pc = "init_uid" /\ pub.i = NUM_READERS)
    <3>1. /\ pub'.pc \in {"init", "init_uid"} /\ pub'.dirty = pub.dirty /\ pub'.size = pub.size
          /\ pub'.i = IF pub.pc = "init" THEN pub.i ELSE pub.i + 1
      BY <1>5, <1>7, <2>1, <2>5 DEF PubClear, PubRecord
    <3>2. rd[r].id < pub'.i => q = write_pointer' BY <1>2, <1>5, <2>1, <2>2, <2>3, <3>1
    <3>3. WithinLap(q)' => WithinLap(q) BY <2>1, <3>1 DEF WithinLap, Total
    <3>4. Boundary(q.ptr) => Boundary(q.ptr)' BY <1>7, <2>1 DEF PubClear, Boundary
    <3> QED BY <1>4, <1>6, <3>2, <3>3, <3>4
  <2> QED BY <2>4, <2>5
<1>8. CASE ~PubClear
  <2>1. pub'.pc \in {"init", "init_uid"} => pub'.i = 1
    <3>1. CASE PubStart BY <1>5, <3>1 DEF PubStart, PubRecord
    <3>2. CASE ~PubStart /\ ~PubKill /\ ~SendDone
      BY <1>5, <1>8, <3>2 DEF PubStep, Send, SendBegin, SendWrap, SendBeyond, SendEvict, Loop,
                              SendCycle, SendTag, SendData, PubRecord
    <3>3. CASE PubKill BY <3>3 DEF PubKill, Idle
    <3>4. CASE SendDone
      <4>1. pub' = Idle BY <3>4 DEF SendDone
      <4> QED BY <4>1 DEF Idle
    <3> QED BY <3>1, <3>2, <3>3, <3>4
  <2>2. pub'.pc \in {"init", "init_uid"} => ~(rd[r].id < pub'.i) BY <1>2, <2>1 DEF Slots
  <2>3. WithinLap(q)' => WithinLap(q)
    <3>1. CASE SendCycle
      <4>1. /\ write_pointer'.cycles = write_pointer.cycles + 1
        BY <3>1 DEF SendCycle
      <4>2. q.cycles <= write_pointer.cycles BY <1>4, <1>5 DEF UpTo
      <4> QED BY <1>5, <4>1, <4>2 DEF WithinLap
    <3>2. CASE SendDone
      <4>1. /\ write_pointer'.cycles = write_pointer.cycles
            /\ write_pointer'.ptr = write_pointer.ptr + Total
        BY <1>5, <3>2, PointerMoves DEF MInv, SendDone, SendCycle, QueueOK, Pointer
      <4>2. pub.dirty /\ ~pub'.dirty BY <3>2 DEF SendDone, Idle, MInv, QueueOK, PubOK
      <4> QED BY <1>5, <4>1, <4>2 DEF WithinLap
    <3>3. CASE ~SendCycle /\ ~SendDone
      <4>1. write_pointer' = write_pointer BY <3>3, PointerMoves DEF MInv
      <4>2. pub.dirty => pub'.dirty /\ pub'.size = pub.size
        <5>1. pub.dirty => pub.pc \in {"tag", "data", "done", "off", "init", "init_uid"} BY DEF MInv, QueueOK, PubOK
        <5>2. CASE PubKill BY <1>5, <5>2 DEF PubKill, Idle, PubRecord
        <5>3. CASE ~PubKill
          BY <1>5, <1>8, <3>3, <5>1, <5>3 DEF PubStep, Send, PubStart, SendBegin, SendWrap, SendBeyond,
             SendEvict, Loop, SendTag, SendData, PubRecord
        <5> QED BY <5>2, <5>3
      <4>3. pub'.dirty => pub'.size \in Nat
        <5>1. pub' \in PubRecord BY QueueStep DEF MInv, QueueOK, PubType
        <5> QED BY <5>1 DEF PubRecord
      <4>4. CASE pub.dirty BY <4>1, <4>2, <4>4 DEF WithinLap, Total
      <4>5. CASE ~pub.dirty BY <1>5, <4>1, <4>3, <4>5 DEF WithinLap, Total
      <4> QED BY <4>4, <4>5
    <3> QED BY <3>1, <3>2, <3>3
  <2>4. WithinLap(q) => Clear(q.ptr) BY <1>4, <1>5 DEF WithinLap, Clear, UpTo
  <2>5. WithinLap(q)' => Boundary(q.ptr)' BY <1>4, <1>5, <2>3, <2>4 DEF Keeps
  <2> QED BY <1>6, <2>2, <2>5
<1> QED BY <1>7, <1>8

(* The publisher keeps the invariant.                                      *)
LEMMA PubKeeps == ASSUME MInv, PubStep PROVE MInv'
<1>1. QueueOK' /\ Keeps BY QueueStep DEF MInv
<1>2. HeaderOK' /\ rd' = rd /\ got' = got BY PubLeaves DEF MInv
<1>3. Len(log') \in Nat /\ Len(log') >= Len(log)
  <2>1. log \in Seq(Sizes) BY DEF MInv, QueueOK
  <2>2. log' = log \/ log' = Append(log, pub.size)
    BY DEF PubStep, Send, PubStart, PubClear, PubKill, SendBegin, SendWrap, SendBeyond, SendEvict, Loop,
        SendCycle, SendTag, SendData, SendDone, history
  <2>3. log' \in Seq(Sizes) BY <1>1 DEF QueueOK
  <2>4. pub.size \in Nat /\ Len(log) \in Nat BY <2>1, Numbers
  <2> QED BY <2>1, <2>2, <2>3, <2>4
<1>4. GotOK' BY <1>2, <1>3 DEF MInv, GotOK, QueueOK
<1>5. ReadersOK' BY <1>1, PubKeepsReader, PubKeepsReset DEF ReadersOK
<1> QED BY <1>1, <1>2, <1>4, <1>5 DEF MInv
----------------------------------------------------------------------------
(* Steps of a reader: what they leave of the queue, of the other readers   *)
(* and of the slots of those that do not share its own.                    *)
LeavesOthers(r) ==
    /\ UNCHANGED <<write_pointer, ring, pub, log>>
    /\ rd' = [q \in Readers |-> rd'[q]]
    /\ \A q \in Readers \ {r} :
           /\ rd'[q] = rd[q]
           /\ q \notin adrift' => q \notin adrift
           /\ \A i \in Slots : slot'[i].uid = q => slot[i].uid = q
           /\ q \notin adrift' /\ rd[q].id \in Slots =>
                  /\ slot'[rd[q].id].pointer = slot[rd[q].id].pointer
                  /\ slot'[rd[q].id].valid => slot[rd[q].id].valid

(* One reader's record is changed.                                         *)
LEMMA RdUpdate ==
    ASSUME MInv, NEW r \in Readers, NEW v, rd' = [rd EXCEPT ![r] = v]
    PROVE  /\ rd'[r] = v
           /\ \A q \in Readers \ {r} : rd'[q] = rd[q]
           /\ rd' = [q \in Readers |-> rd'[q]]
<1>1. rd = [q \in Readers |-> rd[q]] BY DEF MInv
<1> QED BY <1>1

(* The others keep what the invariant says of them.                        *)
LEMMA OthersKeep ==
    ASSUME MInv, NEW r \in Readers, LeavesOthers(r), NEW q \in Readers \ {r}
    PROVE  RdType(q)' /\ ReaderOK(q)' /\ ResetOK(q)'
<1>1. /\ UNCHANGED <<write_pointer, ring, pub, log>> /\ rd'[q] = rd[q]
      /\ q \notin adrift' => q \notin adrift
      /\ \A i \in Slots : slot'[i].uid = q => slot[i].uid = q
      /\ q \notin adrift' /\ rd[q].id \in Slots =>
                  /\ slot'[rd[q].id].pointer = slot[rd[q].id].pointer
                  /\ slot'[rd[q].id].valid => slot[rd[q].id].valid
    BY DEF LeavesOthers
<1>2. RdType(q) /\ ReaderOK(q) /\ ResetOK(q) BY DEF MInv, ReadersOK
<1>3. RdType(q)' BY <1>1, <1>2 DEF RdType
<1>4. rd[q].pc \in Settled \cup {"reset_store"} => rd[q].id \in Slots BY Numbers DEF Slotted
<1>5. Settled = {"idle", "start"} \cup Checked /\ Checked = {"valid", "compare", "final"} \cup Reading
    BY DEF Settled, Checked
<1>6. rd[q].pc \in Settled /\ q \notin adrift' =>
          /\ Mine(q)'.pointer = Mine(q).pointer
          /\ Mine(q)'.valid => Mine(q).valid
          /\ Mine(q)'.uid = q => Mine(q).uid = q
    BY <1>1, <1>4 DEF Mine
<1>7. rd[q].pc \in Settled /\ Live(q)' => Live(q) /\ Mine(q)'.pointer = Mine(q).pointer
    BY <1>1, <1>6 DEF Live
<1>8. ASSUME NEW p PROVE Placed(q, p)' <=> Placed(q, p)
    BY <1>1 DEF Placed, UpTo, Boundary, Overlooked, Uncounted, Evicting, Total
<1>9. ReadOK(q)' <=> ReadOK(q)
    BY <1>1 DEF ReadOK, Before, Overlooked, Evicting, Readable, Fits, PayloadAt, Boundary, Ahead, UpTo
<1>10. Whole(q)' <=> Whole(q) BY <1>1 DEF Whole, Message
<1>11. ReaderOK(q)'
  <2>1. rd[q].pc \in Settled /\ Live(q)' => Placed(q, Mine(q).pointer)'
    <3> SUFFICES ASSUME rd[q].pc \in Settled, Live(q)', NEW p, p = Mine(q).pointer PROVE Placed(q, p)'
      BY <1>7
    <3> QED BY <1>2, <1>7, <1>8 DEF ReaderOK
  <2>3. rd[q].pc \in {"compare"} \cup Reading /\ Live(q)' => rd[q].rp = Mine(q)'.pointer
    BY <1>2, <1>5, <1>7 DEF ReaderOK
  <2>4. rd[q].pc \in Reading /\ Live(q)' => ReadOK(q)' BY <1>2, <1>5, <1>7, <1>9 DEF ReaderOK
  <2>5. rd[q].pc = "final" /\ Live(q)' => Whole(q)' BY <1>2, <1>5, <1>7, <1>10 DEF ReaderOK
  <2>6. rd[q].pc = "crashed" => q \in adrift' BY <1>1, <1>2 DEF ReaderOK
  <2> QED BY <1>1, <2>1, <2>3, <2>4, <2>5, <2>6 DEF ReaderOK
<1>12. ResetOK(q)'
  <2>1. rd[q].pc = "reset_store" /\ Mine(q)'.uid = q => Mine(q).uid = q BY <1>1, <1>4 DEF Mine
  <2> QED BY <1>1, <1>2, <2>1 DEF ResetOK, UpTo, WithinLap, Boundary, Total
<1> QED BY <1>3, <1>11, <1>12

(* Each step changes one reader's record.                                  *)
LEMMA OneReader ==
    ASSUME MInv, NEW r \in Readers, Reader(r)
    PROVE  /\ UNCHANGED <<write_pointer, ring, pub, log>>
           /\ \A q \in Readers \ {r} : rd'[q] = rd[q]
           /\ rd' = [q \in Readers |-> rd'[q]]
<1>1. rd = [q \in Readers |-> rd[q]] BY DEF MInv
<1>2. CASE SubStart(r) BY <1>1, <1>2 DEF SubStart, Goto, shared, history
<1>3. CASE SubKill(r) BY <1>1, <1>3 DEF SubKill, shared
<1>4. CASE Claim(r) BY <1>1, <1>4 DEF Claim, history
<1>5. CASE EvictBegin(r) \/ EvictAll(r)
  <2>1. \E v : rd' = [rd EXCEPT ![r] = v]
    <3>1. CASE EvictBegin(r) BY <3>1 DEF EvictBegin
    <3>2. CASE EvictAll(r) /\ rd[r].pc = "evict" BY <3>2 DEF EvictAll, Goto
    <3>3. CASE EvictAll(r) /\ rd[r].pc = "evict_uid" /\ rd[r].size = NUM_READERS BY <3>3 DEF EvictAll
    <3>4. CASE EvictAll(r) /\ rd[r].pc = "evict_uid" /\ rd[r].size # NUM_READERS BY <3>4 DEF EvictAll
    <3> QED BY <1>5, <3>1, <3>2, <3>3, <3>4 DEF EvictAll
  <2> QED BY <1>1, <1>5, <2>1 DEF EvictBegin, EvictAll, history
<1>6. CASE Enter(r) BY <1>1, <1>6 DEF Enter
<1>7. CASE ResetValid(r) BY <1>1, <1>7 DEF ResetValid, Goto
<1>8. CASE ResetLoad(r) BY <1>1, <1>8 DEF ResetLoad, shared
<1>9. CASE ResetStore(r) BY <1>1, <1>9 DEF ResetStore, Clean
<1>10. CASE CheckUid(r) BY <1>1, <1>10 DEF CheckUid, Goto, shared, history
<1>11. CASE CheckValid(r) BY <1>1, <1>11 DEF CheckValid, Clean, shared
<1>12. CASE Compare(r) BY <1>1, <1>12 DEF Compare, Clean, shared, history
<1>13. CASE LoadSize(r) BY <1>1, <1>13 DEF LoadSize, shared, history
<1>14. CASE Trust(r) BY <1>1, <1>14 DEF Trust, Clean, Goto, shared, history
<1>15. CASE Advance(r) BY <1>1, <1>15 DEF Advance, Clean
<1>16. CASE Copy(r)
  <2>1. \/ rd' = [rd EXCEPT ![r].pc = "store"] \/ rd' = [rd EXCEPT ![r].pc = "crashed"]
        \/ rd' = [rd EXCEPT ![r].buf = Append(@, ring[rd[r].rp.ptr + Len(rd[r].buf) + 1])]
    BY <1>16 DEF Copy
  <2> QED BY <1>1, <1>16, <2>1 DEF Copy, shared, history
<1>17. CASE Store(r) BY <1>1, <1>17 DEF Store, Goto
<1>18. CASE Final(r) BY <1>1, <1>18 DEF Final, Clean, shared
<1> QED BY <1>2, <1>3, <1>4, <1>5, <1>6, <1>7, <1>8, <1>9, <1>10, <1>11, <1>12, <1>13, <1>14, <1>15,
           <1>16, <1>17, <1>18 DEF Reader, Recv

(* What each step does to the header, and to nobody else's slot.           *)
LEMMA ReaderLeaves ==
    ASSUME MInv, NEW r \in Readers, Reader(r)
    PROVE  LeavesOthers(r) /\ HeaderOK'
<1>1. /\ UNCHANGED <<write_pointer, ring, pub, log>>
      /\ \A q \in Readers \ {r} : rd'[q] = rd[q]
      /\ rd' = [q \in Readers |-> rd'[q]]
    BY OneReader
<1>2. HeaderOK /\ RdType(r) BY DEF MInv, ReadersOK
<1>3. rd[r].wp \in Pointer /\ rd[r].rp \in Pointer BY <1>2 DEF RdType
<1>4. CASE SubStart(r) \/ SubKill(r) \/ Claim(r) \/ EvictBegin(r) \/ ResetLoad(r) \/ CheckUid(r)
           \/ CheckValid(r) \/ Compare(r) \/ LoadSize(r) \/ Trust(r) \/ Copy(r) \/ Final(r)
  <2>1. slot' = slot /\ adrift \ {r} \subseteq adrift'
    BY <1>4 DEF SubStart, SubKill, Claim, EvictBegin, ResetLoad, CheckUid, CheckValid, Compare, LoadSize, Trust, Copy,
                Final, shared, history
  <2>2. LeavesOthers(r) BY <1>1, <2>1 DEF LeavesOthers
  <2>3. num_readers' \in 0 .. NUM_READERS
    <3>1. num_readers \in 0 .. NUM_READERS /\ NUM_READERS \in Nat BY <1>2, Constants DEF HeaderOK
    <3>2. CASE Claim(r) \/ EvictBegin(r) BY <3>1, <3>2 DEF Claim, EvictBegin
    <3>3. CASE ~Claim(r) /\ ~EvictBegin(r)
      <4>1. num_readers' = num_readers
        BY <1>4, <3>3 DEF SubStart, SubKill, ResetLoad, CheckUid, CheckValid, Compare, LoadSize, Trust, Copy,
                          Final, shared
      <4> QED BY <3>1, <4>1
    <3> QED BY <3>2, <3>3
  <2>4. lagged' \subseteq Readers /\ adrift' \subseteq Readers
    BY <1>2, <1>4 DEF SubStart, SubKill, Claim, EvictBegin, ResetLoad, CheckUid, CheckValid, Compare, LoadSize, Trust, Copy,
                      Final, history, HeaderOK
  <2>5. left' \in [starts : Nat, joins : [Readers -> Nat], sends : Seq(Sizes)]
    <3>1. left \in [starts : Nat, joins : [Readers -> Nat], sends : Seq(Sizes)] BY <1>2 DEF HeaderOK
    <3>2. CASE SubStart(r)
      <4>1. left' = [left EXCEPT !.joins[r] = left.joins[r] - 1] /\ left.joins[r] > 0 BY <3>2 DEF SubStart
      <4>2. left.joins[r] - 1 \in Nat BY <3>1, <4>1
      <4>3. [left.joins EXCEPT ![r] = left.joins[r] - 1] \in [Readers -> Nat] BY <3>1, <4>2
      <4>4. left' = [left EXCEPT !.joins = [left.joins EXCEPT ![r] = left.joins[r] - 1]] BY <4>1
      <4> QED BY <3>1, <4>3, <4>4
    <3>3. CASE ~SubStart(r)
      <4>1. left' = left
        BY <1>4, <3>3 DEF SubKill, Claim, EvictBegin, ResetLoad, CheckUid, CheckValid, Compare, LoadSize, Trust, Copy, Final
      <4> QED BY <3>1, <4>1
    <3> QED BY <3>2, <3>3
  <2> QED BY <1>2, <2>1, <2>2, <2>3, <2>4, <2>5 DEF HeaderOK
<1>5. ASSUME NEW i \in Slots,
             slot' \in [Slots -> [pointer : Pointer, valid : BOOLEAN, uid : Readers \cup {Nobody}]],
             \A j \in Slots \ {i} : slot'[j] = slot[j], slot'[i].uid \in {r, Nobody, slot[i].uid},
             num_readers' = num_readers, left' = left,
             lagged' \subseteq Readers, adrift' \subseteq Readers, adrift \ {r} \subseteq adrift',
             \A q \in Readers \ {r} : \/ q \in adrift' \/ rd[q].id # i
                                      \/ /\ slot'[i].pointer = slot[i].pointer
                                         /\ slot'[i].valid => slot[i].valid
      PROVE  LeavesOthers(r) /\ HeaderOK'
  <2>1. HeaderOK' BY <1>2, <1>5 DEF HeaderOK
  <2>2. ASSUME NEW q \in Readers \ {r}
        PROVE  /\ q \notin adrift' => q \notin adrift
               /\ \A j \in Slots : slot'[j].uid = q => slot[j].uid = q
               /\ q \notin adrift' /\ rd[q].id \in Slots =>
                  /\ slot'[rd[q].id].pointer = slot[rd[q].id].pointer
                  /\ slot'[rd[q].id].valid => slot[rd[q].id].valid
    <3>1. q \notin adrift' => q \notin adrift BY <1>5, <2>2
    <3>2. \A j \in Slots : slot'[j].uid = q => slot[j].uid = q BY <1>5, <2>2, NobodyAssumption
    <3> QED BY <1>5, <2>2, <3>1, <3>2
  <2> QED BY <1>1, <2>1, <2>2 DEF LeavesOthers
<1>6. slot \in [Slots -> [pointer : Pointer, valid : BOOLEAN, uid : Readers \cup {Nobody}]]
      /\ lagged \subseteq Readers /\ adrift \subseteq Readers
    BY <1>2 DEF HeaderOK
<1>7. CASE EvictAll(r)
  <2>1. PICK i \in Slots : i = rd[r].size BY <1>2, <1>7 DEF EvictAll, RdType
  <2>2. \/ slot' = [slot EXCEPT ![i].valid = FALSE]
        \/ slot' = [slot EXCEPT ![i].uid = Nobody]
    BY <1>7, <2>1 DEF EvictAll
  <2>3. slot' \in [Slots -> [pointer : Pointer, valid : BOOLEAN, uid : Readers \cup {Nobody}]] BY <1>6, <2>2
  <2>4. /\ \A j \in Slots \ {i} : slot'[j] = slot[j]
        /\ slot'[i].uid \in {Nobody, slot[i].uid} /\ slot'[i].pointer = slot[i].pointer
        /\ slot'[i].valid => slot[i].valid
    BY <1>6, <2>2
  <2>5. /\ num_readers' = num_readers /\ left' = left /\ lagged' = lagged
        /\ adrift \subseteq adrift' /\ adrift' \subseteq adrift \cup Readers
    BY <1>7 DEF EvictAll, Disturb, Sharing, Holders
  <2> QED BY <1>5, <1>6, <2>3, <2>4, <2>5
<1>8. CASE Enter(r) \/ ResetValid(r) \/ ResetStore(r) \/ Advance(r) \/ Store(r)
  <2>1. PICK i \in Slots : i = rd[r].id
    BY <1>2, <1>8 DEF Enter, ResetValid, ResetStore, Advance, Store, RdType, Slotted, Settled, Checked, Reading
  <2>2. /\ slot' \in [Slots -> [pointer : Pointer, valid : BOOLEAN, uid : Readers \cup {Nobody}]]
        /\ \A j \in Slots \ {i} : slot'[j] = slot[j]
        /\ slot'[i].uid \in {r, slot[i].uid}
    <3>1. CASE Enter(r)
      <4>1. slot' = [slot EXCEPT ![i] = [pointer |-> Zero, valid |-> FALSE, uid |-> r]] BY <2>1, <3>1 DEF Enter
      <4>2. Zero \in Pointer BY Constants DEF Zero, Pointer
      <4> QED BY <1>6, <4>1, <4>2
    <3>2. CASE ResetValid(r)
      <4>1. slot' = [slot EXCEPT ![i].valid = TRUE] BY <2>1, <3>2 DEF ResetValid
      <4> QED BY <1>6, <4>1
    <3>3. CASE ResetStore(r) \/ Advance(r) \/ Store(r)
      <4>1. PICK p \in Pointer : slot' = [slot EXCEPT ![i].pointer = p]
        <5>1. CASE ResetStore(r) \/ Advance(r) BY <1>3, <2>1, <5>1 DEF ResetStore, Advance
        <5>2. CASE Store(r)
          <6>1. /\ rd[r].size \in Sizes /\ rd[r].rp.ptr + 1 + rd[r].size < Size
            BY <1>2, <5>2 DEF RdType, Store
          <6>2. NewPointer(r, rd[r].size) \in Pointer
            BY <1>3, <6>1, Constants DEF NewPointer, Pointer
          <6> QED BY <2>1, <5>2, <6>2 DEF Store
        <5> QED BY <3>3, <5>1, <5>2
      <4> QED BY <1>6, <4>1
    <3> QED BY <1>8, <3>1, <3>2, <3>3
  <2>3. /\ num_readers' = num_readers /\ left' = left
        /\ lagged' \subseteq lagged \cup adrift /\ adrift' \subseteq adrift \cup Readers
        /\ adrift \ {r} \subseteq adrift'
        /\ \A q \in Readers \ {r} : rd[q].id = i => q \in adrift'
    BY <1>8, <2>1 DEF Enter, ResetValid, ResetStore, Advance, Store, Disturb, Sharing, Holders
  <2> QED BY <1>5, <1>6, <2>2, <2>3
<1> QED BY <1>4, <1>7, <1>8 DEF Reader, Recv
----------------------------------------------------------------------------
(* The reader that takes the step.  A call that returns or starts over     *)
(* leaves its locals behind.                                               *)
LEMMA Cleaned ==
    ASSUME MInv, NEW r \in Readers, NEW pc \in {"idle", "start", "reset"}, Clean(r, pc), rd[r].pc \in Slotted
    PROVE  RdType(r)' /\ rd'[r].pc = pc /\ rd'[r].id = rd[r].id
<1>1. RdType(r) BY DEF MInv, ReadersOK
<1>2. rd[r].id \in Slots /\ rd[r].id \in 0 .. NUM_READERS /\ rd[r].fresh \in BOOLEAN BY <1>1 DEF RdType
<1>3. rd'[r] = [Off EXCEPT !.pc = pc, !.id = rd[r].id, !.fresh = rd[r].fresh] BY RdUpdate DEF Clean
<1>4. rd'[r] = [pc |-> pc, id |-> rd[r].id, fresh |-> rd[r].fresh, rp |-> Zero, wp |-> Zero,
                size |-> 0, buf |-> << >>]
    BY <1>3 DEF Off
<1>5. Zero \in Pointer /\ pc \in RdPcs /\ << >> \in Seq(Words)
    BY Constants DEF Zero, Pointer, RdPcs, Slotted, Settled
<1>6. rd'[r] \in [pc : RdPcs, id : 0 .. NUM_READERS, fresh : BOOLEAN, rp : Pointer, wp : Pointer,
                  size : Nat, buf : Seq(Words)]
    BY <1>2, <1>4, <1>5
<1>7. rd'[r].pc = pc /\ rd'[r].id = rd[r].id BY <1>4
<1> QED BY <1>2, <1>6, <1>7 DEF RdType

(* A step that only moves on.                                              *)
LEMMA Moved ==
    ASSUME MInv, NEW r \in Readers, NEW pc \in {"claim", "reset_load", "valid", "crashed", "final"}, Goto(r, pc),
           rd[r].pc \in Slotted \/ pc = "claim"
    PROVE  /\ RdType(r)' /\ rd'[r].pc = pc /\ rd'[r].id = rd[r].id
           /\ rd'[r].buf = rd[r].buf
<1>1. RdType(r) BY DEF MInv, ReadersOK
<1>2. rd'[r] = [rd[r] EXCEPT !.pc = pc] BY RdUpdate DEF Goto
<1>3. pc \in RdPcs BY DEF RdPcs, Slotted, Settled, Checked
<1>4. rd'[r] \in [pc : RdPcs, id : 0 .. NUM_READERS, fresh : BOOLEAN, rp : Pointer, wp : Pointer,
                  size : Nat, buf : Seq(Words)]
    BY <1>1, <1>2, <1>3 DEF RdType
<1>5. rd'[r].pc = pc /\ rd'[r].id = rd[r].id /\ rd'[r].buf = rd[r].buf BY <1>1, <1>2 DEF RdType
<1>6. pc \in Slotted => rd[r].id \in Slots BY <1>1 DEF RdType, Slotted, Settled, Checked, Reading
<1> QED BY <1>4, <1>5, <1>6 DEF RdType

(* Nothing is asked of a reader that has not settled.                      *)
LEMMA Unsettled ==
    ASSUME NEW r \in Readers, rd'[r].pc \in {"off", "claim", "full", "evict", "evict_uid", "enter", "reset", "reset_load"}
    PROVE  ReaderOK(r)' /\ ResetOK(r)'
BY DEF ReaderOK, ResetOK, Settled, Checked, Reading

(* Where a pointer may be depends on the queue and on the slot's number.   *)
LEMMA PlacedStays ==
    ASSUME UNCHANGED <<write_pointer, ring, pub, log>>, NEW r \in Readers, rd'[r].id = rd[r].id, NEW p
    PROVE  /\ Placed(r, p)' <=> Placed(r, p)
           /\ Overlooked(r)' <=> Overlooked(r)
BY DEF Placed, UpTo, Boundary, Overlooked, Uncounted, Evicting, Total

(* Coming up, dying, and claiming a slot.                                  *)
LEMMA SelfClaims ==
    ASSUME MInv, NEW r \in Readers,
           SubStart(r) \/ SubKill(r) \/ Claim(r) \/ EvictBegin(r) \/ EvictAll(r) \/ Enter(r) \/ ResetValid(r)
    PROVE  RdType(r)' /\ ReaderOK(r)' /\ ResetOK(r)'
<1>1. RdType(r) BY DEF MInv, ReadersOK
<1>2. NUM_READERS \in Nat /\ NUM_READERS > 0 /\ num_readers \in 0 .. NUM_READERS
    BY Constants DEF MInv, HeaderOK
<1>3. Zero \in Pointer BY Constants DEF Zero, Pointer
<1>4. ASSUME NEW pc \in {"off", "claim", "full", "enter", "evict"}, NEW id \in 0 .. NUM_READERS, NEW size \in Nat,
             pc = "enter" => id \in Slots, pc = "evict" => size \in Slots,
             rd'[r] = [pc |-> pc, id |-> id, fresh |-> FALSE, rp |-> Zero, wp |-> Zero,
                       size |-> size, buf |-> << >>]
      PROVE  RdType(r)' /\ ReaderOK(r)' /\ ResetOK(r)'
  <2>1. pc \in RdPcs /\ << >> \in Seq(Words) BY DEF RdPcs, Slotted
  <2>2. rd'[r] \in [pc : RdPcs, id : 0 .. NUM_READERS, fresh : BOOLEAN, rp : Pointer, wp : Pointer,
                    size : Nat, buf : Seq(Words)]
    BY <1>3, <1>4, <2>1
  <2>3. rd'[r].pc = pc /\ rd'[r].id = id /\ rd'[r].size = size BY <1>4
  <2>4. RdType(r)' BY <1>4, <2>2, <2>3 DEF RdType, Slotted, Settled, Checked, Reading
  <2> QED BY <2>3, <2>4, Unsettled
<1>5. CASE SubStart(r)
  <2>1. Goto(r, "claim") BY <1>5 DEF SubStart
  <2> QED BY <2>1, Moved, Unsettled
<1>6. CASE SubKill(r)
  <2>1. rd'[r] = Off BY <1>6, RdUpdate DEF SubKill
  <2> QED BY <1>2, <1>4, <2>1 DEF Off
<1>7. CASE Claim(r)
  <2>1. CASE num_readers < NUM_READERS
    <3>1. rd'[r] = [Off EXCEPT !.pc = "enter", !.id = num_readers + 1] BY <1>2, <1>7, <2>1, RdUpdate DEF Claim
    <3>2. rd'[r] = [pc |-> "enter", id |-> num_readers + 1, fresh |-> FALSE, rp |-> Zero, wp |-> Zero,
                    size |-> 0, buf |-> << >>]
      BY <3>1 DEF Off
    <3>3. num_readers + 1 \in 0 .. NUM_READERS /\ num_readers + 1 \in Slots BY <1>2, <2>1 DEF Slots
    <3> QED BY <1>4, <3>2, <3>3
  <2>2. CASE num_readers = NUM_READERS
    <3>1. rd'[r] = [Off EXCEPT !.pc = "full"] BY <1>2, <1>7, <2>2, RdUpdate DEF Claim
    <3>2. rd'[r] = [pc |-> "full", id |-> 0, fresh |-> FALSE, rp |-> Zero, wp |-> Zero,
                    size |-> 0, buf |-> << >>]
      BY <3>1 DEF Off
    <3>3. 0 \in 0 .. NUM_READERS BY <1>2
    <3> QED BY <1>4, <3>2, <3>3
  <2> QED BY <1>2, <2>1, <2>2
<1>8. CASE EvictAll(r)
  <2>1. rd[r].pc \in {"evict", "evict_uid"} /\ rd[r].size \in Slots /\ rd[r].size \in Nat
    BY <1>1, <1>8 DEF EvictAll, RdType
  <2>2. CASE rd[r].pc = "evict_uid" /\ rd[r].size = NUM_READERS
    <3>1. rd'[r] = [Off EXCEPT !.pc = "claim"] BY <1>8, <2>2, RdUpdate DEF EvictAll
    <3>2. rd'[r] = [pc |-> "claim", id |-> 0, fresh |-> FALSE, rp |-> Zero, wp |-> Zero,
                    size |-> 0, buf |-> << >>]
      BY <3>1 DEF Off
    <3>3. 0 \in 0 .. NUM_READERS BY <1>2
    <3> QED BY <1>4, <3>2, <3>3
  <2>3. CASE ~(rd[r].pc = "evict_uid" /\ rd[r].size = NUM_READERS)
    <3>1. PICK pc \in {"evict", "evict_uid"}, size \in Slots : rd'[r] = [rd[r] EXCEPT !.pc = pc, !.size = size]
      <4>1. CASE rd[r].pc = "evict"
        <5>1. rd'[r] = [rd[r] EXCEPT !.pc = "evict_uid"] BY <1>8, <4>1, RdUpdate DEF EvictAll, Goto
        <5>2. rd'[r] = [rd[r] EXCEPT !.pc = "evict_uid", !.size = rd[r].size] BY <1>1, <5>1 DEF RdType
        <5> QED BY <2>1, <5>2
      <4>2. CASE rd[r].pc = "evict_uid" /\ rd[r].size # NUM_READERS
        <5>1. rd' = [rd EXCEPT ![r].pc = "evict", ![r].size = rd[r].size + 1] BY <1>8, <4>2 DEF EvictAll
        <5>2. rd = [q \in Readers |-> rd[q]] BY DEF MInv
        <5>3. rd'[r] = [rd[r] EXCEPT !.pc = "evict", !.size = rd[r].size + 1] BY <5>1, <5>2
        <5>4. rd[r].size + 1 \in Slots BY <1>2, <2>1, <4>2 DEF Slots
        <5> QED BY <5>3, <5>4
      <4> QED BY <2>1, <2>3, <4>1, <4>2
    <3>2. size \in Nat /\ pc \in RdPcs BY <1>2, <3>1 DEF Slots, RdPcs
    <3>3. rd'[r] \in [pc : RdPcs, id : 0 .. NUM_READERS, fresh : BOOLEAN, rp : Pointer, wp : Pointer,
                      size : Nat, buf : Seq(Words)]
      BY <1>1, <3>1, <3>2 DEF RdType
    <3>4. rd'[r].pc = pc /\ rd'[r].size = size BY <1>1, <3>1 DEF RdType
    <3>5. RdType(r)' BY <3>1, <3>3, <3>4 DEF RdType, Slotted, Settled, Checked, Reading
    <3> QED BY <3>4, <3>5, Unsettled
  <2> QED BY <2>2, <2>3
<1>9. CASE Enter(r)
  <2>1. rd[r].pc = "enter" /\ rd[r].id \in Slots BY <1>1, <1>9 DEF Enter, RdType, Slotted
  <2>2. rd'[r] = [rd[r] EXCEPT !.pc = "reset", !.fresh = TRUE] BY <1>9, RdUpdate DEF Enter
  <2>3. "reset" \in RdPcs /\ TRUE \in BOOLEAN BY DEF RdPcs, Slotted
  <2>4. rd'[r] \in [pc : RdPcs, id : 0 .. NUM_READERS, fresh : BOOLEAN, rp : Pointer, wp : Pointer,
                    size : Nat, buf : Seq(Words)]
    BY <1>1, <2>2, <2>3 DEF RdType
  <2>5. rd'[r].pc = "reset" /\ rd'[r].id = rd[r].id BY <1>1, <2>2 DEF RdType
  <2>6. RdType(r)' BY <2>1, <2>4, <2>5 DEF RdType
  <2> QED BY <2>5, <2>6, Unsettled
<1>10. CASE ResetValid(r)
  <2>1. Goto(r, "reset_load") /\ rd[r].pc \in Slotted BY <1>10 DEF ResetValid, Slotted
  <2> QED BY <2>1, Moved, Unsettled
<1>11. CASE EvictBegin(r)
  <2>1. rd'[r] = [Off EXCEPT !.pc = "evict", !.size = 1] BY <1>11, RdUpdate DEF EvictBegin
  <2>2. rd'[r] = [pc |-> "evict", id |-> 0, fresh |-> FALSE, rp |-> Zero, wp |-> Zero,
                  size |-> 1, buf |-> << >>]
    BY <2>1 DEF Off
  <2>3. 0 \in 0 .. NUM_READERS /\ 1 \in Slots BY <1>2 DEF Slots
  <2> QED BY <1>4, <2>2, <2>3
<1> QED BY <1>5, <1>6, <1>7, <1>8, <1>9, <1>10, <1>11

(* A reset loads the write pointer ...                                     *)
LEMMA SelfLoads ==
    ASSUME MInv, NEW r \in Readers, ResetLoad(r)
    PROVE  RdType(r)' /\ ReaderOK(r)' /\ ResetOK(r)'
<1>1. RdType(r) /\ write_pointer \in Pointer BY DEF MInv, ReadersOK, QueueOK
<1>2. rd[r].pc = "reset_load" /\ rd[r].id \in Slots BY <1>1 DEF ResetLoad, RdType, Slotted
<1>3. rd'[r] = [rd[r] EXCEPT !.pc = "reset_store", !.wp = write_pointer] BY RdUpdate DEF ResetLoad
<1>4. "reset_store" \in RdPcs BY DEF RdPcs, Slotted
<1>5. rd'[r] \in [pc : RdPcs, id : 0 .. NUM_READERS, fresh : BOOLEAN, rp : Pointer, wp : Pointer,
                  size : Nat, buf : Seq(Words)]
    BY <1>1, <1>3, <1>4 DEF RdType
<1>6. rd'[r].pc = "reset_store" /\ rd'[r].id = rd[r].id /\ rd'[r].wp = write_pointer BY <1>1, <1>3 DEF RdType
<1>7. RdType(r)' BY <1>2, <1>5, <1>6 DEF RdType
<1>8. ReaderOK(r)' BY <1>6 DEF ReaderOK, Settled, Checked, Reading
<1>9. write_pointer' = write_pointer BY DEF ResetLoad, shared
<1>10. UpTo(write_pointer, write_pointer) BY <1>1 DEF UpTo, Pointer
<1>11. ResetOK(r)' BY <1>6, <1>9, <1>10 DEF ResetOK, UpTo, Boundary
<1> QED BY <1>7, <1>8, <1>11

(* ... and stores it.  Unless the publisher has passed it by then, it is   *)
(* where a reader may be.                                                  *)
LEMMA SelfStores ==
    ASSUME MInv, NEW r \in Readers, ResetStore(r)
    PROVE  RdType(r)' /\ ReaderOK(r)' /\ ResetOK(r)'
<1>1. rd[r].pc = "reset_store" /\ rd[r].pc \in Slotted /\ Clean(r, "start") BY DEF ResetStore, Slotted
<1>2. RdType(r)' /\ rd'[r].pc = "start" /\ rd'[r].id = rd[r].id BY <1>1, Cleaned
<1>3. rd[r].id \in Slots BY <1>1, Numbers
<1>4. ResetOK(r)' BY <1>2 DEF ResetOK
<1>5. ASSUME Live(r)' PROVE Placed(r, Mine(r).pointer)'
  <2>1. slot' = [slot EXCEPT ![rd[r].id].pointer = rd[r].wp] BY DEF ResetStore
  <2>2. slot'[rd[r].id].pointer = rd[r].wp /\ slot'[rd[r].id].uid = slot[rd[r].id].uid
    BY <1>3, <2>1 DEF MInv, HeaderOK
  <2>3. Mine(r)'.pointer = rd[r].wp /\ Mine(r)'.uid = Mine(r).uid BY <1>2, <2>2 DEF Mine
  <2> SUFFICES ASSUME NEW p, p = rd[r].wp PROVE Placed(r, p)
    <3>1. UNCHANGED <<write_pointer, ring, pub, log>> BY DEF ResetStore
    <3> QED BY <1>2, <2>3, <3>1, PlacedStays
  <2>4. Mine(r).uid = r /\ r \notin adrift' BY <1>2, <1>5, <2>3 DEF Live, Checked, Reading
  <2>5. ~Passed(r, p) BY <2>4 DEF ResetStore
  <2>6. UpTo(p, write_pointer) /\ (WithinLap(p) => Boundary(p.ptr))
    BY <1>1, <2>4 DEF MInv, ReadersOK, ResetOK
  <2>7. /\ Size \in Nat /\ write_pointer.ptr \in 0 .. Size - 1 /\ write_pointer.cycles \in Nat
        /\ Total \in Nat /\ Total > 0 /\ p.ptr \in 0 .. Size - 1 /\ p.cycles \in Nat
        /\ write_pointer \in Pointer /\ pub.i \in Nat /\ pub.n \in Nat /\ rd[r].id \in Nat
    BY Numbers DEF MInv, QueueOK
  <2>8. /\ pub.dirty => pub.pc \in {"tag", "data", "done", "off", "init", "init_uid"}
    BY DEF MInv, QueueOK, PubOK
  <2>9. CASE Uncounted(r)
    <3>1. Reach(r) = [cycles |-> write_pointer.cycles + 1, ptr |-> Total]
      BY <2>7, <2>8, <2>9 DEF Reach, Uncounted, MayWrap, Wrapping, Evicting
    <3>2. Reach(r).cycles = write_pointer.cycles + 1 /\ Reach(r).ptr = Total BY <3>1
    <3>3. p.cycles = write_pointer.cycles /\ p.ptr >= Total BY <2>5, <2>6, <2>7, <3>2 DEF Passed, UpTo
    <3>4. ~Overlooked(r) BY <2>8, <2>9 DEF Overlooked, Uncounted, MayWrap, Evicting
    <3> QED BY <2>6, <3>3, <3>4 DEF Placed, WithinLap
  <2>10. CASE ~Uncounted(r) /\ Wrapping /\ pub.i > rd[r].id
    <3>1. Reach(r) = [write_pointer EXCEPT !.ptr = Size]
      BY <2>7, <2>8, <2>10 DEF Reach, Uncounted, MayWrap, Wrapping, Evicting
    <3>2. Reach(r).cycles = write_pointer.cycles /\ Reach(r).ptr = Size BY <2>7, <3>1 DEF Pointer
    <3>3. p.cycles = write_pointer.cycles BY <2>5, <2>6, <2>7, <3>2 DEF Passed, UpTo
    <3>4. ~Overlooked(r) BY <2>8, <2>10 DEF Overlooked, Wrapping, Evicting
    <3> QED BY <2>6, <2>10, <3>3, <3>4 DEF Placed, WithinLap
  <2>11. CASE ~Uncounted(r) /\ Overlooked(r)
    <3>0. ~Wrapping /\ pub.pc # "wrap" BY <2>8, <2>11 DEF Wrapping, Overlooked, Evicting
    <3>1. Reach(r) = [write_pointer EXCEPT !.ptr = @ + Total] BY <2>11, <3>0 DEF Reach, Overlooked
    <3>2. Reach(r).cycles = write_pointer.cycles /\ Reach(r).ptr = write_pointer.ptr + Total
      BY <2>7, <3>1 DEF Pointer
    <3>3. \/ p.cycles = write_pointer.cycles /\ p.ptr <= write_pointer.ptr
          \/ p.cycles + 1 = write_pointer.cycles /\ p.ptr >= write_pointer.ptr + Total
      BY <2>5, <2>6, <2>7, <3>2 DEF Passed, UpTo
    <3>4. WithinLap(p) BY <2>7, <3>3 DEF WithinLap
    <3> QED BY <2>6, <2>7, <2>11, <3>3, <3>4 DEF Placed
  <2>12. CASE ~Uncounted(r) /\ ~Overlooked(r) /\ ~(Wrapping /\ pub.i > rd[r].id)
    <3>1. Reach(r) = write_pointer BY <2>7, <2>12 DEF Reach, Uncounted, MayWrap, Wrapping, Overlooked
    <3>2. p.cycles = write_pointer.cycles \/ (p.cycles + 1 = write_pointer.cycles /\ p.ptr >= write_pointer.ptr)
      BY <2>5, <2>6, <2>7, <3>1 DEF Passed, UpTo
    <3>3. ~pub.dirty BY <2>12 DEF Overlooked
    <3>4. WithinLap(p) BY <2>7, <3>2, <3>3 DEF WithinLap
    <3> QED BY <2>6, <2>12, <3>4 DEF Placed
  <2> QED BY <2>9, <2>10, <2>11, <2>12
<1>6. ReaderOK(r)' BY <1>2, <1>5 DEF ReaderOK, Checked, Reading
<1> QED BY <1>2, <1>4, <1>6

(* The first looks at the slot.                                            *)
LEMMA SelfChecks ==
    ASSUME MInv, NEW r \in Readers, CheckUid(r) \/ CheckValid(r)
    PROVE  RdType(r)' /\ ReaderOK(r)' /\ ResetOK(r)'
<1>1. rd[r].pc \in {"idle", "start", "valid"} /\ rd[r].pc \in Settled /\ rd[r].pc \in Slotted
    BY DEF CheckUid, CheckValid, Settled, Slotted, Checked
<1>2. RdType(r) /\ ReaderOK(r) BY DEF MInv, ReadersOK
<1>3. UNCHANGED <<write_pointer, ring, pub, log, slot, adrift>>
    BY DEF CheckUid, CheckValid, shared, history
<1>4. rd[r].id \in Slots BY <1>1, Numbers
<1>5. ASSUME rd'[r].id = rd[r].id, Live(r)', rd[r].pc = "valid" \/ Mine(r).uid = r
      PROVE  Placed(r, Mine(r).pointer)' /\ Mine(r)' = Mine(r)
  <2>1. Mine(r)' = Mine(r) BY <1>3, <1>5 DEF Mine
  <2>2. Live(r) BY <1>3, <1>5, <2>1 DEF Live, Checked
  <2> SUFFICES ASSUME NEW p, p = Mine(r).pointer PROVE Placed(r, p)' BY <2>1
  <2>3. Placed(r, p) BY <1>1, <1>2, <2>2 DEF ReaderOK
  <2> QED BY <1>3, <1>5, <2>3, PlacedStays
<1>6. CASE CheckUid(r) /\ Mine(r).uid = r
  <2>1. Goto(r, "valid") BY <1>6 DEF CheckUid
  <2>2. RdType(r)' /\ rd'[r].pc = "valid" /\ rd'[r].id = rd[r].id BY <1>1, <2>1, Moved
  <2>3. Mine(r)'.uid = r BY <1>3, <1>6, <2>2 DEF Mine
  <2>4. ReaderOK(r)' BY <1>5, <1>6, <2>2, <2>3 DEF ReaderOK, Reading
  <2> QED BY <2>2, <2>4 DEF ResetOK
<1>7. CASE CheckUid(r) /\ Mine(r).uid # r
  <2>1. Goto(r, "claim") BY <1>7 DEF CheckUid
  <2> QED BY <1>1, <2>1, Moved, Unsettled
<1>8. CASE CheckValid(r) /\ Mine(r).valid
  <2>1. rd'[r] = [rd[r] EXCEPT !.pc = "compare", !.fresh = FALSE, !.rp = Mine(r).pointer]
    <3>1. rd' = [rd EXCEPT ![r].pc = "compare", ![r].fresh = FALSE, ![r].rp = Mine(r).pointer]
      BY <1>8 DEF CheckValid
    <3>2. rd = [q \in Readers |-> rd[q]] BY DEF MInv
    <3> QED BY <3>1, <3>2
  <2>2. Mine(r).pointer \in Pointer BY <1>4 DEF MInv, HeaderOK, Mine
  <2>3. "compare" \in RdPcs /\ FALSE \in BOOLEAN BY DEF RdPcs, Slotted, Settled, Checked
  <2>4. rd'[r] \in [pc : RdPcs, id : 0 .. NUM_READERS, fresh : BOOLEAN, rp : Pointer, wp : Pointer,
                    size : Nat, buf : Seq(Words)]
    BY <1>2, <2>1, <2>2, <2>3 DEF RdType
  <2>5. rd'[r].pc = "compare" /\ rd'[r].id = rd[r].id /\ rd'[r].rp = Mine(r).pointer BY <1>2, <2>1 DEF RdType
  <2>6. RdType(r)' BY <1>4, <2>4, <2>5 DEF RdType
  <2>7. Mine(r)' = Mine(r) BY <1>3, <2>5 DEF Mine
  <2>8. rd[r].pc = "valid" BY <1>8 DEF CheckValid
  <2>10. ReaderOK(r)' BY <1>3, <1>5, <2>5, <2>7, <2>8 DEF ReaderOK, Reading
  <2> QED BY <2>5, <2>6, <2>10 DEF ResetOK
<1>9. CASE CheckValid(r) /\ ~Mine(r).valid
  <2>1. Clean(r, "reset") BY <1>9 DEF CheckValid
  <2> QED BY <1>1, <2>1, Cleaned, Unsettled
<1> QED BY <1>6, <1>7, <1>8, <1>9

(* Something new to read: at a boundary that is not the write pointer.     *)
LEMMA SelfCompares ==
    ASSUME MInv, NEW r \in Readers, Compare(r)
    PROVE  RdType(r)' /\ ReaderOK(r)' /\ ResetOK(r)'
<1>1. rd[r].pc = "compare" /\ rd[r].pc \in Settled /\ rd[r].pc \in Slotted /\ rd[r].pc \in Checked
    BY DEF Compare, Settled, Slotted, Checked
<1>2. RdType(r) /\ ReaderOK(r) /\ write_pointer \in Pointer BY DEF MInv, ReadersOK, QueueOK
<1>3. UNCHANGED <<write_pointer, ring, pub, log, slot, adrift>> BY DEF Compare, shared, history
<1>4. rd[r].id \in Slots BY <1>1, Numbers
<1>5. ASSUME rd'[r].id = rd[r].id, Live(r)'
      PROVE  Placed(r, Mine(r).pointer)' /\ Live(r) /\ Placed(r, Mine(r).pointer)
  <2>1. Mine(r)' = Mine(r) BY <1>3, <1>5 DEF Mine
  <2>2. Live(r) BY <1>1, <1>3, <1>5, <2>1 DEF Live
  <2>3. Placed(r, Mine(r).pointer) BY <1>1, <1>2, <2>2 DEF ReaderOK
  <2> SUFFICES ASSUME NEW p, p = Mine(r).pointer PROVE Placed(r, p)' BY <2>1, <2>2, <2>3
  <2> QED BY <1>3, <1>5, <2>3, PlacedStays
<1>6. CASE Clean(r, "idle")
  <2>1. RdType(r)' /\ rd'[r].pc = "idle" /\ rd'[r].id = rd[r].id BY <1>1, <1>6, Cleaned
  <2> QED BY <1>5, <2>1 DEF ReaderOK, ResetOK, Checked, Reading
<1>7. CASE ~NothingNew(r) /\ rd' = [rd EXCEPT ![r].pc = "size", ![r].wp = write_pointer]
  <2>1. rd'[r] = [rd[r] EXCEPT !.pc = "size", !.wp = write_pointer] BY <1>7, RdUpdate
  <2>2. "size" \in RdPcs BY DEF RdPcs, Slotted, Settled, Checked, Reading
  <2>3. rd'[r] \in [pc : RdPcs, id : 0 .. NUM_READERS, fresh : BOOLEAN, rp : Pointer, wp : Pointer,
                    size : Nat, buf : Seq(Words)]
    BY <1>2, <2>1, <2>2 DEF RdType
  <2>4. rd'[r].pc = "size" /\ rd'[r].id = rd[r].id /\ rd'[r].rp = rd[r].rp BY <1>2, <2>1 DEF RdType
  <2>5. RdType(r)' BY <1>4, <2>3, <2>4 DEF RdType
  <2>6. Mine(r)' = Mine(r) BY <1>3, <2>4 DEF Mine
  <2>8. Live(r)' => rd[r].rp = Mine(r).pointer BY <1>1, <1>2, <1>5, <2>4 DEF ReaderOK
  <2>9. ASSUME Live(r)' PROVE ReadOK(r)'
    <3>1. PICK p : p = rd[r].rp OBVIOUS
    <3>2. Placed(r, p) /\ p.ptr # write_pointer.ptr BY <1>5, <1>7, <2>4, <2>8, <2>9, <3>1 DEF NothingNew
    <3>3. /\ Size \in Nat /\ write_pointer.ptr \in 0 .. Size - 1 /\ write_pointer.cycles \in Nat
          /\ p.ptr \in 0 .. Size - 1 /\ p.cycles \in Nat
      BY <3>1, Numbers
    <3>4. Before(p, write_pointer) BY <3>2, <3>3 DEF Placed, UpTo, Before
    <3>5. Readable(p.ptr)
      <4>1. IsTag(ring[p.ptr]) BY <3>2 DEF Placed, Boundary
      <4> QED BY <3>2, <3>3, <4>1 DEF MInv, QueueOK, RingOK
    <3>6. Readable(p.ptr)' BY <1>3, <3>5 DEF Readable, Fits, PayloadAt, Boundary
    <3> QED BY <1>3, <2>4, <3>1, <3>2, <3>4, <3>6 DEF ReadOK, Before
  <2>10. ReaderOK(r)' BY <1>3, <1>5, <2>4, <2>6, <2>8, <2>9 DEF ReaderOK
  <2> QED BY <2>4, <2>5, <2>10 DEF ResetOK
<1> QED BY <1>6, <1>7 DEF Compare

(* A reader within a message, its flag still on.                           *)
LEMMA WhileReading ==
    ASSUME MInv, NEW r \in Readers, rd[r].pc \in Reading
    PROVE  /\ rd[r].pc \in Slotted /\ rd[r].id \in Slots
           /\ Live(r) => rd[r].rp = Mine(r).pointer /\ Placed(r, rd[r].rp) /\ ReadOK(r)
<1>1. rd[r].pc \in Slotted /\ rd[r].pc \in Settled /\ rd[r].pc \in Checked BY DEF Slotted, Settled, Checked
<1>2. ReaderOK(r) BY DEF MInv, ReadersOK
<1> QED BY <1>1, <1>2, Numbers DEF ReaderOK

(* The end of a message is the next pointer.                               *)
LEMMA EndIsAhead ==
    ASSUME MInv, NEW r \in Readers, NEW n, Before(rd[r].rp, write_pointer), Fits(rd[r].rp.ptr, n)
    PROVE  Ahead(r, NewPointer(r, n))
<1>1. /\ Size \in Nat /\ write_pointer.ptr \in 0 .. Size - 1 /\ write_pointer.cycles \in Nat
      /\ rd[r].rp.ptr \in 0 .. Size - 1 /\ rd[r].rp.cycles \in Nat /\ rd[r].rp \in Pointer
    BY Numbers DEF MInv, ReadersOK, RdType
<1>2. n \in Nat /\ n > 0 BY Constants DEF Fits
<1>3. NewPointer(r, n).cycles = rd[r].rp.cycles /\ NewPointer(r, n).ptr = rd[r].rp.ptr + 1 + n
    BY <1>1 DEF NewPointer, Pointer
<1>4. UpTo(NewPointer(r, n), write_pointer) BY <1>1, <1>2, <1>3 DEF UpTo, Before, Fits
<1> QED BY <1>1, <1>2, <1>3, <1>4 DEF Ahead, Fits

(* And the next pointer is one that the reader may have.                   *)
LEMMA AheadIsPlaced ==
    ASSUME MInv, NEW r \in Readers, NEW q \in Pointer, Placed(r, rd[r].rp), ReadOK(r), Ahead(r, q)
    PROVE  Placed(r, q)
<1>1. /\ Size \in Nat /\ write_pointer.ptr \in 0 .. Size - 1 /\ write_pointer.cycles \in Nat
      /\ rd[r].rp.ptr \in 0 .. Size - 1 /\ rd[r].rp.cycles \in Nat /\ Total \in Nat
      /\ q.ptr \in 0 .. Size - 1 /\ q.cycles \in Nat
    BY Numbers DEF Pointer
<1>2. CASE q = [cycles |-> rd[r].rp.cycles + 1, ptr |-> 0]
  <2>1. q.cycles = rd[r].rp.cycles + 1 /\ q.ptr = 0 BY <1>2
  <2>2. ~Uncounted(r) BY <1>1, <2>1 DEF Ahead, Placed, UpTo
  <2> QED BY <1>1, <2>1, <2>2 DEF Ahead, Placed
<1>3. CASE /\ q.cycles = rd[r].rp.cycles /\ rd[r].rp.ptr < q.ptr
           /\ rd[r].rp.ptr < write_pointer.ptr => q.ptr <= write_pointer.ptr
  <2>1. Overlooked(r) => ~(write_pointer.ptr < q.ptr /\ q.ptr < write_pointer.ptr + Total)
    BY <1>1, <1>3 DEF Placed, ReadOK
  <2>2. Uncounted(r) => q.cycles = write_pointer.cycles /\ q.ptr >= Total
    BY <1>1, <1>3 DEF Placed
  <2> QED BY <2>1, <2>2 DEF Ahead, Placed
<1> QED BY <1>2, <1>3 DEF Ahead

(* A reader that goes on reading, in its own record only.                  *)
LEMMA GoesOn ==
    ASSUME MInv, NEW r \in Readers, rd[r].pc \in Reading, rd'[r].pc \in Reading,
           rd'[r].id = rd[r].id, rd'[r].rp = rd[r].rp,
           UNCHANGED <<write_pointer, ring, pub, log, slot, adrift>>,
           Live(r) => ReadOK(r)'
    PROVE  ReaderOK(r)' /\ ResetOK(r)'
<1>1. Mine(r)' = Mine(r) BY DEF Mine
<1>2. Live(r)' => Live(r) BY <1>1 DEF Live, Checked
<1>3. Live(r) => rd[r].rp = Mine(r).pointer /\ Placed(r, rd[r].rp)
    BY WhileReading
<1>4. Live(r)' => Placed(r, Mine(r).pointer)'
  <2> SUFFICES ASSUME Live(r)', NEW p, p = Mine(r).pointer PROVE Placed(r, p)' BY <1>1
  <2> QED BY <1>2, <1>3, PlacedStays
<1>5. rd'[r].pc \notin {"final", "crashed", "reset_store"} BY DEF Reading
<1>6. ReaderOK(r)' BY <1>1, <1>2, <1>3, <1>4, <1>5 DEF ReaderOK
<1> QED BY <1>5, <1>6 DEF ResetOK

(* The tag: it is what the boundary promised.                              *)
LEMMA SelfSizes ==
    ASSUME MInv, NEW r \in Readers, LoadSize(r)
    PROVE  RdType(r)' /\ ReaderOK(r)' /\ ResetOK(r)'
<1>1. rd[r].pc = "size" /\ rd[r].pc \in Reading BY DEF LoadSize, Reading
<1>2. RdType(r) BY DEF MInv, ReadersOK
<1>3. UNCHANGED <<write_pointer, ring, pub, log, slot, adrift>> BY DEF LoadSize, shared, history
<1>4. PICK a \in 0 .. Size - 1 : a = rd[r].rp.ptr BY Numbers
<1>5. ring[a] \in Words BY <1>4 DEF MInv, QueueOK
<1>6. rd'[r] = [rd[r] EXCEPT !.pc = "trust", !.buf = <<ring[a]>>] BY <1>4, RdUpdate DEF LoadSize
<1>7. "trust" \in RdPcs /\ <<ring[a]>> \in Seq(Words)
    BY <1>5 DEF RdPcs, Slotted, Settled, Checked, Reading
<1>8. rd'[r] \in [pc : RdPcs, id : 0 .. NUM_READERS, fresh : BOOLEAN, rp : Pointer, wp : Pointer,
                  size : Nat, buf : Seq(Words)]
    BY <1>2, <1>6, <1>7 DEF RdType
<1>9. rd'[r].pc = "trust" /\ rd'[r].id = rd[r].id /\ rd'[r].rp = rd[r].rp /\ rd'[r].buf = <<ring[a]>>
    BY <1>2, <1>6 DEF RdType
<1>10. rd[r].id \in Slots BY <1>1, WhileReading
<1>11. RdType(r)'
  <2>1. ring[a].kind = "size" /\ ring[a].n > 0 => ring[a].n \in Sizes /\ a + 1 + ring[a].n < Size
    BY DEF MInv, QueueOK, RingOK, TagsFit
  <2>2. Len(rd'[r].buf) = 1 /\ rd'[r].buf[1] = ring[a] BY <1>9
  <2> QED BY <1>4, <1>8, <1>9, <1>10, <2>1, <2>2 DEF RdType
<1>12. ASSUME Live(r) PROVE ReadOK(r)'
  <2>1. ReadOK(r) /\ Readable(a) /\ Before(rd[r].rp, write_pointer) BY <1>1, <1>4, <1>12, WhileReading DEF ReadOK
  <2>2. ring[a] = WrapTag => rd[r].rp.cycles < write_pointer.cycles
    <3>1. /\ Size \in Nat /\ write_pointer.ptr \in 0 .. Size - 1 /\ write_pointer.cycles \in Nat
          /\ rd[r].rp.cycles \in Nat
      BY Numbers
    <3>2. ring[a] = WrapTag /\ a # write_pointer.ptr => a > write_pointer.ptr
      BY WrittenWords DEF MInv, QueueOK, RingOK
    <3> QED BY <1>4, <2>1, <3>1, <3>2 DEF Before
  <2>3. rd'[r].buf[1] = ring[a] BY <1>9
  <2>4. ring[a].kind = "size" /\ Fits(a, ring[a].n) /\ PayloadAt(a, ring[a].n) =>
            Fits(a, ring[a].n)' /\ PayloadAt(a, ring[a].n)'
    BY <1>3 DEF Fits, PayloadAt, Boundary
  <2>5. ring' = ring /\ write_pointer' = write_pointer BY <1>3
  <2>6. Overlooked(r)' => a # write_pointer.ptr BY <1>3, <1>4, <1>9, <2>1, PlacedStays DEF ReadOK
  <2> QED BY <1>4, <1>9, <2>1, <2>2, <2>3, <2>4, <2>5, <2>6 DEF ReadOK, Before, Readable
<1>13. rd'[r].pc \in Reading BY <1>9 DEF Reading
<1> QED BY <1>1, <1>3, <1>9, <1>11, <1>12, <1>13, GoesOn

(* The size is trusted: a live reader has a tag before it, and goes on to  *)
(* the next pointer or to a copy.                                          *)
LEMMA SelfTrusts ==
    ASSUME MInv, NEW r \in Readers, Trust(r)
    PROVE  RdType(r)' /\ ReaderOK(r)' /\ ResetOK(r)'
<1>1. rd[r].pc = "trust" /\ rd[r].pc \in Reading BY DEF Trust, Reading
<1>2. RdType(r) BY DEF MInv, ReadersOK
<1>3. UNCHANGED <<write_pointer, ring, pub, log, slot, adrift>> BY DEF Trust, shared, history
<1>4. /\ rd[r].pc \in Slotted /\ rd[r].id \in Slots
      /\ Live(r) => rd[r].rp = Mine(r).pointer /\ Placed(r, rd[r].rp) /\ ReadOK(r)
    BY <1>1, WhileReading
<1>5. /\ Size \in Nat /\ Size > 0 /\ write_pointer.ptr \in 0 .. Size - 1 /\ write_pointer.cycles \in Nat
      /\ rd[r].rp.ptr \in 0 .. Size - 1 /\ rd[r].rp.cycles \in Nat /\ rd[r].rp \in Pointer
    BY <1>2, Numbers, Constants DEF RdType
<1>6. PICK w \in Words : w = rd[r].buf[1] BY <1>1, <1>2 DEF RdType
<1>7. Live(r) => /\ Before(rd[r].rp, write_pointer) /\ (Overlooked(r) => rd[r].rp.ptr # write_pointer.ptr)
                 /\ \/ w = WrapTag /\ rd[r].rp.cycles < write_pointer.cycles
                    \/ w.kind = "size" /\ Fits(rd[r].rp.ptr, w.n) /\ PayloadAt(rd[r].rp.ptr, w.n)
    BY <1>1, <1>4, <1>6 DEF ReadOK
<1>8. ASSUME NEW q \in Pointer, rd' = [rd EXCEPT ![r].pc = "advance", ![r].buf = << >>, ![r].wp = q],
             Live(r) => Ahead(r, q)
      PROVE  RdType(r)' /\ ReaderOK(r)' /\ ResetOK(r)'
  <2>1. rd'[r] = [rd[r] EXCEPT !.pc = "advance", !.buf = << >>, !.wp = q]
    <3>1. rd = [p \in Readers |-> rd[p]] BY DEF MInv
    <3> QED BY <1>8, <3>1
  <2>2. "advance" \in RdPcs /\ << >> \in Seq(Words) BY DEF RdPcs, Slotted, Settled, Checked, Reading
  <2>3. rd'[r] \in [pc : RdPcs, id : 0 .. NUM_READERS, fresh : BOOLEAN, rp : Pointer, wp : Pointer,
                    size : Nat, buf : Seq(Words)]
    BY <1>2, <2>1, <2>2 DEF RdType
  <2>4. rd'[r].pc = "advance" /\ rd'[r].id = rd[r].id /\ rd'[r].rp = rd[r].rp /\ rd'[r].wp = q
    BY <1>2, <2>1 DEF RdType
  <2>5. RdType(r)' BY <1>4, <2>3, <2>4 DEF RdType
  <2>6. ASSUME Live(r) PROVE ReadOK(r)'
    <3>1. Ahead(r, q)' BY <1>3, <1>8, <2>4, <2>6 DEF Ahead, UpTo, Boundary
    <3>2. Overlooked(r)' => rd[r].rp.ptr # write_pointer.ptr BY <1>3, <1>7, <2>4, <2>6, PlacedStays
    <3> QED BY <1>3, <1>7, <2>4, <2>6, <3>1, <3>2 DEF ReadOK, Before
  <2>7. rd'[r].pc \in Reading BY <2>4 DEF Reading
  <2> QED BY <1>1, <1>3, <2>4, <2>5, <2>6, <2>7, GoesOn
<1>9. CASE ~Mine(r).valid /\ Clean(r, "reset") BY <1>4, <1>9, Cleaned, Unsettled
<1>10. CASE /\ w.kind = "wrap"
            /\ rd' = [rd EXCEPT ![r].pc = "advance", ![r].buf = << >>,
                                ![r].wp = [cycles |-> rd[r].rp.cycles + 1, ptr |-> 0]]
  <2>1. PICK q : q = [cycles |-> rd[r].rp.cycles + 1, ptr |-> 0] OBVIOUS
  <2>2. q \in Pointer /\ q.cycles = rd[r].rp.cycles + 1 /\ q.ptr = 0 BY <1>5, <2>1 DEF Pointer
  <2>3. ASSUME Live(r) PROVE Ahead(r, q)
    <3>1. rd[r].rp.cycles < write_pointer.cycles BY <1>7, <1>10, <2>3
    <3>2. UpTo(q, write_pointer) BY <1>5, <2>2, <3>1 DEF UpTo
    <3>3. Boundary(q.ptr) BY <2>2 DEF MInv, QueueOK, RingOK
    <3> QED BY <2>1, <3>2, <3>3 DEF Ahead
  <2>4. rd' = [rd EXCEPT ![r].pc = "advance", ![r].buf = << >>, ![r].wp = q] BY <1>10, <2>1
  <2> QED BY <1>8, <2>2, <2>3, <2>4
<1>11. CASE /\ w.kind = "size" /\ w.n > 0
            /\ \/ rd' = [rd EXCEPT ![r].pc = "advance", ![r].buf = << >>, ![r].wp = NewPointer(r, w.n)]
               \/ rd' = [rd EXCEPT ![r].pc = "copy", ![r].size = w.n, ![r].buf = << >>, ![r].wp = Zero]
  <2>1. w.n \in Sizes /\ w.n \in Nat /\ rd[r].rp.ptr + 1 + w.n < Size
    BY <1>1, <1>2, <1>6, <1>11, Constants DEF RdType
  <2>2. Live(r) => Fits(rd[r].rp.ptr, w.n) /\ PayloadAt(rd[r].rp.ptr, w.n) BY <1>7, <1>11, WrittenWords
  <2>3. CASE rd' = [rd EXCEPT ![r].pc = "advance", ![r].buf = << >>, ![r].wp = NewPointer(r, w.n)]
    <3>1. NewPointer(r, w.n) \in Pointer BY <1>5, <2>1 DEF NewPointer, Pointer
    <3>2. Live(r) => Ahead(r, NewPointer(r, w.n)) BY <1>7, <2>2, EndIsAhead
    <3>3. PICK q \in Pointer : q = NewPointer(r, w.n) BY <3>1
    <3> QED BY <1>8, <2>3, <3>2, <3>3
  <2>4. CASE rd' = [rd EXCEPT ![r].pc = "copy", ![r].size = w.n, ![r].buf = << >>, ![r].wp = Zero]
    <3>1. rd'[r] = [rd[r] EXCEPT !.pc = "copy", !.size = w.n, !.buf = << >>, !.wp = Zero]
      <4>1. rd = [p \in Readers |-> rd[p]] BY DEF MInv
      <4> QED BY <2>4, <4>1
    <3>2. "copy" \in RdPcs /\ << >> \in Seq(Words) /\ Zero \in Pointer
      BY <1>5 DEF RdPcs, Slotted, Settled, Checked, Reading, Zero, Pointer
    <3>3. rd'[r] \in [pc : RdPcs, id : 0 .. NUM_READERS, fresh : BOOLEAN, rp : Pointer, wp : Pointer,
                      size : Nat, buf : Seq(Words)]
      BY <1>2, <2>1, <3>1, <3>2 DEF RdType
    <3>4. /\ rd'[r].pc = "copy" /\ rd'[r].id = rd[r].id /\ rd'[r].rp = rd[r].rp /\ rd'[r].size = w.n
          /\ rd'[r].buf = << >> /\ Len(rd'[r].buf) = 0
      BY <1>2, <3>1 DEF RdType
    <3>5. RdType(r)' BY <1>4, <2>1, <3>3, <3>4 DEF RdType
    <3>6. ASSUME Live(r) PROVE ReadOK(r)'
      <4>1. PICK a : a = rd[r].rp.ptr OBVIOUS
      <4>2. Fits(a, w.n)' /\ PayloadAt(a, w.n)' BY <1>3, <2>2, <3>6, <4>1 DEF Fits, PayloadAt, Boundary
      <4>3. Overlooked(r)' => a # write_pointer.ptr BY <1>3, <1>7, <3>4, <3>6, <4>1, PlacedStays
      <4>4. Before(rd[r].rp, write_pointer) BY <1>7, <3>6
      <4> QED BY <1>3, <3>4, <4>1, <4>2, <4>3, <4>4 DEF ReadOK, Before
    <3>7. rd'[r].pc \in Reading BY <3>4 DEF Reading
    <3> QED BY <1>1, <1>3, <3>4, <3>5, <3>6, <3>7, GoesOn
  <2> QED BY <1>11, <2>3, <2>4
<1>12. CASE Mine(r).valid /\ (w.kind = "data" \/ w = SizeTag(0)) /\ Goto(r, "crashed")
  <2>1. RdType(r)' /\ rd'[r].pc = "crashed" BY <1>4, <1>12, Moved
  <2>2. r \in adrift
    <3>1. SUFFICES ASSUME Live(r) PROVE FALSE BY <1>1, <1>12 DEF Live, Checked
    <3>2. w.kind # "data" BY <1>7, <3>1, WrittenWords
    <3>3. w = SizeTag(0) /\ w.kind = "size" /\ w.n = 0 /\ w # WrapTag BY <1>12, <3>2, WrittenWords
    <3>4. 0 \in Sizes BY <1>7, <3>1, <3>3 DEF Fits
    <3> QED BY <3>4, Constants
  <2> QED BY <1>3, <2>1, <2>2 DEF ReaderOK, ResetOK, Settled, Checked, Reading
<1> QED BY <1>6, <1>9, <1>10, <1>11, <1>12 DEF Trust

(* Over a tag or a message.                                                *)
LEMMA SelfAdvances ==
    ASSUME MInv, NEW r \in Readers, Advance(r)
    PROVE  RdType(r)' /\ ReaderOK(r)' /\ ResetOK(r)'
<1>1. rd[r].pc = "advance" /\ rd[r].pc \in Reading BY DEF Advance, Reading
<1>2. RdType(r) BY DEF MInv, ReadersOK
<1>3. UNCHANGED <<write_pointer, ring, pub, log>> /\ adrift \subseteq adrift' BY DEF Advance, Disturb
<1>4. rd[r].pc \in Slotted /\ rd[r].id \in Slots BY <1>1, WhileReading
<1>5. RdType(r)' /\ rd'[r].pc = "start" /\ rd'[r].id = rd[r].id BY <1>4, Cleaned DEF Advance
<1>6. PICK q \in Pointer : q = rd[r].wp BY <1>2 DEF RdType
<1>7. Mine(r)'.pointer = q /\ Mine(r)'.valid = Mine(r).valid /\ Mine(r)'.uid = Mine(r).uid
  <2>1. slot' = [slot EXCEPT ![rd[r].id].pointer = q] BY <1>6 DEF Advance
  <2> QED BY <1>4, <1>5, <2>1 DEF MInv, HeaderOK, Mine
<1>8. Live(r)' => Placed(r, Mine(r).pointer)'
  <2> SUFFICES ASSUME Live(r)' PROVE Placed(r, q)' BY <1>7
  <2>1. Live(r) BY <1>1, <1>3, <1>7 DEF Live, Checked
  <2>2. Placed(r, rd[r].rp) /\ ReadOK(r) BY <1>1, <2>1, WhileReading
  <2>3. Ahead(r, q) BY <1>1, <1>6, <2>2 DEF ReadOK
  <2> QED BY <1>3, <1>5, <2>2, <2>3, AheadIsPlaced, PlacedStays
<1> QED BY <1>5, <1>8 DEF ReaderOK, ResetOK, Checked, Reading

(* The copy stays within the ring, and takes the message's words.          *)
LEMMA SelfCopies ==
    ASSUME MInv, NEW r \in Readers, Copy(r)
    PROVE  RdType(r)' /\ ReaderOK(r)' /\ ResetOK(r)'
<1>1. rd[r].pc = "copy" /\ rd[r].pc \in Reading BY DEF Copy, Reading
<1>2. RdType(r) BY DEF MInv, ReadersOK
<1>3. UNCHANGED <<write_pointer, ring, pub, log, slot, adrift>> BY DEF Copy, shared, history
<1>4. rd[r].id \in Slots /\ (Live(r) => ReadOK(r)) BY <1>1, WhileReading
<1>5. PICK a, n, b : a = rd[r].rp.ptr /\ n = rd[r].size /\ b = rd[r].buf OBVIOUS
<1>6. /\ Size \in Nat /\ a \in 0 .. Size - 1 /\ n \in Nat /\ n \in Sizes /\ a + 1 + n < Size
      /\ b \in Seq(Words) /\ Len(b) \in Nat /\ Len(b) <= n
    BY <1>1, <1>2, <1>5, Numbers, Constants DEF RdType
<1>7. ASSUME NEW c \in Seq(Words), NEW pc \in {"copy", "store"},
             rd'[r] = [rd[r] EXCEPT !.pc = pc, !.buf = c], Len(c) <= n, pc = "store" => Len(c) = n,
             Live(r) => \A k \in 1 .. Len(c) : c[k] = ring[a + k]
      PROVE  RdType(r)' /\ ReaderOK(r)' /\ ResetOK(r)'
  <2>1. pc \in RdPcs /\ pc \in Reading BY DEF RdPcs, Slotted, Settled, Checked, Reading
  <2>2. rd'[r] \in [pc : RdPcs, id : 0 .. NUM_READERS, fresh : BOOLEAN, rp : Pointer, wp : Pointer,
                    size : Nat, buf : Seq(Words)]
    BY <1>2, <1>7, <2>1 DEF RdType
  <2>3. /\ rd'[r].pc = pc /\ rd'[r].id = rd[r].id /\ rd'[r].rp = rd[r].rp /\ rd'[r].size = n
        /\ rd'[r].buf = c
    BY <1>2, <1>5, <1>7 DEF RdType
  <2>4. RdType(r)' BY <1>4, <1>5, <1>6, <1>7, <2>2, <2>3 DEF RdType
  <2>5. ASSUME Live(r) PROVE ReadOK(r)'
    <3>1. /\ Before(rd[r].rp, write_pointer) /\ (Overlooked(r) => a # write_pointer.ptr)
          /\ Fits(a, n) /\ PayloadAt(a, n)
      BY <1>1, <1>4, <1>5, <2>5 DEF ReadOK
    <3>2. Fits(a, n)' /\ PayloadAt(a, n)' BY <1>3, <3>1 DEF Fits, PayloadAt, Boundary
    <3>3. Overlooked(r)' => a # write_pointer.ptr BY <1>3, <2>3, <3>1, PlacedStays
    <3>4. ring' = ring /\ write_pointer' = write_pointer BY <1>3
    <3> QED BY <1>5, <1>7, <2>3, <2>5, <3>1, <3>2, <3>3, <3>4 DEF ReadOK, Before
  <2> QED BY <1>1, <1>3, <2>1, <2>3, <2>4, <2>5, GoesOn
<1>8. Live(r) => \A k \in 1 .. Len(b) : b[k] = ring[a + k] BY <1>1, <1>4, <1>5 DEF ReadOK
<1>9. CASE Len(b) = n
  <2>1. rd' = [rd EXCEPT ![r].pc = "store"]
    <3>1. ~(rd[r].rp.ptr + Len(rd[r].buf) + 1 >= Size) BY <1>5, <1>6, <1>9
    <3> QED BY <1>5, <1>9, <3>1 DEF Copy
  <2>2. rd'[r] = [rd[r] EXCEPT !.pc = "store"] BY <2>1, RdUpdate
  <2>3. rd'[r] = [rd[r] EXCEPT !.pc = "store", !.buf = b] BY <1>2, <1>5, <2>2 DEF RdType
  <2> QED BY <1>6, <1>7, <1>8, <1>9, <2>3
<1>10. CASE Len(b) # n
  <2>1. PICK at : at = a + Len(b) + 1 OBVIOUS
  <2>2. at \in 0 .. Size - 1 /\ ~(at >= Size) BY <1>6, <1>10, <2>1
  <2>3. rd' = [rd EXCEPT ![r].buf = Append(b, ring[at])] BY <1>5, <1>10, <2>1, <2>2 DEF Copy
  <2>4. PICK c : c = Append(b, ring[at]) OBVIOUS
  <2>5. ring[at] \in Words BY <2>2 DEF MInv, QueueOK
  <2>6. c \in Seq(Words) /\ Len(c) = Len(b) + 1 /\ Len(c) <= n BY <1>6, <1>10, <2>4, <2>5
  <2>7. ASSUME NEW k \in 1 .. Len(c), Live(r) PROVE c[k] = ring[a + k]
    <3>1. CASE k \in 1 .. Len(b)
      <4>1. c[k] = b[k] BY <1>6, <2>4, <2>5, <3>1
      <4> QED BY <1>8, <2>7, <3>1, <4>1
    <3>2. CASE k = Len(b) + 1
      <4>1. c[k] = ring[at] BY <1>6, <2>4, <2>5, <3>2
      <4>2. at = a + k BY <1>6, <2>1, <3>2
      <4> QED BY <4>1, <4>2
    <3> QED BY <1>6, <2>6, <3>1, <3>2
  <2>8. rd'[r] = [rd[r] EXCEPT !.buf = c] BY <2>3, <2>4, RdUpdate
  <2>9. rd'[r] = [rd[r] EXCEPT !.pc = "copy", !.buf = c] BY <1>1, <1>2, <2>8 DEF RdType
  <2> QED BY <1>7, <2>6, <2>7, <2>9
<1> QED BY <1>9, <1>10

(* The pointer is stored, and what has been copied is a message.           *)
LEMMA SelfSaves ==
    ASSUME MInv, NEW r \in Readers, Store(r)
    PROVE  RdType(r)' /\ ReaderOK(r)' /\ ResetOK(r)'
<1>1. rd[r].pc = "store" /\ rd[r].pc \in Reading /\ Goto(r, "final") BY DEF Store, Reading
<1>2. RdType(r) BY DEF MInv, ReadersOK
<1>3. UNCHANGED <<write_pointer, ring, pub, log>> /\ adrift \subseteq adrift' BY DEF Store, Disturb
<1>4. rd[r].pc \in Slotted /\ rd[r].id \in Slots BY <1>1, WhileReading
<1>5. RdType(r)' /\ rd'[r].pc = "final" /\ rd'[r].id = rd[r].id /\ rd'[r].buf = rd[r].buf BY <1>1, <1>4, Moved
<1>6. PICK a, n, b : a = rd[r].rp.ptr /\ n = rd[r].size /\ b = rd[r].buf OBVIOUS
<1>7. /\ Size \in Nat /\ a \in 0 .. Size - 1 /\ n \in Nat /\ n \in Sizes /\ a + 1 + n < Size
      /\ b \in Seq(Words) /\ Len(b) = n
    BY <1>1, <1>2, <1>6, Numbers, Constants DEF RdType
<1>8. PICK q \in Pointer : q = NewPointer(r, n)
  <2>1. rd[r].rp \in Pointer BY <1>2 DEF RdType
  <2>2. [rd[r].rp EXCEPT !.ptr = rd[r].rp.ptr + 1 + n] \in Pointer BY <1>6, <1>7, <2>1 DEF Pointer
  <2> QED BY <2>2 DEF NewPointer
<1>9. Mine(r)'.pointer = q /\ Mine(r)'.valid = Mine(r).valid /\ Mine(r)'.uid = Mine(r).uid
  <2>1. slot' = [slot EXCEPT ![rd[r].id].pointer = q] BY <1>6, <1>8 DEF Store
  <2> QED BY <1>4, <1>5, <2>1 DEF MInv, HeaderOK, Mine
<1>10. ASSUME Live(r)' PROVE Placed(r, Mine(r).pointer)' /\ Whole(r)'
  <2>1. Live(r) BY <1>1, <1>3, <1>9, <1>10 DEF Live, Checked
  <2>2. Placed(r, rd[r].rp) /\ ReadOK(r) BY <1>1, <2>1, WhileReading
  <2>3. /\ Before(rd[r].rp, write_pointer) /\ Fits(a, n) /\ PayloadAt(a, n)
        /\ \A k \in 1 .. n : b[k] = ring[a + k]
    BY <1>1, <1>6, <1>7, <2>2 DEF ReadOK
  <2>4. Ahead(r, q) BY <1>6, <1>8, <2>3, EndIsAhead
  <2>5. Placed(r, q) BY <2>2, <2>4, AheadIsPlaced
  <2>6. Placed(r, q)' BY <1>3, <1>5, <2>5, PlacedStays
  <2>7. PICK m \in 1 .. Len(log) : log[m] = n /\ \A k \in 1 .. n : ring[a + k] = Payload(m, k)
    BY <2>3 DEF PayloadAt
  <2>8. b = Message(m)
    <3>1. b = [k \in 1 .. n |-> b[k]] BY <1>7
    <3>2. \A k \in 1 .. n : b[k] = Payload(m, k) BY <2>3, <2>7
    <3> QED BY <2>7, <3>1, <3>2 DEF Message
  <2>9. Whole(r)' BY <1>3, <1>5, <1>6, <2>8 DEF Whole, Message
  <2> QED BY <1>9, <2>6, <2>9
<1>11. ReaderOK(r)' BY <1>3, <1>4, <1>5, <1>9, <1>10 DEF ReaderOK, Reading
<1> QED BY <1>5, <1>11 DEF ResetOK

(* The last look at the flag.                                              *)
LEMMA SelfReturns ==
    ASSUME MInv, NEW r \in Readers, Final(r)
    PROVE  RdType(r)' /\ ReaderOK(r)' /\ ResetOK(r)'
<1>1. rd[r].pc = "final" /\ rd[r].pc \in Settled /\ rd[r].pc \in Slotted
    BY DEF Final, Settled, Slotted, Checked
<1>2. ReaderOK(r) BY DEF MInv, ReadersOK
<1>3. UNCHANGED <<write_pointer, ring, pub, log, slot, adrift>> BY DEF Final, shared
<1>4. CASE Clean(r, "reset") BY <1>1, <1>4, Cleaned, Unsettled
<1>5. CASE Clean(r, "idle")
  <2>1. RdType(r)' /\ rd'[r].pc = "idle" /\ rd'[r].id = rd[r].id BY <1>1, <1>5, Cleaned
  <2>2. Mine(r)' = Mine(r) BY <1>3, <2>1 DEF Mine
  <2>3. Live(r)' => Placed(r, Mine(r).pointer)'
    <3> SUFFICES ASSUME Live(r)', NEW p, p = Mine(r).pointer PROVE Placed(r, p)' BY <2>2
    <3>1. Live(r) BY <1>1, <1>3, <2>2 DEF Live, Checked
    <3>2. Placed(r, p) BY <1>1, <1>2, <3>1 DEF ReaderOK
    <3> QED BY <1>3, <2>1, <3>2, PlacedStays
  <2> QED BY <2>1, <2>3 DEF ReaderOK, ResetOK, Checked, Reading
<1> QED BY <1>4, <1>5 DEF Final
----------------------------------------------------------------------------
(* What is received is a message that has been sent, or the reader is      *)
(* adrift.                                                                 *)
LEMMA ReturnsWhole ==
    ASSUME MInv, NEW r \in Readers \ adrift, rd[r].pc = "final", Mine(r).valid
    PROVE  Whole(r)
<1>1. ReaderOK(r) BY DEF MInv, ReadersOK
<1>2. rd[r].pc \in Checked BY DEF Checked
<1>3. Live(r) BY <1>2 DEF Live
<1> QED BY <1>1, <1>3 DEF ReaderOK

(* The number of the message that a reader received last exists.           *)
LEMMA GotStays ==
    ASSUME MInv, NEW r \in Readers, Reader(r)
    PROVE  GotOK'
<1>1. got \in [Readers -> 0 .. Len(log)] /\ log' = log BY OneReader DEF MInv, GotOK
<1>2. log \in Seq(Sizes) /\ Len(log) \in Nat BY DEF MInv, QueueOK
<1>3. CASE got' = got BY <1>1, <1>3 DEF GotOK
<1>4. CASE ResetLoad(r) BY <1>1, <1>2, <1>4 DEF ResetLoad, GotOK
<1>5. CASE Final(r) /\ got' # got
  <2>1. rd[r].pc = "final" /\ Mine(r).valid /\ r \notin adrift /\ got' = [got EXCEPT ![r] = rd[r].buf[1].msg]
    BY <1>5 DEF Final
  <2>2. PICK m \in 1 .. Len(log) : rd[r].buf = Message(m) BY <2>1, ReturnsWhole DEF Whole
  <2>3. log[m] \in Nat /\ log[m] > 0 BY <1>2, Constants
  <2>4. rd[r].buf[1].msg = m BY <2>2, <2>3 DEF Message, Payload
  <2> QED BY <1>1, <1>2, <2>1, <2>4 DEF GotOK
<1> QED BY <1>3, <1>4, <1>5
       DEF Reader, Recv, SubStart, SubKill, Claim, EvictBegin, EvictAll, Enter, ResetValid, ResetStore, CheckUid,
           CheckValid, Compare, LoadSize, Trust, Advance, Copy, Store, history

(* A reader keeps the invariant.                                           *)
LEMMA ReaderKeeps == ASSUME MInv, NEW r \in Readers, Reader(r) PROVE MInv'
<1>1. LeavesOthers(r) /\ HeaderOK' BY ReaderLeaves
<1>2. QueueOK' BY <1>1, QueueStays DEF LeavesOthers, MInv
<1>3. rd' = [q \in Readers |-> rd'[q]] BY <1>1 DEF LeavesOthers
<1>4. RdType(r)' /\ ReaderOK(r)' /\ ResetOK(r)'
    BY SelfClaims, SelfLoads, SelfStores, SelfChecks, SelfCompares, SelfSizes, SelfTrusts, SelfAdvances,
       SelfCopies, SelfSaves, SelfReturns DEF Reader, Recv
<1>5. ReadersOK' BY <1>1, <1>4, OthersKeep DEF ReadersOK
<1> QED BY <1>1, <1>2, <1>3, <1>5, GotStays DEF MInv

(* Nothing has been sent and nobody has come up.                           *)
LEMMA InitOK == ASSUME Init PROVE MInv
<1>1. /\ Size \in Nat /\ Size > 0 /\ NUM_READERS \in Nat /\ NUM_READERS > 0 /\ Zero \in Pointer
      /\ Zero.cycles = 0 /\ Zero.ptr = 0
    BY Constants DEF Zero, Pointer
<1>2. /\ write_pointer = Zero /\ log = << >> /\ Len(log) = 0
      /\ pub = [pc |-> "off", size |-> 0, n |-> 0, i |-> 0, dirty |-> FALSE]
      /\ \A a \in 0 .. Size - 1 : ring[a] = SizeTag(0)
      /\ \A r \in Readers : rd[r] = Off
    BY DEF Init, Idle
<1>3. QueueOK
  <2>1. ring \in [0 .. Size - 1 -> Words] /\ log \in Seq(Sizes) BY <1>2, WrittenWords DEF Init
  <2>2. pub \in PubRecord
    <3>1. "off" \in PubPcs /\ 0 \in Nat /\ 0 \in 0 .. NUM_READERS BY <1>1 DEF PubPcs
    <3> QED BY <1>2, <3>1, PubMake
  <2>3. pub.pc = "off" /\ ~pub.dirty BY <1>2
  <2>4. PubType BY <2>2, <2>3 DEF PubType, Sending
  <2>5. PubOK BY <2>3 DEF PubOK, MayWrap, Writing
  <2>6. RingOK BY <1>1, <1>2, Tags, WrittenWords DEF RingOK, Boundary, TagsFit
  <2> QED BY <1>1, <1>2, <2>1, <2>4, <2>5, <2>6 DEF QueueOK
<1>4. HeaderOK
  <2>1. slot \in [Slots -> [pointer : Pointer, valid : BOOLEAN, uid : Readers \cup {Nobody}]]
    BY <1>1 DEF Init
  <2>2. left \in [starts : Nat, joins : [Readers -> Nat], sends : Seq(Sizes)] BY BudgetsAssumption DEF Init
  <2> QED BY <1>1, <2>1, <2>2 DEF Init, HeaderOK
<1>5. GotOK BY <1>2 DEF Init, GotOK
<1>6. rd = [r \in Readers |-> rd[r]] BY DEF Init
<1>7. ASSUME NEW r \in Readers PROVE RdType(r) /\ ReaderOK(r) /\ ResetOK(r)
  <2>1. rd[r] = [pc |-> "off", id |-> 0, fresh |-> FALSE, rp |-> Zero, wp |-> Zero, size |-> 0, buf |-> << >>]
    BY <1>2 DEF Off
  <2>2. "off" \in RdPcs /\ 0 \in 0 .. NUM_READERS /\ << >> \in Seq(Words) BY <1>1 DEF RdPcs
  <2>3. rd[r] \in [pc : RdPcs, id : 0 .. NUM_READERS, fresh : BOOLEAN, rp : Pointer, wp : Pointer,
                   size : Nat, buf : Seq(Words)]
    BY <1>1, <2>1, <2>2
  <2>4. rd[r].pc = "off" BY <2>1
  <2> QED BY <2>3, <2>4 DEF RdType, ReaderOK, ResetOK, Slotted, Settled, Checked, Reading
<1> QED BY <1>3, <1>4, <1>5, <1>6, <1>7 DEF MInv, ReadersOK

(* The invariant: the ring holds whole messages between boundaries, and a  *)
(* reader whose flag is on stands on one that the publisher will not write *)
(* over before it has looked at that reader again.                         *)
THEOREM MsgqInv == Spec => []MInv
<1>1. Init => MInv BY InitOK
<1>2. MInv /\ [Next]_vars => MInv'
  <2> SUFFICES ASSUME MInv, [Next]_vars PROVE MInv' OBVIOUS
  <2>1. CASE UNCHANGED vars
    <3>1. UNCHANGED <<write_pointer, ring, log, pub, rd, slot, num_readers, left, got, lagged, adrift>>
      BY <2>1 DEF vars, shared, history
    <3>2. QueueOK' BY <3>1, QueueStays DEF MInv
    <3>3. HeaderOK' /\ GotOK' /\ rd' = [r \in Readers |-> rd'[r]] BY <3>1 DEF MInv, HeaderOK, GotOK
    <3>4. ASSUME NEW r \in Readers PROVE RdType(r)' /\ ReaderOK(r)' /\ ResetOK(r)'
      <4>1. RdType(r) /\ ReaderOK(r) /\ ResetOK(r) BY DEF MInv, ReadersOK
      <4>2. RdType(r)' /\ ResetOK(r)'
        BY <3>1, <4>1 DEF RdType, ResetOK, Mine, UpTo, WithinLap, Boundary, Total
      <4>3. ReaderOK(r)'
        BY <3>1, <4>1 DEF ReaderOK, Mine, Live, Placed, ReadOK, Whole, Message, UpTo, Before, Boundary, Readable,
                          Fits, PayloadAt, Ahead, Overlooked, Uncounted, Evicting, Total
      <4> QED BY <4>2, <4>3
    <3> QED BY <3>2, <3>3, <3>4 DEF MInv, ReadersOK
  <2>2. CASE PubStart \/ PubClear \/ PubKill \/ Send BY <2>2, PubKeeps DEF PubStep
  <2>3. CASE \E r \in Readers : Reader(r) BY <2>3, ReaderKeeps
  <2> QED BY <2>1, <2>2, <2>3 DEF Next
<1> QED BY <1>1, <1>2, PTL DEF Spec

(* The shared memory, and what has been received, have their types: every  *)
(* pointer that is stored lies within the ring, and every word in it is    *)
(* one that the publisher wrote.                                           *)
THEOREM MsgqTypeCorrect == Spec => []TypeOK
<1>1. MInv => TypeOK BY DEF MInv, QueueOK, HeaderOK, GotOK, TypeOK
<1> QED BY <1>1, MsgqInv, PTL

(* No reader that is not adrift fails the asserts on the size.             *)
THEOREM SizesSafety == Spec => []SizesTrusted
<1>1. MInv => SizesTrusted BY DEF MInv, ReadersOK, ReaderOK, SizesTrusted
<1> QED BY <1>1, MsgqInv, PTL

(* A message that msgq_msg_recv returns to a reader that is not adrift is  *)
(* one that was published, word by word.                                   *)
THEOREM DeliverySafety == Spec => DeliveriesWhole
<1>1. MInv /\ [Next]_vars => [\A r \in Readers \ adrift : Delivers(r) => Whole(r)]_vars
  <2> SUFFICES ASSUME MInv, Next, NEW r \in Readers \ adrift, rd[r].pc = "final", rd'[r].pc = "idle"
               PROVE  Whole(r)
    BY DEF Delivers
  <2>1. CASE PubStep
    <3>1. rd' = rd BY <2>1, PubLeaves DEF MInv
    <3> QED BY <3>1
  <2>2. CASE \E q \in Readers : Reader(q)
    <3>1. PICK q \in Readers : Reader(q) BY <2>2
    <3>2. q = r BY <3>1, OneReader
    <3>3. rd[r].pc \in Slotted BY DEF Slotted, Settled, Checked
    <3>4. CASE Final(r) /\ Mine(r).valid BY <3>4, ReturnsWhole
    <3>5. CASE Final(r) /\ ~Mine(r).valid
      <4>1. Clean(r, "reset") BY <3>5 DEF Final
      <4>2. rd'[r].pc = "reset" BY <3>3, <4>1, Cleaned
      <4> QED BY <4>2
    <3>6. CASE SubKill(r)
      <4>1. rd'[r] = Off BY <3>6, RdUpdate DEF SubKill
      <4> QED BY <4>1 DEF Off
    <3> QED BY <3>1, <3>2, <3>4, <3>5, <3>6
           DEF Reader, Recv, SubStart, Claim, EvictBegin, EvictAll, Enter, ResetValid, ResetLoad, ResetStore, CheckUid,
               CheckValid, Compare, LoadSize, Trust, Advance, Copy, Store
  <2> QED BY <2>1, <2>2 DEF Next, PubStep
<1> QED BY <1>1, MsgqInv, PTL DEF Spec, DeliveriesWhole
=============================================================================
