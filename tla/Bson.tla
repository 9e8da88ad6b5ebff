-------------------------------- MODULE Bson --------------------------------
(***************************************************************************)
(* libat90/bson.c: serialize puts elements into a buffer, one per step, and*)
(* find_key looks for a key in the document, one element per step.         *)
(*                                                                         *)
(* Bytes are numbers, so that a length, a key or a value may look like the *)
(* identifier of an element.  The tests of the room that is left leave out *)
(* parts of what is written, so the memory goes on behind the buffer.      *)
(***************************************************************************)
EXTENDS Integers, Sequences, SequencesExt

CONSTANTS
  Elements,     \* what is serialized: records of id, key and val (bytes)
  Keys,         \* keys looked for
  Lengths,      \* sizes of the buffer
  Fill,         \* what the memory holds before
  MAX_KEY_LEN,
  MaxElements   \* bound on the elements of a document

VARIABLES
  phase,        \* "put", "refused", "done" or "find"
  mem, len,     \* the memory and the size of the buffer at its start
  size,         \* document_size
  put,          \* the elements that were put
  key, pos,     \* what find_key looks for, and where
  clobbered,    \* the pointers of the union that find_key has overwritten
  rc, found     \* its result, and the element it fills in
vars == <<phase, mem, len, size, put, key, pos, clobbered, rc, found>>

ID_DOUBLE == 1  ID_STRING == 2  ID_EMBEDED_DOCUMENT == 3  ID_ARRAY == 4  ID_BINARY == 5  ID_BOOL == 8
ID_NULL_VALUE == 10  ID_32_INTEGER == 16  ID_64_INTEGER == 18
Empty == {ID_NULL_VALUE, 6, 127, 255}
Nothing == [id |-> 0, val |-> <<>>]
Byte == 0 .. 255
\* The places behind the buffer that an element may reach.
Room == 40

-----------------------------------------------------------------------------
\* Least significant byte first; the numbers serialized are below 256.
LE(n) == <<n, 0, 0, 0>>
NumberAt(p) == mem[p + 1] + 256 * (mem[p + 2] + 256 * (mem[p + 3] + 256 * mem[p + 4]))
Bytes(p, n) == SubSeq(mem, p + 1, p + n)

Truncate(k) == SubSeq(k, 1, IF Len(k) < MAX_KEY_LEN THEN Len(k) ELSE MAX_KEY_LEN)
Head_(e) == <<e.id>> \o Truncate(e.key) \o <<0>>
Value(e) ==
  CASE e.id = ID_STRING -> LE(Len(e.val) + 1) \o e.val \o <<0>>
    [] e.id = ID_BINARY -> LE(Len(e.val)) \o <<0>> \o e.val
    [] OTHER -> e.val
\* The value of an embedded document is its elements, without documents in them.
Within(elements) == FlattenSeq([i \in DOMAIN elements |-> Head_(elements[i]) \o Value(elements[i])])
ValueOf(e) == IF e.id = ID_EMBEDED_DOCUMENT
              THEN LE(Len(Within(e.val)) + 5) \o Within(e.val) \o <<0>>
              ELSE Value(e)

\* serialize_element goes through with this many bytes left.  Only that of a
\* string counts the head of the element; the others test the value by itself.
FitsFlat(e, left) ==
  /\ left >= Len(Head_(e))
  /\ CASE e.id = ID_STRING -> left >= Len(Head_(e)) + Len(Value(e))
       [] e.id \in {ID_BOOL, ID_EMBEDED_DOCUMENT} \cup Empty -> TRUE
       [] OTHER -> left >= Len(Value(e))
\* An embedded document is told that it has all the bytes of its element.
Fits(e, left) ==
  /\ FitsFlat(e, left)
  /\ e.id = ID_EMBEDED_DOCUMENT =>
       /\ left >= 5
       /\ \A i \in DOMAIN e.val : FitsFlat(e.val[i], left - 4 - Len(Within(SubSeq(e.val, 1, i - 1))))

\* Identifiers of 64 bits, and the bytes of a value that always has as many.
Long == {ID_64_INTEGER, 9, 17}
ValueLen(id) == CASE id \in Empty -> 0 [] id = ID_BOOL -> 1 [] id = ID_32_INTEGER -> 4
               [] id \in Long \cup {ID_DOUBLE} -> 8
\* A key and a string are strings of C, without a zero.
FlatElement(e) ==
  /\ e.key \in Seq(1 .. 255)
  /\ \/ e.id = ID_STRING /\ e.val \in Seq(1 .. 255)
     \/ e.id = ID_BINARY /\ e.val \in Seq(Byte)
     \/ /\ e.id \in Empty \cup {ID_BOOL, ID_32_INTEGER, ID_DOUBLE} \cup Long
        /\ e.val \in Seq(Byte) /\ Len(e.val) = ValueLen(e.id)

BsonAssumption ==
  /\ MAX_KEY_LEN \in 0 .. Room - 1 /\ MaxElements \in Nat /\ Fill \subseteq Byte
  \* a buffer that serialize takes, and numbers that are one byte
  /\ Lengths \subseteq 5 .. 255 - Room
  /\ Keys \subseteq Seq(1 .. 255)
  /\ \A e \in Elements :
       /\ \/ FlatElement(e)
          \/ /\ e.id = ID_EMBEDED_DOCUMENT /\ e.key \in Seq(1 .. 255)
             /\ e.val \in Seq(ToSet(e.val)) /\ \A d \in ToSet(e.val) : FlatElement(d)
       /\ Len(Head_(e)) + Len(ValueOf(e)) < Room

Written(at, bytes) ==
  [i \in DOMAIN mem |-> IF i \in at + 1 .. at + Len(bytes) THEN bytes[i - at] ELSE mem[i]]

-----------------------------------------------------------------------------
Init ==
  /\ phase = "put" /\ len \in Lengths /\ size = 4 /\ put = <<>>
  /\ \E b \in Fill : mem = [i \in 1 .. len + Room |-> b]
  /\ key = <<>> /\ pos = 0 /\ clobbered = {} /\ rc = 0 /\ found = Nothing

\* The loop of serialize.  Nobody reads a buffer after a refusal.
AddElement ==
  /\ phase = "put" /\ Len(put) < MaxElements
  /\ \E e \in Elements :
       \/ /\ Fits(e, len - size)
          /\ mem' = Written(size, Head_(e) \o ValueOf(e))
          /\ size' = size + Len(Head_(e)) + Len(ValueOf(e)) /\ put' = Append(put, e)
          /\ UNCHANGED <<phase, rc>>
       \/ /\ ~Fits(e, len - size)
          /\ phase' = "refused" /\ rc' = -size
          /\ UNCHANGED <<mem, size, put>>
  /\ UNCHANGED <<len, key, pos, clobbered, found>>

\* The size and the terminator.
Finish ==
  /\ phase = "put"
  /\ size' = size + 1
  /\ mem' = [Written(0, LE(size + 1)) EXCEPT ![size + 1] = 0]
  /\ phase' = "done" /\ rc' = size + 1
  /\ UNCHANGED <<len, put, key, pos, clobbered, found>>

-----------------------------------------------------------------------------
find_key ==
  /\ phase = "done" /\ key' \in Keys
  /\ phase' = "find" /\ pos' = 4 /\ rc' = 0 /\ clobbered' = {} /\ found' = Nothing
  /\ UNCHANGED <<mem, len, size, put>>

\* strnlen of the key of the element at pos.
KeyLen == LET ends == {i \in 0 .. MAX_KEY_LEN : i = MAX_KEY_LEN \/ mem[pos + 2 + i] = 0}
          IN CHOOSE i \in ends : \A j \in ends : i <= j
ValueAt == pos + KeyLen + 2
KeyFound == Bytes(pos + 1, KeyLen) = Truncate(key)

Return(result, e) ==
  /\ phase' = "done" /\ rc' = result /\ found' = e
  /\ UNCHANGED <<pos, clobbered>>
GoOn(to) == pos' = to /\ UNCHANGED <<phase, rc, found>>
\* A value of n bytes at p: the answer, or skipped.
Take(p, n, id) ==
  IF len < p + n THEN Return(-p, found)
  ELSE IF KeyFound THEN Return(p + n, [id |-> id, val |-> Bytes(p, n)])
  ELSE GoOn(p + n) /\ UNCHANGED clobbered

FindString ==
  IF len < ValueAt + 4 THEN Return(-ValueAt, found)
  ELSE LET n == NumberAt(ValueAt) IN
       IF len < ValueAt + 4 + n THEN Return(-ValueAt - 4, found)
       ELSE IF ~KeyFound THEN GoOn(ValueAt + 4 + n) /\ UNCHANGED clobbered
       \* strncpy to a pointer that an earlier element may have overwritten
       ELSE Return(ValueAt + 4 + n,
                   [id |-> ID_STRING, val |-> IF "str" \in clobbered THEN <<>> ELSE Bytes(ValueAt + 4, n - 1)])

\* Slip: the subtype is not skipped.
FindBinaryShort ==
  IF len < ValueAt + 5 THEN Return(-ValueAt, found)
  ELSE LET n == NumberAt(ValueAt) IN GoOn(ValueAt + 4 + n) /\ UNCHANGED clobbered
FindBinary ==
  IF len < ValueAt + 5 THEN Return(-ValueAt, found)
  ELSE LET n == NumberAt(ValueAt) IN
       IF len < ValueAt + 5 + n THEN Return(-ValueAt - 5, found)
       ELSE IF ~KeyFound THEN GoOn(ValueAt + 5 + n) /\ clobbered' = clobbered \cup {"str"}
       ELSE Return(ValueAt + 5 + n,
                   [id |-> ID_BINARY, val |-> IF "data" \in clobbered THEN <<>> ELSE Bytes(ValueAt + 5, n)])

\* The length of a document counts its own four bytes, which are skipped twice.
\* The answer is where the document is.
FindDocument ==
  IF len < ValueAt + 4 THEN Return(-ValueAt, found)
  ELSE LET next == ValueAt + 4 + NumberAt(ValueAt) IN
       IF KeyFound THEN Return(next, [id |-> ID_EMBEDED_DOCUMENT, val |-> Bytes(ValueAt, NumberAt(ValueAt))])
       ELSE GoOn(next) /\ clobbered' = clobbered \cup {"str", "data"}

\* One turn of the loop of find_key.
Look ==
  /\ phase = "find"
  /\ IF ~(len > pos /\ size > pos) THEN Return(pos, found)
     ELSE IF len < ValueAt THEN Return(-ValueAt, found)
     ELSE LET id == mem[pos + 1] IN
          CASE id = ID_STRING -> FindString
            [] id = ID_BINARY -> FindBinary
            [] id = ID_EMBEDED_DOCUMENT -> FindDocument
            [] id \in Empty \cup {ID_ARRAY} -> Take(ValueAt, 0, id)
            [] id = ID_BOOL -> Take(ValueAt, 1, id)
            [] id = ID_32_INTEGER -> Take(ValueAt, 4, id)
            [] id \in Long -> Take(ValueAt, 8, id)
            [] OTHER -> Return(-ValueAt, found)
  /\ UNCHANGED <<mem, len, size, put, key>>

Next == AddElement \/ Finish \/ find_key \/ Look
Spec == Init /\ [][Next]_vars

-----------------------------------------------------------------------------
TypeOK ==
  /\ phase \in {"put", "refused", "done", "find"} /\ pos \in Nat /\ rc \in Int
  /\ size <= len + Room /\ Len(mem) = len + Room /\ Len(put) <= MaxElements

\* The first element with the key looked for; none is 0.
Place == LET hits == {i \in DOMAIN put : Truncate(put[i].key) = Truncate(key)}
         IN IF hits = {} THEN 0 ELSE CHOOSE i \in hits : \A j \in hits : i <= j
\* What find_key can read past: no embedded document, whose length it skips
\* wrongly, no double, which it does not know, and no binary before a string,
\* which takes the place of its pointer.
Readable(n) == \A i \in 1 .. n : put[i].id \notin {ID_EMBEDED_DOCUMENT, ID_DOUBLE}
Given(e) == IF e.id = ID_EMBEDED_DOCUMENT THEN ValueOf(e) ELSE e.val
Intact(n) == put[n].id = ID_STRING => \A i \in 1 .. n - 1 : put[i].id # ID_BINARY

\* In a document that fits its buffer, find_key gives a key's element as it was
\* serialized, and refuses a key that is not there, whatever the values of the
\* elements look like and whatever lay in the buffer before.
FindsWhatWasPut ==
  phase = "done" /\ key # <<>> /\ size <= len =>
    /\ Place # 0 /\ Readable(Place - 1) /\ put[Place].id # ID_DOUBLE /\ Intact(Place) =>
         /\ rc > 0
         /\ found = [id |-> put[Place].id, val |-> Given(put[Place])]
    /\ Place = 0 /\ Readable(Len(put)) => rc < 0
=============================================================================
