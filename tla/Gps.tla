-------------------------------- MODULE Gps ---------------------------------
(***************************************************************************)
(* nodes/GPSNode/src/gps.c: sentences are put together from the characters *)
(* of the GPS module, checked, and an RMC sentence is parsed at fixed      *)
(* places.  The line may lose or change characters.                        *)
(*                                                                         *)
(* A character is a code of five bits: digits are 16 to 23 and the others  *)
(* smaller, so that the checksum has two octal digits instead of two hex   *)
(* digits.  A sentence has one digit for each of its numbers:              *)
(*   $ type , status , latitude . fraction , N , speed * h h CR LF         *)
(***************************************************************************)
EXTENDS Naturals, Sequences, SequencesExt, FiniteSets

CONSTANTS
  Latitudes,    \* digits of a latitude
  MAX_SENTENCE_LEN,
  MaxSentences, \* bound on the sentences sent
  MaxFaults     \* bound on the characters lost or changed

GpsAssumption ==
  /\ Latitudes \subseteq 0 .. 7
  \* a sentence fits; the two characters at its end follow the last test of its length
  /\ MAX_SENTENCE_LEN \in Nat /\ MAX_SENTENCE_LEN >= 15
  /\ MaxSentences \in Nat /\ MaxFaults \in Nat

VARIABLES
  line,         \* what is still to come of the sentence being sent
  reading,      \* FALSE: waiting for a '$'
  s,            \* the sentence so far
  fix,          \* the last fix returned
  rc,           \* the last result of gps_get_fix; 2 before the first
  \* what happened
  sent,         \* the RMC sentences with a fix that were sent
  faults,
  got           \* calls of gps_get_fix that returned 0
vars == <<line, reading, s, fix, rc, sent, faults, got>>

Dollar == 1  RMC == 2  GGA == 3  Comma == 4  A == 5  V == 6  Dot == 7
North == 8  Star == 10  CR == 11  LF == 12
Digit(d) == 16 + d
NoFix == [valid |-> FALSE, latitude |-> 0, speed |-> 0]

-----------------------------------------------------------------------------
\* The exclusive or of two characters.
Xor(a, b) ==
  LET bit(p) == IF (a \div p) % 2 = (b \div p) % 2 THEN 0 ELSE p
  IN bit(1) + bit(2) + bit(4) + bit(8) + bit(16)
checksum(str) == LET c[i \in 0 .. Len(str)] == IF i = 0 THEN 0 ELSE Xor(c[i - 1], str[i])
                 IN c[Len(str)]

\* strtoul stops at the first character that is no digit.
strtoul(str) ==
  IF str[1] < 16 THEN 0
  ELSE IF str[2] < 16 THEN str[1] % 8 ELSE 8 * (str[1] % 8) + (str[2] % 8)

Sentence(body) ==
  <<Dollar>> \o body \o <<Star, Digit(checksum(body) \div 8), Digit(checksum(body) % 8), CR, LF>>
Body(type, status, latitude, speed) ==
  <<type, Comma, status, Comma, Digit(latitude), Dot, Digit(5), Comma, North, Comma, Digit(speed)>>
\* A sentence of an RMC without a fix has empty fields.
NoPosition == <<RMC, Comma, V, Comma, Comma, Comma, Comma>>

\* valid_sentence: the last two of str before CR LF, against the rest after '$'.
Valid(str) ==
  /\ Len(str) > 6
  /\ strtoul(SubSeq(str, Len(str) - 3, Len(str) - 2)) = checksum(SubSeq(str, 2, Len(str) - 5))

\* from_rmc: what is not there is the zero the sentence was filled with; -1 is
\* no value of a digit, as str2uint of anything else.
At(str, i) == IF i <= Len(str) THEN str[i] ELSE 0
str2uint(c) == (c + 16) % 32
FromRmc(str) ==
  [ok    |-> At(str, 7) = Dot /\ At(str, 9) = Comma,
   fix   |-> [valid |-> At(str, 4) = A, latitude |-> str2uint(At(str, 6)), speed |-> str2uint(At(str, 12))]]

-----------------------------------------------------------------------------
Init ==
  /\ line = <<>> /\ reading = FALSE /\ s = <<>> /\ fix = NoFix /\ rc = 2
  /\ sent = <<>> /\ faults = 0 /\ got = 0

\* The GPS module sends a sentence.
GpsSends ==
  /\ line = <<>> /\ Len(sent) < MaxSentences
  /\ \/ \E latitude \in Latitudes :
          LET f == [valid |-> TRUE, latitude |-> latitude, speed |-> latitude] IN
          /\ line' = Sentence(Body(RMC, A, latitude, latitude))
          /\ sent' = Append(sent, f)
     \/ /\ line' = Sentence(NoPosition) \/ line' = Sentence(Body(GGA, A, 1, 0))
        /\ sent' = Append(sent, NoFix)
  /\ UNCHANGED <<reading, s, fix, rc, faults, got>>

\* gps_get_fix returns.
Result(r, f) == reading' = FALSE /\ s' = <<>> /\ rc' = r /\ fix' = f

\* Slip: the checksum is not looked at.
EndOfSentenceUnchecked(str) ==
  /\ Result(IF At(str, 2) = RMC /\ FromRmc(str).ok THEN 0 ELSE 1, FromRmc(str).fix)
  /\ got' = got + 1

\* A sentence is complete.
EndOfSentence(str) ==
  LET good == At(str, 2) = RMC /\ Valid(str) /\ FromRmc(str).ok IN
  /\ Result(IF good THEN 0 ELSE 1, IF At(str, 2) = RMC /\ Valid(str) THEN FromRmc(str).fix ELSE fix)
  /\ got' = IF good THEN got + 1 ELSE got

\* build_sentence with its next character.  The sentence is given up when the
\* character would be the second past the end of the array; the line feed and
\* the terminator may follow it there.
Reads(c) ==
  \/ /\ ~reading /\ c # Dollar
     /\ UNCHANGED <<reading, s, fix, rc, got>>
  \/ /\ ~reading /\ c = Dollar
     /\ reading' = TRUE /\ s' = <<c>>
     /\ UNCHANGED <<fix, rc, got>>
  \/ /\ reading /\ c = LF
     /\ EndOfSentence(Append(s, c))
  \/ /\ reading /\ c # LF /\ Len(s) <= MAX_SENTENCE_LEN
     /\ s' = Append(s, c)
     /\ UNCHANGED <<reading, fix, rc, got>>
  \/ /\ reading /\ c # LF /\ Len(s) > MAX_SENTENCE_LEN
     /\ Result(1, fix)
     /\ UNCHANGED got

CharComes ==
  /\ line # <<>> /\ line' = Tail(line)
  /\ Reads(Head(line))
  /\ UNCHANGED <<sent, faults>>

CharLost ==
  /\ line # <<>> /\ line' = Tail(line)
  /\ faults < MaxFaults /\ faults' = faults + 1
  /\ UNCHANGED <<reading, s, fix, rc, sent, got>>

CharChanged ==
  /\ line # <<>> /\ line' = Tail(line)
  /\ faults < MaxFaults /\ faults' = faults + 1
  /\ \E c \in {Dollar, RMC, Digit(3), LF} \ {Head(line)} : Reads(c)
  /\ UNCHANGED sent

Next == GpsSends \/ CharComes \/ CharLost \/ CharChanged
Spec == Init /\ [][Next]_vars

-----------------------------------------------------------------------------
TypeOK ==
  /\ line \in Seq(1 .. 31) /\ reading \in BOOLEAN /\ Len(s) <= MAX_SENTENCE_LEN + 1
  /\ rc \in 0 .. 2 /\ faults \in 0 .. MaxFaults /\ got \in 0 .. Len(sent)

\* A fix that is returned is one the module sent, all of it, although characters
\* were lost or changed and two sentences may have run together.
FixWasSent == rc = 0 => fix \in ToSet(sent)

\* A character that is lost or changed costs at most two sentences: the parser
\* finds the start of the next one by itself.
FaultCostsTwo ==
  LET fixes == Cardinality({i \in DOMAIN sent : sent[i].valid})
  IN line = <<>> => got <= fixes /\ fixes <= got + 2 * faults
=============================================================================
