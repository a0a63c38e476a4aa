--------------------------- MODULE ApplicationProofs ---------------------------
(***************************************************************************)
(* The panic message of the application, for every size of the buffer and  *)
(* of the message, every content of the memory at power-on, and any number *)
(* of panics.                                                              *)
(***************************************************************************)
EXTENDS Application, TLAPS

LOCAL INSTANCE FiniteSetsExt

\* A length that was cleared comes from the panics since, and a handler that
\* hung did not find room for the last of them.
MessageFits == known => err <= unread * MESSAGE

PanicInv ==
    /\ err \in Nat /\ hung \in BOOLEAN /\ known \in BOOLEAN /\ unread \in Nat
    /\ MessageFits
    /\ HangsOnlyUnread

LEMMA PanicInvInit == Init => PanicInv
<1> SUFFICES ASSUME Init PROVE PanicInv
  OBVIOUS
<1>1. err \in Nat /\ hung = FALSE /\ known = FALSE /\ unread = 0
  BY PanicAssumption DEF Init, PanicInit
<1>2. unread \in Nat
  BY <1>1
<1> QED BY <1>1, <1>2, Zenon DEF PanicInv, MessageFits, HangsOnlyUnread

\* One more panic is one more message.
LEMMA OneMore ==
    ASSUME NEW n \in Nat, NEW len \in Nat
    PROVE  n * len \in Nat /\ (n + 1) * len = n * len + len
BY SMT

LEMMA PanicInvStep == PanicInv /\ [Next]_vars => PanicInv'
<1> SUFFICES ASSUME PanicInv, [Next]_vars PROVE PanicInv'
  OBVIOUS
<1>0. /\ err \in Nat /\ hung \in BOOLEAN /\ known \in BOOLEAN /\ unread \in Nat
      /\ PANIC_SIZE \in Nat /\ MESSAGE \in Nat /\ GARBAGE \subseteq Nat
  BY PanicAssumption DEF PanicInv
<1>1. ASSUME NEW wrapped \in BOOLEAN, NEW input \in INPUTS, Round(wrapped, input)
      PROVE  PanicInv'
  <2>1. CASE UNCHANGED panicVars
    BY <2>1 DEF panicVars, PanicInv, MessageFits, HangsOnlyUnread
  <2>2. CASE ClearMessage
    <3>1. err' = 0 /\ unread' = 0 /\ known' = TRUE /\ hung' = FALSE
      <4>1. ~hung
        BY <1>1, Zenon DEF Round
      <4> QED BY <1>0, <2>2, <4>1, Zenon DEF ClearMessage
    <3>2. err' \in Nat /\ unread' \in Nat /\ err' <= unread' * MESSAGE
      BY <1>0, <3>1
    <3> QED BY <3>1, <3>2, Zenon DEF PanicInv, MessageFits, HangsOnlyUnread
  <2> QED BY <1>1, <2>1, <2>2 DEF Round
<1>2. CASE Panic
  <2>1. /\ unread' = unread + 1 /\ known' = known
        /\ \/ err + MESSAGE > PANIC_SIZE /\ hung' = TRUE /\ err' = err
           \/ err' = err + MESSAGE /\ hung' = FALSE
    BY <1>0, <1>2 DEF Panic, OnPanic
  <2>2. unread * MESSAGE \in Nat /\ unread' * MESSAGE = unread * MESSAGE + MESSAGE
    BY <1>0, <2>1, OneMore
  <2> DEFINE before == unread * MESSAGE
             after  == unread' * MESSAGE
  <2>3. before \in Nat /\ after = before + MESSAGE /\ (known => err <= before)
    BY <2>2 DEF PanicInv, MessageFits
  <2>4. MessageFits' = (known' => err' <= after)
    BY DEF MessageFits
  <2>5. HangsOnlyUnread' = (hung' /\ known' => after > PANIC_SIZE)
    BY DEF HangsOnlyUnread
  <2> HIDE DEF before, after
  <2>6. (known' => err' <= after) /\ (hung' /\ known' => after > PANIC_SIZE)
    BY <1>0, <2>1, <2>3
  <2>7. err' \in Nat /\ unread' \in Nat
    BY <1>0, <2>1
  <2> QED BY <1>0, <2>1, <2>4, <2>5, <2>6, <2>7, Zenon DEF PanicInv
<1>3. CASE Reset
  BY <1>3 DEF Reset, KeepMessage, PanicInv, MessageFits, HangsOnlyUnread
<1>4. CASE PowerCut
  BY <1>0, <1>4 DEF PowerCut, LoseMessage, PanicInv, MessageFits, HangsOnlyUnread
<1>5. CASE UNCHANGED vars
  BY <1>5 DEF vars, panicVars, PanicInv, MessageFits, HangsOnlyUnread
<1> QED BY <1>1, <1>2, <1>3, <1>4, <1>5 DEF Next

\* Once the length was cleared, the panic handler panics only after more
\* panics than its buffer holds that no run has reported.
THEOREM HangsAreUnread == Spec => []HangsOnlyUnread
<1>1. PanicInv => HangsOnlyUnread
  BY DEF PanicInv
<1> QED BY <1>1, PanicInvInit, PanicInvStep, PTL DEF Spec

-----------------------------------------------------------------------------
\* The report.

Lesser(m, n) == IF m <= n THEN m ELSE n

LEMMA LesserIsMin == \A m, n \in Nat : Min({m, n}) = Lesser(m, n)
BY DEF Min, Lesser

\* Room is the number of messages the buffer holds; they do not fill it.
Room == PANIC_SIZE \div MESSAGE

LEMMA RoomFacts ==
    /\ Room \in Nat /\ Room > 0
    /\ Room * MESSAGE \in Nat /\ Room * MESSAGE < PANIC_SIZE
    /\ PANIC_SIZE < Room * MESSAGE + MESSAGE
BY PanicAssumption, SMTT(30) DEF Room

LEMMA MoreMessages ==
    ASSUME NEW m \in Nat, NEW n \in Nat, m < n
    PROVE  m * MESSAGE + MESSAGE <= n * MESSAGE
BY PanicAssumption, SMTT(30)

\* Once cleared, the length is that of the messages that found room.
Kept == Lesser(unread, Room)

ToldInv == known => err = Kept * MESSAGE

LEMMA ToldInvInit == Init => ToldInv
BY DEF Init, PanicInit, ToldInv

LEMMA ToldInvStep == PanicInv /\ ToldInv /\ [Next]_vars => ToldInv'
<1> SUFFICES ASSUME PanicInv, ToldInv, [Next]_vars PROVE ToldInv'
  OBVIOUS
<1>1. err \in Nat /\ unread \in Nat /\ MESSAGE \in Nat /\ MESSAGE > 0 /\ PANIC_SIZE \in Nat
  BY PanicAssumption DEF PanicInv
<1>2. ASSUME NEW wrapped \in BOOLEAN, NEW input \in INPUTS, Round(wrapped, input)
      PROVE  ToldInv'
  <2>1. CASE UNCHANGED panicVars
    BY <2>1 DEF panicVars, ToldInv, Kept
  <2>2. CASE ClearMessage
    <3>1. err' = 0 /\ unread' = 0
      BY <2>2 DEF ClearMessage
    <3>2. Kept' = 0 /\ 0 * MESSAGE = 0
      BY <1>1, <3>1, RoomFacts DEF Kept, Lesser, Room
    <3> QED BY <3>1, <3>2 DEF ToldInv
  <2> QED BY <1>2, <2>1, <2>2 DEF Round
<1>3. CASE Panic
  <2>1. /\ unread' = unread + 1 /\ known' = known
        /\ \/ err + MESSAGE > PANIC_SIZE /\ err' = err
           \/ err + MESSAGE <= PANIC_SIZE /\ err' = err + MESSAGE
    BY <1>1, <1>3 DEF Panic, OnPanic
  <2> SUFFICES ASSUME known PROVE err' = Kept' * MESSAGE
    BY <2>1 DEF ToldInv
  <2>2. err = Kept * MESSAGE /\ Kept \in Nat /\ Kept <= unread /\ Kept <= Room
    BY <1>1, RoomFacts DEF ToldInv, Kept, Lesser
  <2>3. CASE err + MESSAGE > PANIC_SIZE /\ err' = err
    <3>1. ~(Kept < Room)
      <4>1. Kept < Room => Kept * MESSAGE + MESSAGE <= Room * MESSAGE
        BY <2>2, RoomFacts, MoreMessages
      <4> DEFINE k == Kept * MESSAGE
                 r == Room * MESSAGE
      <4>2. k = err /\ r \in Nat /\ r < PANIC_SIZE /\ (Kept < Room => k + MESSAGE <= r)
        BY <2>2, <4>1, RoomFacts
      <4> HIDE DEF k, r
      <4> QED BY <1>1, <2>3, <4>2
    <3>2. Kept = Room /\ Kept' = Room
      BY <1>1, <2>1, <2>2, <3>1, RoomFacts DEF Kept, Lesser, Room
    <3> QED BY <2>2, <2>3, <3>2
  <2>4. CASE err + MESSAGE <= PANIC_SIZE /\ err' = err + MESSAGE
    <3>1. Kept # Room
      <4> DEFINE r == Room * MESSAGE
      <4>1. r \in Nat /\ PANIC_SIZE < r + MESSAGE /\ (Kept = Room => err = r)
        BY <2>2, RoomFacts
      <4> HIDE DEF r
      <4> QED BY <1>1, <2>4, <4>1
    <3>2. Kept' = Kept + 1
      BY <1>1, <2>1, <2>2, <3>1, RoomFacts DEF Kept, Lesser, Room
    <3> QED BY <1>1, <2>2, <2>4, <3>2, OneMore
  <2> QED BY <2>1, <2>3, <2>4
<1>4. CASE Reset
  BY <1>4 DEF Reset, KeepMessage, ToldInv, Kept
<1>5. CASE PowerCut
  BY <1>5 DEF PowerCut, LoseMessage, ToldInv
<1>6. CASE UNCHANGED vars
  BY <1>6 DEF vars, panicVars, ToldInv, Kept
<1> QED BY <1>2, <1>3, <1>4, <1>5, <1>6 DEF Next

\* Once the message was cleared, the report is what there is to tell.
LEMMA ReportIsTold ==
    ASSUME PanicInv, ToldInv, known
    PROVE  Report = Told
<1>1. /\ err = Kept * MESSAGE /\ unread \in Nat /\ MESSAGE \in Nat /\ MESSAGE > 0
      /\ PANIC_SIZE \in Nat /\ Kept \in Nat /\ Kept <= Room
  BY PanicAssumption, RoomFacts DEF ToldInv, PanicInv, Kept, Lesser
<1>2. Kept = Min({unread, PANIC_SIZE \div MESSAGE})
  BY <1>1, RoomFacts, LesserIsMin DEF Kept, Room
<1>3. CASE unread = 0
  <2>1. Kept = 0 /\ 0 * MESSAGE = 0
    BY <1>1, <1>3, RoomFacts DEF Kept, Lesser
  <2>2. ~HasMessage
    BY <1>1, <2>1 DEF HasMessage
  <2> QED BY <1>3, <2>2 DEF Report, Told
<1>4. CASE unread # 0
  <2>1. Kept > 0
    BY <1>1, <1>4, RoomFacts DEF Kept, Lesser
  <2>2. 0 * MESSAGE + MESSAGE <= Kept * MESSAGE /\ 0 * MESSAGE = 0
    BY <1>1, <2>1, MoreMessages
  <2>3. Kept = Room \/ Kept * MESSAGE + MESSAGE <= Room * MESSAGE
    BY <1>1, RoomFacts, MoreMessages
  <2> DEFINE k == Kept * MESSAGE
             r == Room * MESSAGE
  <2>4. k = err /\ k >= MESSAGE /\ r \in Nat /\ r < PANIC_SIZE /\ (k = r \/ k + MESSAGE <= r)
    BY <1>1, <2>2, <2>3, RoomFacts
  <2>5. k \in Nat
    BY <2>4 DEF PanicInv
  <2> HIDE DEF k, r
  <2>6. 0 < err /\ err < PANIC_SIZE
    BY <1>1, <2>4, <2>5
  <2>7. Kept * MESSAGE = MESSAGE * Kept
    BY <1>1
  <2> QED BY <1>1, <1>2, <1>4, <2>6, <2>7 DEF Report, HasMessage, Told
<1> QED BY <1>3, <1>4

-----------------------------------------------------------------------------
\* The log.

\* What is printed; what is read is never printed.
Name      == {"return", "manifest", "clear", "error"}
Character == Name \X Nat

\* What has its length has its places.
LEMMA FrontFits ==
    ASSUME NEW text \in Seq(Character), NEW n \in 0 .. Len(text)
    PROVE  SubSeq(text, 1, n) \in Seq(Character) /\ Len(SubSeq(text, 1, n)) = n
OBVIOUS

\* write_str never writes beyond the buffer.
LEMMA WriteFits ==
    ASSUME NEW written \in Seq(Character), Len(written) <= LOG_SIZE, NEW text \in Seq(Character)
    PROVE  /\ WriteStr(written, text) \in Seq(Character)
           /\ Len(WriteStr(written, text)) <= LOG_SIZE
<1> DEFINE n == Lesser(LOG_SIZE - Len(written), Len(text))
           front == SubSeq(text, 1, n)
<1>1. /\ LOG_SIZE - Len(written) \in Nat /\ Len(text) \in Nat
      /\ n \in 0 .. Len(text) /\ n <= LOG_SIZE - Len(written)
  BY LogAssumption DEF Lesser
<1>2. WriteStr(written, text) = written \o front
  BY <1>1, LesserIsMin DEF WriteStr
<1> HIDE DEF n
<1>3. front \in Seq(Character) /\ Len(front) = n
  BY <1>1, FrontFits
<1> HIDE DEF front
<1>4. written \o front \in Seq(Character) /\ Len(written \o front) = Len(written) + Len(front)
  BY <1>3
<1> QED BY <1>1, <1>2, <1>3, <1>4, LogAssumption

\* consume_debug leaves the characters its reader did not take.
LEMMA ConsumedFits ==
    ASSUME NEW written \in Seq(Character), NEW n \in 0 .. Len(written)
    PROVE  /\ Consumed(written, n) \in Seq(Character)
           /\ Len(Consumed(written, n)) = Len(written) - n
<1> DEFINE left == Len(written) - n
           at(i) == IF i <= n THEN left + i ELSE i
<1>1. left \in Nat /\ \A i \in 1 .. left : at(i) \in 1 .. Len(written)
  OBVIOUS
<1>2. Consumed(written, n) = [i \in 1 .. left |-> written[at(i)]]
  BY DEF Consumed
<1>3. \A j \in 1 .. Len(written) : written[j] \in Character
  OBVIOUS
<1> HIDE DEF left, at
<1>4. Consumed(written, n) \in [1 .. left -> Character]
  BY <1>1, <1>2, <1>3
<1>5. Consumed(written, n) \in Seq(Character) /\ Len(Consumed(written, n)) = left
  BY <1>1, <1>2, <1>4
<1> QED BY <1>5 DEF left

LEMMA TextFits ==
    /\ CR \in Character
    /\ \A name \in Name : \A n \in Nat : Text(name, n) \in Seq(Character)
<1>1. CR \in Character
  BY DEF CR, Character, Name
<1>2. ASSUME NEW name \in Name, NEW n \in Nat PROVE Text(name, n) \in Seq(Character)
  <2>1. \A k \in 1 .. n : <<name, k>> \in Character
    BY DEF Character
  <2>2. Text(name, n) \in [1 .. n -> Character]
    BY <2>1 DEF Text
  <2> QED BY <2>2
<1> QED BY <1>1, <1>2

LEMMA PrintedFits ==
    /\ ManifestText \in Seq(Character) /\ AllClear \in Seq(Character)
    /\ \A n \in Nat : ErrorText(n) \in Seq(Character)
<1>1. "manifest" \in Name /\ "clear" \in Name /\ "error" \in Name
  BY DEF Name
<1>2. ManifestText \in Seq(Character)
  BY <1>1, TextFits, ApplicationAssumption DEF ManifestText
<1>3. \A n \in Nat : Text("clear", 1) \in Seq(Character) /\ Text("error", 1 + n) \in Seq(Character)
  <2> TAKE n \in Nat
  <2>1. 1 \in Nat /\ 1 + n \in Nat
    OBVIOUS
  <2> QED BY <1>1, <2>1, TextFits, Zenon
<1>4. <<CR>> \in Seq(Character)
  BY TextFits
<1> QED BY <1>2, <1>3, <1>4 DEF AllClear, ErrorText

LogInv ==
    /\ log \in Seq(Character) /\ Len(log) <= LOG_SIZE /\ Len(sent) <= OUT_SIZE
    /\ timestamp \in 0 .. REPORT_AFTER /\ unread \in 0 .. MaxPanics

LEMMA FreshFits ==
    /\ <<>> \in Seq(Character) /\ Len(<<>>) = 0
    /\ 0 <= LOG_SIZE /\ 0 <= OUT_SIZE /\ 0 \in 0 .. REPORT_AFTER /\ 0 \in 0 .. MaxPanics
BY LogAssumption, ApplicationAssumption, PanicAssumption

LEMMA TransferFits ==
    ASSUME NEW input \in INPUTS, NEW printed \in Seq(Character), Len(printed) <= LOG_SIZE,
           Transfer(input, printed)
    PROVE  log' \in Seq(Character) /\ Len(log') <= LOG_SIZE /\ Len(sent') <= OUT_SIZE
<1> DEFINE n == Lesser(Len(printed), OUT_SIZE - Len(input))
<1>1. Len(input) \in Nat /\ Len(input) < OUT_SIZE /\ OUT_SIZE \in Nat
  BY ApplicationAssumption
<1>2. /\ n \in 0 .. Len(printed) /\ n <= OUT_SIZE
      /\ n = Min({Len(printed), OUT_SIZE - Len(input)})
  BY <1>1, LesserIsMin DEF Lesser
<1>3. sent' = SubSeq(printed, 1, n) /\ log' = Consumed(printed, n)
  BY <1>2 DEF Transfer
<1> HIDE DEF n
<1>4. Len(sent') = n
  BY <1>2, <1>3, FrontFits
<1>5. log' \in Seq(Character) /\ Len(log') = Len(printed) - n
  BY <1>2, <1>3, ConsumedFits
<1> QED BY <1>2, <1>4, <1>5, LogAssumption

LEMMA LogInvStep == PanicInv /\ LogInv /\ [Next]_vars => LogInv'
<1> SUFFICES ASSUME PanicInv, LogInv, [Next]_vars PROVE LogInv'
  OBVIOUS
<1>1. ASSUME NEW wrapped \in BOOLEAN, NEW input \in INPUTS, Round(wrapped, input)
      PROVE  LogInv'
  <2>1. timestamp' \in 0 .. REPORT_AFTER
    <3>1. Min({timestamp + 1, REPORT_AFTER}) = Lesser(timestamp + 1, REPORT_AFTER)
      BY LesserIsMin, ApplicationAssumption DEF LogInv
    <3>2. timestamp' \in {Lesser(timestamp + 1, REPORT_AFTER), 0, timestamp}
      BY <1>1, <3>1 DEF Round, Tick
    <3> QED BY <3>2, ApplicationAssumption DEF LogInv, Lesser
  <2>2. unread' \in 0 .. MaxPanics
    BY <1>1, FreshFits DEF Round, ClearMessage, panicVars, LogInv
  <2>3. Asked(input) \in Seq(Character) /\ Len(Asked(input)) <= LOG_SIZE
    BY WriteFits, PrintedFits DEF Asked, LogInv
  <2>4. Report \in Seq(Character)
    BY PrintedFits DEF Report, PanicInv
  <2>5. /\ WriteStr(Asked(input), Report) \in Seq(Character)
        /\ Len(WriteStr(Asked(input), Report)) <= LOG_SIZE
    BY <2>3, <2>4, WriteFits
  <2>6. Transfer(input, Asked(input)) \/ Transfer(input, WriteStr(Asked(input), Report))
    BY <1>1 DEF Round
  <2>7. log' \in Seq(Character) /\ Len(log') <= LOG_SIZE /\ Len(sent') <= OUT_SIZE
    BY <2>3, <2>5, <2>6, TransferFits
  <2> QED BY <2>1, <2>2, <2>7 DEF LogInv
<1>2. CASE Panic
  <2>1. unread < MaxPanics /\ unread' = unread + 1
    BY <1>2 DEF Panic, OnPanic
  <2>2. unread' \in 0 .. MaxPanics
    BY <2>1, PanicAssumption DEF LogInv
  <2>3. UNCHANGED appVars \/ Fresh
    BY <1>2 DEF Panic
  <2> QED BY <2>2, <2>3, FreshFits DEF LogInv, Fresh, appVars
<1>3. CASE Reset
  BY <1>3, FreshFits DEF Reset, KeepMessage, Fresh, LogInv
<1>4. CASE PowerCut
  BY <1>4, FreshFits DEF PowerCut, LoseMessage, Fresh, LogInv
<1>5. CASE UNCHANGED vars
  BY <1>5 DEF vars, panicVars, appVars, LogInv
<1> QED BY <1>1, <1>2, <1>3, <1>4, <1>5 DEF Next

\* The log stays within its buffer, and what is sent within the output's: a
\* full log drops text and a read never takes more than there is.
THEOREM ApplicationTypes == Spec => []TypeOK
<1>1. Init => LogInv
  BY FreshFits DEF Init, PanicInit, LogInv
<1>2. PanicInv /\ LogInv => TypeOK
  BY DEF PanicInv, LogInv, TypeOK
<1> QED BY <1>1, <1>2, PanicInvInit, PanicInvStep, LogInvStep, PTL DEF Spec

-----------------------------------------------------------------------------
\* What a run tells.

LEMMA BehindFirst ==
    ASSUME NEW s \in Seq(Character), NEW t \in Seq(Character)
    PROVE  SubSeq(s \o t, Len(s) + 1, Len(s) + Len(t)) = t
OBVIOUS

\* write_str puts the text behind what there was, as far as there is room.
LEMMA WriteBehind ==
    ASSUME NEW written \in Seq(Character), Len(written) <= LOG_SIZE, NEW text \in Seq(Character),
           NEW n, n = Lesser(LOG_SIZE - Len(written), Len(text))
    PROVE  /\ n \in Nat /\ n = Min({LOG_SIZE - Len(written), Len(text)})
           /\ WriteStr(written, text) \in Seq(Character)
           /\ Len(WriteStr(written, text)) = Len(written) + n
           /\ SubSeq(WriteStr(written, text), Len(written) + 1, Len(written) + n)
                 = SubSeq(text, 1, n)
<1> DEFINE front == SubSeq(text, 1, n)
<1>1. /\ LOG_SIZE - Len(written) \in Nat /\ Len(text) \in Nat
      /\ n \in 0 .. Len(text) /\ n \in Nat
  BY LogAssumption DEF Lesser
<1>2. n = Min({LOG_SIZE - Len(written), Len(text)})
  BY <1>1, LesserIsMin
<1>3. WriteStr(written, text) = written \o front
  BY <1>2 DEF WriteStr
<1>4. front \in Seq(Character) /\ Len(front) = n
  BY <1>1, FrontFits
<1>5. SubSeq(WriteStr(written, text), Len(written) + 1, Len(written) + n) = front
  BY <1>3, <1>4, BehindFirst
<1> HIDE DEF front
<1>6. written \o front \in Seq(Character) /\ Len(written \o front) = Len(written) + Len(front)
  BY <1>4
<1> QED BY <1>1, <1>2, <1>3, <1>4, <1>5, <1>6 DEF front

\* What the log holds before the report, a manifest that was asked for included.
LEMMA AskedFits ==
    ASSUME log \in Seq(Character), Len(log) <= LOG_SIZE, NEW input
    PROVE  /\ Asked(input) \in Seq(Character) /\ Len(Asked(input)) <= LOG_SIZE
           /\ \E manifest \in {0, MANIFEST} :
                 Len(Asked(input)) = Min({LOG_SIZE, Len(log) + manifest})
<1>1. LOG_SIZE \in Nat /\ MANIFEST \in Nat /\ Len(log) \in Nat
  BY LogAssumption, ApplicationAssumption
<1>2. ASSUME NEW m \in Nat
      PROVE  Min({LOG_SIZE, Len(log) + m}) = Lesser(LOG_SIZE, Len(log) + m)
  BY <1>1, LesserIsMin
<1>3. CASE Asked(input) = log
  <2>1. Len(log) = Lesser(LOG_SIZE, Len(log) + 0)
    BY <1>1 DEF Lesser
  <2> QED BY <1>1, <1>2, <1>3, <2>1
<1>4. CASE Asked(input) = WriteStr(log, ManifestText)
  <2>1. ManifestText \in Seq(Character) /\ Len(ManifestText) = MANIFEST
    BY <1>1, PrintedFits DEF ManifestText, Text
  <2> DEFINE n == Lesser(LOG_SIZE - Len(log), Len(ManifestText))
  <2>2. /\ WriteStr(log, ManifestText) \in Seq(Character)
        /\ Len(WriteStr(log, ManifestText)) = Len(log) + n
    BY <2>1, WriteBehind
  <2>3. Len(log) + n = Lesser(LOG_SIZE, Len(log) + MANIFEST) /\ Len(log) + n <= LOG_SIZE
    BY <1>1, <2>1 DEF Lesser
  <2> HIDE DEF n
  <2> QED BY <1>1, <1>2, <1>4, <2>2, <2>3
<1> QED BY <1>3, <1>4 DEF Asked

\* The report of a run, if it is not the first since power-on, is in the log as
\* far as there is room for it: it tells every panic since the last report of
\* which the message buffer had room for the message, and all clear when there
\* was none.
THEOREM PanicsAreTold == Spec => PanicIsTold
<1> DEFINE ToldNow ==
        \E manifest \in {0, MANIFEST} :
            LET used == Min({LOG_SIZE, Len(log) + manifest})
                fits == Min({LOG_SIZE - used, Len(Told)})
            IN  /\ Len(was') = used + fits
                /\ SubSeq(was', used + 1, used + fits) = SubSeq(Told, 1, fits)
<1>1. ASSUME PanicInv, ToldInv, LogInv, Next, ~trace_printed, trace_printed', known
      PROVE  ToldNow
  <2>1. PICK wrapped \in BOOLEAN, input \in INPUTS : Round(wrapped, input)
    <3>1. ~Panic /\ ~Reset /\ ~PowerCut
      BY <1>1 DEF Panic, Reset, PowerCut, Fresh, appVars
    <3> QED BY <1>1, <3>1 DEF Next
  <2>2. Transfer(input, WriteStr(Asked(input), Report))
    BY <1>1, <2>1 DEF Round
  <2> DEFINE a == Asked(input)
             n == Lesser(LOG_SIZE - Len(a), Len(Told))
  <2>3. was' = WriteStr(a, Told)
    BY <1>1, <2>2, ReportIsTold DEF Transfer
  <2>4. Told \in Seq(Character)
    BY <1>1, ReportIsTold, PrintedFits DEF Report, PanicInv
  <2>5. /\ a \in Seq(Character) /\ Len(a) <= LOG_SIZE
        /\ \E manifest \in {0, MANIFEST} : Len(a) = Min({LOG_SIZE, Len(log) + manifest})
    BY <1>1, AskedFits DEF LogInv
  <2> HIDE DEF a
  <2>6. /\ n = Min({LOG_SIZE - Len(a), Len(Told)})
        /\ Len(WriteStr(a, Told)) = Len(a) + n
        /\ SubSeq(WriteStr(a, Told), Len(a) + 1, Len(a) + n) = SubSeq(Told, 1, n)
    BY <2>4, <2>5, WriteBehind
  <2> HIDE DEF n
  <2>7. PICK manifest \in {0, MANIFEST} : Len(a) = Min({LOG_SIZE, Len(log) + manifest})
    BY <2>5
  <2> DEFINE used == Min({LOG_SIZE, Len(log) + manifest})
             fits == Min({LOG_SIZE - used, Len(Told)})
  <2>8. used = Len(a) /\ fits = n
    BY <2>6, <2>7
  <2>9. Len(was') = used + fits /\ SubSeq(was', used + 1, used + fits) = SubSeq(Told, 1, fits)
    BY <2>3, <2>6, <2>8
  <2> QED BY <2>9
<1>2. PanicInv /\ ToldInv /\ LogInv /\ [Next]_vars =>
          [~trace_printed /\ trace_printed' /\ known => ToldNow]_vars
  <2> HIDE DEF ToldNow
  <2> QED BY <1>1
<1>3. Init => LogInv
  BY FreshFits DEF Init, PanicInit, LogInv
<1> QED BY <1>2, <1>3, PanicInvInit, PanicInvStep, ToldInvInit, ToldInvStep, LogInvStep, PTL
        DEF Spec, PanicIsTold
=============================================================================
