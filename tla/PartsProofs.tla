----------------------------- MODULE PartsProofs -----------------------------
(***************************************************************************)
(* The smaller parts, each for all values of its constants: both ends of    *)
(* the socket (Netlink), reading numbers (Kstrtox), patterns (PreProcess),  *)
(* the QQ handler (QQ), bytes per server (NdInfo), and the tree of          *)
(* well-known ports (PortTree).                                            *)
(***************************************************************************)
EXTENDS Netlink, Kstrtox, PreProcess, QQ, NdInfo, PortTree,
        SumProofs, SequenceTheorems, FunctionTheorems, TLAPS

-----------------------------------------------------------------------------
(* Netlink: any number of programs, any command lines and any sizes of the  *)
(* reply's buffer, its lines and their number.                             *)

(* Who is in the kernel's input function holds the mutex.                  *)
Held == \A c \in Clients : Inside(c) => mutex = c

(* What is printed or answered was counted.                                *)
Counted == \A c \in Clients : at[c] \in {"print", "answer"} => c \in served

(* buf is empty outside count_total(); between two lines there is room for  *)
(* one like the first.                                                     *)
Writing ==
  /\ (\A c \in Clients : at[c] \notin {"print", "answer", "oops"}) => text = Blank
  /\ \A c \in Clients : at[c] = "print" => text = Blank \/ (text.rows > 0 /\ ~Cramped(text))

NetlinkInv == TypeOK /\ Held /\ Counted /\ Writing /\ AnswerMine /\ ReplyFits

LEMMA BlankFits ==
  Blank \in Texts /\ ~Overrun(Blank) /\ BufLen \in Nat
  BY ReportAssumption DEF Blank, Texts, Overrun

LEMMA NetlinkInit ==
  ASSUME Init
  PROVE  NetlinkInv
  BY BlankFits DEF Init, NetlinkInv, TypeOK, Held, Counted, Writing, AnswerMine, ReplyFits,
     Inside, Places

(* One more line: the buffer holds it, or it is longer than the first.     *)
LEMMA PutLineFits ==
  ASSUME NEW t \in Texts, NEW len \in LineLens, t.rows < MaxRows,
         t = Blank \/ (t.rows > 0 /\ ~Cramped(t))
  PROVE  /\ PutLine(t, len) \in Texts
         /\ PutLine(t, len).rows > 0
         /\ Overrun(PutLine(t, len)) => PutLine(t, len).last > PutLine(t, len).per
<1> DEFINE u == PutLine(t, len)
<1>1. /\ BufLen \in Nat /\ MaxRows \in Nat /\ len \in 1..(BufLen - 1)
      /\ t.rows \in Nat /\ t.used \in Nat /\ t.per \in Nat
  BY ReportAssumption DEF Texts
<1>2. /\ u.rows = t.rows + 1 /\ u.used = t.used + len /\ u.last = len
      /\ u.per = IF t.rows = 0 THEN len ELSE t.per
      /\ u = [rows |-> u.rows, used |-> u.used, per |-> u.per, last |-> u.last]
  BY DEF PutLine
<1>3. CASE t = Blank
  <2>1. t.rows = 0 /\ t.used = 0
    BY <1>3 DEF Blank
  <2>2. u.used < BufLen /\ u.rows = 1 /\ u.per = len
    BY <1>1, <1>2, <2>1
  <2>3. u \in Texts
    BY <1>1, <1>2, <2>1, <2>2 DEF Texts
  <2>4. QED
    BY <1>1, <1>2, <2>1, <2>2, <2>3 DEF Overrun
<1>4. CASE t.rows > 0 /\ ~Cramped(t)
  <2>1. t.used + t.per + 1 <= BufLen
    BY <1>1, <1>4 DEF Cramped
  <2>2. u.per = t.per /\ u.rows > 0 /\ u.used <= 2 * BufLen /\ (u.used >= BufLen => len > t.per)
    BY <1>1, <1>2, <1>4, <2>1
  <2>3. u \in Texts
    BY <1>1, <1>2, <2>2 DEF Texts
  <2>4. QED
    BY <1>2, <2>2, <2>3 DEF Overrun
<1>5. QED
  BY <1>3, <1>4

(* Steps that leave buf alone and move one program.                        *)

(* Program c goes from one place outside count_total() to another.         *)
LEMMA OutsideStep ==
  ASSUME NetlinkInv, NEW c \in Clients,
         UNCHANGED <<text, kernel>>, served' = served,
         \/ Open(c) \/ Send(c) \/ SendFails(c) \/ TakePid(c) \/ Receive(c)
         \/ ReceiveFails(c) \/ Kill(c)
  PROVE  NetlinkInv'
<1>1. /\ at' \in [Clients -> Places]
      /\ \A d \in Clients : at'[d] = at[d] \/ (d = c /\ ~Inside(c) /\ ~Inside(c)')
  BY DEF NetlinkInv, TypeOK, Open, Send, SendFails, TakePid, Receive, ReceiveFails, Kill,
     Goto, Places, Inside
<1>2. mutex' = mutex /\ lost' \in SUBSET Clients /\ pid' \in Clients \cup {NoPid}
  BY DEF NetlinkInv, TypeOK, Open, Send, SendFails, TakePid, Receive, ReceiveFails, Kill
<1>3. \A d \in Clients : queue'[d] \subseteq queue[d]
  BY DEF NetlinkInv, TypeOK, Open, Send, SendFails, TakePid, Receive, ReceiveFails, Kill
<1>4. queue' \in [Clients -> SUBSET (Clients \cup {"log"})]
  BY DEF NetlinkInv, TypeOK, Open, Send, SendFails, TakePid, Receive, ReceiveFails, Kill
<1>5. TypeOK'
  BY <1>1, <1>2, <1>4 DEF NetlinkInv, TypeOK, Inside, Places
<1>6. Held' /\ Counted'
  BY <1>1, <1>2 DEF NetlinkInv, Held, Counted, Inside
<1>7. Writing'
  BY <1>1 DEF NetlinkInv, Writing, Inside
<1>8. AnswerMine' /\ ReplyFits'
  BY <1>3 DEF NetlinkInv, AnswerMine, ReplyFits
<1>9. QED
  BY <1>5, <1>6, <1>7, <1>8 DEF NetlinkInv

(* Into the input function, and out of it: the mutex is taken and released. *)
LEMMA LockStep ==
  ASSUME NetlinkInv, NEW c \in Clients, LockMutex(c)
  PROVE  NetlinkInv'
<1>1. /\ at[c] = "entered" /\ at' = [at EXCEPT ![c] = "switch"]
      /\ mutex = "free" /\ mutex' = c
      /\ UNCHANGED <<text, queue, pid, served, kernel, lost>>
  BY DEF LockMutex, Goto
<1>2. \A d \in Clients : ~Inside(d) \/ mutex = d
  BY DEF NetlinkInv, Held
<1>3. TypeOK'
  BY <1>1 DEF NetlinkInv, TypeOK, Places, Inside
<1>4. Held' /\ Counted'
  BY <1>1, <1>2, NetlinkAssumption DEF NetlinkInv, TypeOK, Held, Counted, Inside
<1>5. Writing' /\ AnswerMine' /\ ReplyFits'
  BY <1>1 DEF NetlinkInv, TypeOK, Writing, AnswerMine, ReplyFits
<1>6. QED
  BY <1>3, <1>4, <1>5 DEF NetlinkInv

LEMMA UnlockStep ==
  ASSUME NetlinkInv, NEW c \in Clients, UnlockMutex(c)
  PROVE  NetlinkInv'
<1>1. /\ at[c] = "leave" /\ at' = [at EXCEPT ![c] = "sent"]
      /\ mutex' = "free"
      /\ UNCHANGED <<text, queue, pid, served, kernel, lost>>
  BY DEF UnlockMutex, Goto
<1>2. \A d \in Clients : Inside(d) => d = c
  BY <1>1 DEF NetlinkInv, Held, Inside
<1>3. TypeOK'
  BY <1>1 DEF NetlinkInv, TypeOK, Places
<1>4. Held' /\ Counted'
  BY <1>1, <1>2 DEF NetlinkInv, TypeOK, Held, Counted, Inside
<1>5. Writing' /\ AnswerMine' /\ ReplyFits'
  BY <1>1 DEF NetlinkInv, TypeOK, Writing, AnswerMine, ReplyFits
<1>6. QED
  BY <1>3, <1>4, <1>5 DEF NetlinkInv

(* Steps inside, of the one program whose request is served.               *)

(* The program inside is alone there.                                      *)
LEMMA Alone ==
  ASSUME NetlinkInv, NEW c \in Clients, NEW d \in Clients, Inside(c), Inside(d)
  PROVE  c = d
  BY DEF NetlinkInv, Held

LEMMA SwitchStep ==
  ASSUME NetlinkInv, NEW c \in Clients, Switch(c)
  PROVE  NetlinkInv'
<1>1. /\ at[c] = "switch" /\ at' \in [Clients -> Places]
      /\ at'[c] \in {"count", "leave"} /\ \A d \in Clients \ {c} : at'[d] = at[d]
      /\ UNCHANGED <<mutex, text, queue, pid, served, kernel, lost>>
  BY DEF Switch, Goto, NetlinkInv, TypeOK, Places
<1>2. TypeOK'
  BY <1>1 DEF NetlinkInv, TypeOK, Inside
<1>3. Held' /\ Counted'
  BY <1>1 DEF NetlinkInv, TypeOK, Held, Counted, Inside
<1>4. Writing' /\ AnswerMine' /\ ReplyFits'
  BY <1>1 DEF NetlinkInv, TypeOK, Writing, AnswerMine, ReplyFits
<1>5. QED
  BY <1>2, <1>3, <1>4 DEF NetlinkInv

LEMMA CountStep ==
  ASSUME NetlinkInv, NEW c \in Clients, Count(c)
  PROVE  NetlinkInv'
<1>1. /\ at[c] = "count" /\ at' = [at EXCEPT ![c] = "print"]
      /\ served' = served \cup {c}
      /\ UNCHANGED <<mutex, text, queue, pid, kernel, lost>>
  BY DEF Count, Goto
<1>2. text = Blank
  <2>1. \A d \in Clients : at[d] \notin {"print", "answer", "oops"}
    BY <1>1, Alone DEF Inside
  <2>2. QED
    BY <2>1 DEF NetlinkInv, Writing
<1>3. TypeOK'
  BY <1>1, <1>2 DEF NetlinkInv, TypeOK, Places, Inside
<1>4. Held' /\ Counted'
  BY <1>1 DEF NetlinkInv, TypeOK, Held, Counted, Inside
<1>5. Writing' /\ AnswerMine' /\ ReplyFits'
  BY <1>1, <1>2 DEF NetlinkInv, TypeOK, Writing, AnswerMine, ReplyFits
<1>6. QED
  BY <1>3, <1>4, <1>5 DEF NetlinkInv

LEMMA PrintRowStep ==
  ASSUME NetlinkInv, NEW c \in Clients, PrintRow(c)
  PROVE  NetlinkInv'
<1>1. PICK len \in LineLens :
        /\ at[c] = "print" /\ text.rows < MaxRows
        /\ text' = PutLine(text, len)
        /\ at' = [at EXCEPT ![c] = IF Overrun(text') THEN "oops"
                                   ELSE IF Cramped(text') THEN "answer" ELSE "print"]
        /\ UNCHANGED <<mutex, queue, pid, kernel, served, lost>>
  BY DEF PrintRow, Goto
<1>2. \A d \in Clients \ {c} : ~Inside(d)
  BY <1>1, Alone DEF Inside
<1>3. /\ text' \in Texts /\ text'.rows > 0
      /\ Overrun(text') => text'.last > text'.per
  BY <1>1, PutLineFits DEF NetlinkInv, TypeOK, Writing
<1>4. TypeOK'
  <2>1. at'[c] = "answer" => ~Overrun(text')
    BY <1>1 DEF NetlinkInv, TypeOK
  <2>2. QED
    BY <1>1, <1>2, <1>3, <2>1 DEF NetlinkInv, TypeOK, Places, Inside
<1>5. Held' /\ Counted'
  BY <1>1 DEF NetlinkInv, TypeOK, Held, Counted, Inside
<1>6. Writing'
  <2>1. at'[c] = "print" => ~Cramped(text')
    BY <1>1 DEF NetlinkInv, TypeOK
  <2>2. at'[c] \in {"print", "answer", "oops"}
    BY <1>1 DEF NetlinkInv, TypeOK
  <2>3. \A d \in Clients \ {c} : at'[d] # "print"
    BY <1>1, <1>2 DEF NetlinkInv, TypeOK, Inside
  <2>4. QED
    BY <1>3, <2>1, <2>2, <2>3 DEF Writing, Cramped
<1>7. AnswerMine' /\ ReplyFits'
  BY <1>1, <1>3 DEF NetlinkInv, AnswerMine, ReplyFits
<1>8. QED
  BY <1>4, <1>5, <1>6, <1>7 DEF NetlinkInv

LEMMA PrintEndStep ==
  ASSUME NetlinkInv, NEW c \in Clients, PrintEnd(c)
  PROVE  NetlinkInv'
<1>1. /\ at[c] = "print" /\ at' = [at EXCEPT ![c] = "answer"]
      /\ text.rows > 0
      /\ UNCHANGED <<mutex, text, queue, pid, served, kernel, lost>>
  BY DEF PrintEnd, Goto
<1>2. ~Overrun(text)
  <2>1. text \in Texts /\ ~Cramped(text)
    BY <1>1 DEF NetlinkInv, TypeOK, Writing, Blank
  <2>2. QED
    BY <2>1, BlankFits DEF Texts, Cramped, Overrun
<1>3. TypeOK'
  BY <1>1, <1>2 DEF NetlinkInv, TypeOK, Places, Inside
<1>4. Held' /\ Counted'
  BY <1>1 DEF NetlinkInv, TypeOK, Held, Counted, Inside
<1>5. Writing' /\ AnswerMine' /\ ReplyFits'
  BY <1>1 DEF NetlinkInv, TypeOK, Writing, AnswerMine, ReplyFits
<1>6. QED
  BY <1>3, <1>4, <1>5 DEF NetlinkInv

LEMMA AnswerStep ==
  ASSUME NetlinkInv, NEW c \in Clients, Answer(c) \/ AnswerLost(c)
  PROVE  NetlinkInv'
<1>1. /\ at[c] = "answer" /\ at' = [at EXCEPT ![c] = "leave"]
      /\ text' = Blank
      /\ queue' = [queue EXCEPT ![c] = @ \cup {c}] \/ queue' = queue
      /\ lost' \in {lost, lost \cup {c}}
      /\ UNCHANGED <<mutex, pid, served, kernel>>
  BY DEF Answer, AnswerLost, Goto
<1>2. \A d \in Clients \ {c} : ~Inside(d)
  BY <1>1, Alone DEF Inside
<1>3. c \in served
  BY <1>1 DEF NetlinkInv, Counted
<1>4. queue' \in [Clients -> SUBSET (Clients \cup {"log"})]
  BY <1>1 DEF NetlinkInv, TypeOK
<1>5. TypeOK'
  BY <1>1, <1>2, <1>4, BlankFits, ZenonT(60) DEF NetlinkInv, TypeOK, Places, Inside
<1>6. Held' /\ Counted'
  BY <1>1 DEF NetlinkInv, TypeOK, Held, Counted, Inside
<1>7. Writing' /\ ReplyFits'
  BY <1>1, <1>2, BlankFits DEF NetlinkInv, TypeOK, Writing, ReplyFits, Inside
<1>8. AnswerMine'
  BY <1>1, <1>3 DEF NetlinkInv, TypeOK, AnswerMine
<1>9. QED
  BY <1>5, <1>6, <1>7, <1>8 DEF NetlinkInv

LEMMA LogStep ==
  ASSUME NetlinkInv, Log
  PROVE  NetlinkInv'
<1>1. /\ pid \in Clients
      /\ queue' = [queue EXCEPT ![pid] = @ \cup {"log"}]
      /\ UNCHANGED <<at, mutex, text, pid, served, kernel, lost>>
  BY DEF Log, NetlinkInv, TypeOK
<1>2. TypeOK'
  BY <1>1 DEF NetlinkInv, TypeOK, Inside
<1>3. AnswerMine'
  BY <1>1 DEF NetlinkInv, TypeOK, AnswerMine
<1>4. Held' /\ Counted' /\ Writing' /\ ReplyFits'
  BY <1>1 DEF NetlinkInv, Held, Counted, Writing, ReplyFits, Inside
<1>5. QED
  BY <1>2, <1>3, <1>4 DEF NetlinkInv


LEMMA NetlinkInductive ==
  ASSUME NetlinkInv, [Next]_vars
  PROVE  NetlinkInv'
<1>1. CASE Log
  BY <1>1, LogStep
<1>2. ASSUME NEW c \in Clients, Userside(c) \/ ReceiveFails(c) \/ Kill(c) \/ TakePid(c)
      PROVE  NetlinkInv'
  <2>1. UNCHANGED <<text, kernel, served>>
    BY <1>2 DEF Userside, Open, Send, SendFails, Receive, ReceiveFails, Kill, TakePid
  <2>2. QED
    BY <1>2, <2>1, OutsideStep DEF Userside
<1>3. ASSUME NEW c \in Clients, LockMutex(c) \/ (Kernelside(c) /\ ~TakePid(c))
      PROVE  NetlinkInv'
  BY <1>3, LockStep, UnlockStep, SwitchStep, CountStep, PrintRowStep, PrintEndStep, AnswerStep
     DEF Kernelside
<1>4. CASE UNCHANGED vars
  BY <1>4 DEF vars, NetlinkInv, TypeOK, Held, Counted, Writing, AnswerMine, ReplyFits, Inside
<1>5. QED
  BY <1>1, <1>2, <1>3, <1>4 DEF Next, Kernelside

LEMMA NetlinkInvariance == Spec => []NetlinkInv
<1>1. Init => NetlinkInv
  BY NetlinkInit
<1>2. NetlinkInv /\ [Next]_vars => NetlinkInv'
  BY NetlinkInductive
<1>3. QED
  BY <1>1, <1>2, PTL DEF Spec

(* All state of the programs and of the kernel's ends stays in its types,   *)
(* and no reply that overran its buffer is ever sent.                      *)
THEOREM NetlinkTypeCorrect == Spec => []TypeOK
  BY NetlinkInvariance, PTL DEF NetlinkInv

(* nl_mtx serves its purpose: count_total() runs for one request at a time, *)
(* from its flush to its last line.                                        *)
THEOREM OneAtATime == Spec => []OneReport
<1>1. NetlinkInv => OneReport
  BY DEF NetlinkInv, Held, OneReport, Reporting, Inside
<1>2. QED
  BY <1>1, NetlinkInvariance, PTL

(* A program gets the answer to its own request, and only after count_total *)
(* ran for it (nl_send_to_user() with the pid of the request).             *)
THEOREM AnswersToAsker == Spec => []AnswerMine
  BY NetlinkInvariance, PTL DEF NetlinkInv

(* count_total() writes past its buffer only with a line that is longer     *)
(* than the first one, however long the buffer and the lines are.          *)
THEOREM RepliesFit == Spec => []ReplyFits
  BY NetlinkInvariance, PTL DEF NetlinkInv

-----------------------------------------------------------------------------
(* Kstrtox: a number is taken if and only if it is in range, and read       *)
(* exactly.                                                                *)

(* Until a digit would not fit, res is the number; from then on the number  *)
(* is too large, whatever res has become.                                  *)
Progress ==
  /\ res \in 0..(Wide - 1)
  /\ value \in Nat
  /\ ~overflow => res = value
  /\ overflow => value >= Wide

NumberInv ==
  /\ s \in Seq(0..255)
  /\ overflow \in BOOLEAN
  /\ rv \in Nat
  /\ base \in {0, 8, 10, 16}
  /\ doing = "digits" => base # 0
  /\ Progress
  /\ NumberExact

(* What a digit that is taken stands for. *)
LEMMA DigitVal ==
  ASSUME NEW ch \in 0..255, NEW b \in {8, 10, 16}, Val(ch) < b
  PROVE  Val(ch) \in 0..(b - 1)
  BY DEF Val, Lower

(* The overflow check is exact for the bases of at most 16. *)
LEMMA WrapsExact ==
  ASSUME NEW r \in 0..(Wide - 1), NEW b \in {8, 10, 16}, NEW v \in 0..(b - 1)
  PROVE  (r >= Wide \div 16 /\ r > (Wide - 1 - v) \div b) <=> r * b + v >= Wide
<1> DEFINE q == Wide \div 16
<1>1. Wide \in Nat /\ Wide = 16 * q /\ q \in Nat
  BY KstrtoxAssumption
<1>2. CASE b = 8
  BY <1>1, <1>2
<1>3. CASE b = 10
  BY <1>1, <1>3
<1>4. CASE b = 16
  BY <1>1, <1>4
<1>5. QED
  BY <1>2, <1>3, <1>4

LEMMA ProgressDigit ==
  ASSUME NumberInv, Digit
  PROVE  Progress'
<1> DEFINE val == Val(s[1])
<1>1. base \in {8, 10, 16} /\ val \in 0..(base - 1)
  <2>1. base \in {8, 10, 16} /\ s # <<>> /\ val < base
    BY DEF NumberInv, Digit, AtDigit
  <2>2. s[1] \in 0..255
    <3>1. s \in Seq(0..255) /\ 1 \in 1..Len(s)
      BY <2>1, EmptySeq DEF NumberInv
    <3>2. QED
      BY <3>1, ElementOfSeq
  <2>3. QED
    BY <2>1, <2>2, DigitVal
<1>2. Wide \in Nat /\ Wide > 0
  BY KstrtoxAssumption
<1>3. /\ res \in 0..(Wide - 1) /\ value \in Nat
      /\ ~overflow => res = value
      /\ overflow => value >= Wide
      /\ overflow \in BOOLEAN
  BY DEF NumberInv, Progress
<1>4. /\ overflow' = (overflow \/ Wraps(val))
      /\ res' = (res * base + val) % Wide
      /\ value' = value * base + val
  BY DEF Digit
<1>5. Wraps(val) <=> res * base + val >= Wide
  BY <1>1, <1>3, WrapsExact DEF Wraps
<1>6. res * base + val \in Nat /\ value * base + val \in Nat /\ value * base + val >= value
  <2>1. CASE base = 8 BY <1>1, <1>3, <2>1
  <2>2. CASE base = 10 BY <1>1, <1>3, <2>2
  <2>3. CASE base = 16 BY <1>1, <1>3, <2>3
  <2>4. QED BY <1>1, <2>1, <2>2, <2>3
<1> DEFINE sum == res * base + val
<1>7. /\ sum \in Nat /\ res' = sum % Wide
      /\ overflow' <=> overflow \/ sum >= Wide
      /\ ~overflow => value' = sum
  BY <1>3, <1>4, <1>5, <1>6
<1>8. value' \in Nat /\ value' >= value
  BY <1>4, <1>6
<1> HIDE DEF sum
<1>9. res' \in 0..(Wide - 1) /\ (overflow' => value' >= Wide)
  BY <1>2, <1>3, <1>7, <1>8
<1>10. ~overflow' => res' = value'
  BY <1>2, <1>7
<1>11. QED
  BY <1>8, <1>9, <1>10 DEF Progress

LEMMA WithoutPrefix ==
  ASSUME NEW t \in Seq(0..255)
  PROVE  SubSeq(t, 3, Len(t)) \in Seq(0..255)
<1>1. Len(t) \in Nat
  BY LenProperties
<1>2. \A i \in 1..Len(t) : t[i] \in 0..255
  BY ElementOfSeq
<1>3. Len(t) \in Int /\ 3 \in Int /\ \A i \in 3..Len(t) : t[i] \in 0..255
  BY <1>1, <1>2
<1>4. QED
  BY <1>3, SubSeqProperties

(* Where no digit is read the invariant speaks of the start and the end. *)
LEMMA BeginInv ==
  ASSUME NumberInv, Begin
  PROVE  NumberInv'
<1> DEFINE t == IF s # <<>> /\ s[1] = 43 THEN Tail(s) ELSE s
<1>1. t \in Seq(0..255)
  BY DEF NumberInv
<1>2. s' \in Seq(0..255)
  <2>1. s' = t \/ s' = SubSeq(t, 3, Len(t))
    BY DEF Begin
  <2>2. SubSeq(t, 3, Len(t)) \in Seq(0..255)
    BY <1>1, WithoutPrefix
  <2> HIDE DEF t
  <2>3. QED
    BY <1>1, <2>1, <2>2
<1>3. base' \in {8, 10, 16}
  BY DEF NumberInv, Begin, Radix
<1>4. QED
  BY <1>2, <1>3 DEF NumberInv, Begin, Progress, NumberExact

LEMMA FinishExact ==
  ASSUME NumberInv, Finish
  PROVE  NumberExact'
<1>1. Wide \in Nat /\ Narrow \in Nat /\ Narrow <= Wide
  BY KstrtoxAssumption
<1>2. /\ res \in Nat /\ value \in Nat
      /\ ~overflow => res = value
      /\ overflow => value >= Wide
      /\ overflow \in BOOLEAN /\ rv \in Nat
  BY <1>1 DEF NumberInv, Progress
<1>3. /\ UNCHANGED <<s, res, rv, value, overflow>>
      /\ outcome' = CASE overflow -> "ERANGE"
                      [] ~overflow /\ (rv = 0 \/ ~Ended) -> "EINVAL"
                      [] OTHER -> IF res < Narrow THEN "ok" ELSE "ERANGE"
  BY DEF Finish
<1>4. Ended' <=> Ended
  BY <1>3 DEF Ended
<1>5. CASE overflow
  BY <1>1, <1>2, <1>3, <1>4, <1>5 DEF NumberExact
<1>6. CASE ~overflow /\ (rv = 0 \/ ~Ended)
  BY <1>1, <1>2, <1>3, <1>4, <1>6 DEF NumberExact
<1>7. CASE ~overflow /\ rv # 0 /\ Ended
  BY <1>1, <1>2, <1>3, <1>4, <1>7 DEF NumberExact
<1>8. QED
  BY <1>5, <1>6, <1>7

LEMMA NumberInductive ==
  ASSUME NumberInv, [NumberNext]_numberVars
  PROVE  NumberInv'
<1>1. CASE Begin
  BY <1>1, BeginInv
<1>2. CASE Digit
  <2>1. Progress'
    BY <1>2, ProgressDigit
  <2>2. s' \in Seq(0..255) /\ rv' \in Nat /\ overflow' \in BOOLEAN
    BY <1>2 DEF NumberInv, Digit, AtDigit
  <2>3. QED
    BY <1>2, <2>1, <2>2 DEF NumberInv, Digit, NumberExact
<1>3. CASE Finish
  <2>1. NumberExact'
    BY <1>3, FinishExact
  <2>2. QED
    BY <1>3, <2>1 DEF NumberInv, Finish, Progress
<1>4. CASE UNCHANGED numberVars
  BY <1>4 DEF NumberInv, numberVars, Progress, NumberExact, Ended
<1>5. QED
  BY <1>1, <1>2, <1>3, <1>4 DEF NumberNext

(* Whatever the text and the base, and whatever the widths of the types, a  *)
(* number is taken exactly when it is in range and well written, and read   *)
(* as what it is (kstrtou16() with _parse_integer()).                      *)
THEOREM NumbersAreExact == NumberSpec => []NumberExact
<1>1. ASSUME NumberInit
      PROVE  NumberInv
  <2>1. 0 \in 0..(Wide - 1)
    BY KstrtoxAssumption
  <2>2. s \in Seq(0..255) /\ base \in {0, 8, 10, 16}
    BY <1>1, KstrtoxAssumption DEF NumberInit
  <2>3. QED
    BY <1>1, <2>1, <2>2 DEF NumberInit, NumberInv, Progress, NumberExact
<1>2. NumberInv /\ [NumberNext]_numberVars => NumberInv'
  BY NumberInductive
<1>3. NumberInv => NumberExact
  BY DEF NumberInv
<1>4. QED
  BY <1>1, <1>2, <1>3, PTL DEF NumberSpec

-----------------------------------------------------------------------------
(* PreProcess: a pattern says what it was written for.                      *)

(* g[i] is the first i sequences one behind the other *)
Flat(g, seqs, n) ==
  g = [i \in 1..n |-> IF i = 1 THEN seqs[i] ELSE g[i - 1] \o seqs[i]]

LEMMA FlatExists ==
  ASSUME NEW seqs, NEW n \in Nat, n # 0
  PROVE  \E g : Flat(g, seqs, n)
<1> DEFINE G == {m \in 0..n : m = 0 \/ \E g : Flat(g, seqs, m)}
<1>1. ASSUME NEW m \in 0..(n - 1), m \in G
      PROVE  m + 1 \in G
  <2>1. m + 1 \in 0..n
    OBVIOUS
  <2>2. CASE m = 0
    <3>1. Flat([i \in 1..1 |-> seqs[i]], seqs, 1)
      BY DEF Flat
    <3>. QED
      BY <2>1, <2>2, <3>1
  <2>3. CASE m # 0
    <3>1. PICK g : Flat(g, seqs, m)
      BY <1>1, <2>3
    <3> DEFINE h == [i \in 1..(m + 1) |-> IF i = m + 1 THEN g[m] \o seqs[m + 1] ELSE g[i]]
    <3>2. ASSUME NEW i \in 1..(m + 1)
          PROVE  h[i] = IF i = 1 THEN seqs[i] ELSE h[i - 1] \o seqs[i]
      <4>1. CASE i = m + 1
        <5>1. i # 1 /\ i - 1 = m /\ m \in 1..(m + 1) /\ m # m + 1
          BY <2>3, <4>1
        <5>. QED
          BY <4>1, <5>1
      <4>2. CASE i # m + 1
        <5>1. i \in 1..m /\ h[i] = g[i]
          BY <4>2
        <5>2. g[i] = IF i = 1 THEN seqs[i] ELSE g[i - 1] \o seqs[i]
          BY <3>1, <5>1 DEF Flat
        <5>3. i # 1 => i - 1 \in 1..(m + 1) /\ i - 1 # m + 1
          BY <5>1
        <5>. QED
          BY <5>1, <5>2, <5>3
      <4>. QED
        BY <4>1, <4>2
    <3>3. h = [i \in 1..(m + 1) |-> h[i]]
      OBVIOUS
    <3>. HIDE DEF h
    <3>4. Flat(h, seqs, m + 1)
      BY <3>2, <3>3 DEF Flat
    <3>. QED
      BY <2>1, <3>4
  <2>. QED
    BY <2>2, <2>3
<1>2. 0..n \subseteq G
  <2>1. 0 \in G
    OBVIOUS
  <2>. HIDE DEF G
  <2>. QED
    BY <1>1, <2>1, UpTo
<1>. QED
  BY <1>2

(* Sequence i of n ends at index end[i] of the whole, t. *)
Pieces(t, seqs, n, end) ==
  /\ end[0] = 0 /\ end[n] = Len(t)
  /\ \A i \in 1..n :
       /\ end[i - 1] \in Nat /\ end[i] \in Nat
       /\ end[i] = end[i - 1] + Len(seqs[i]) /\ end[i] <= Len(t)
       /\ \A j \in 1..Len(seqs[i]) : t[end[i - 1] + j] = seqs[i][j]

LEMMA OnePieceMore ==
  ASSUME NEW S, NEW m \in Nat, NEW n \in Nat, n = m + 1, NEW seqs, NEW end,
         NEW t \in Seq(S), NEW u \in Seq(S), u = seqs[n], \A i \in 1..m : seqs[i] \in Seq(S),
         Pieces(t, seqs, m, end), end[n] = Len(t \o u)
  PROVE  Pieces(t \o u, seqs, n, end)
<1>1. PICK a \in Nat : a = Len(t)
  OBVIOUS
<1>2. PICK b \in Nat : b = Len(u)
  OBVIOUS
<1>3. /\ Len(t \o u) = a + b
      /\ \A i \in 1..(a + b) : (t \o u)[i] = IF i <= a THEN t[i] ELSE u[i - a]
  BY <1>1, <1>2, ConcatProperties
<1>4. \A j \in 1..b : (t \o u)[a + j] = u[j]
  <2>1. SUFFICES ASSUME NEW j \in 1..b
                 PROVE  (t \o u)[a + j] = u[j]
    OBVIOUS
  <2>2. a + j \in 1..(a + b) /\ ~(a + j <= a) /\ (a + j) - a = j
    OBVIOUS
  <2>. QED
    BY <1>3, <2>2
<1>5. PICK w : w = t \o u
  OBVIOUS
<1>6. ASSUME NEW i \in 1..m
      PROVE  /\ end[i - 1] \in Nat /\ end[i] \in Nat
             /\ end[i] = end[i - 1] + Len(seqs[i]) /\ end[i] <= a + b
             /\ \A j \in 1..Len(seqs[i]) : w[end[i - 1] + j] = seqs[i][j]
  <2>1. PICK e \in Nat : e = end[i - 1]
    BY DEF Pieces
  <2>2. PICK k \in Nat : k = Len(seqs[i])
    OBVIOUS
  <2>3. /\ end[i] = e + k /\ e + k <= a
        /\ \A j \in 1..k : t[e + j] = seqs[i][j]
    BY <1>1, <2>1, <2>2 DEF Pieces
  <2>4. ASSUME NEW j \in 1..k
        PROVE  w[e + j] = seqs[i][j]
    <3>1. e + j \in 1..(a + b) /\ e + j <= a
      BY <2>3
    <3>. QED
      BY <1>3, <1>5, <2>3, <3>1
  <2>. QED
    <3>1. \A j \in 1..Len(seqs[i]) : w[end[i - 1] + j] = seqs[i][j]
      BY <2>1, <2>2, <2>4, Zenon
    <3>2. e + k <= a + b
      BY <2>3
    <3>3. end[i] = end[i - 1] + Len(seqs[i]) /\ end[i] <= a + b
      BY <2>1, <2>2, <2>3, <3>2, Zenon
    <3>4. e + k \in Nat
      OBVIOUS
    <3>5. end[i - 1] \in Nat /\ end[i] \in Nat
      BY <2>1, <2>3, <3>4, Zenon
    <3>. QED
      BY <3>1, <3>3, <3>5, Zenon
<1>7. /\ end[m] = a /\ end[n] = a + b /\ end[0] = 0
  BY <1>1, <1>3 DEF Pieces
<1>8. ASSUME NEW i \in 1..n
      PROVE  /\ end[i - 1] \in Nat /\ end[i] \in Nat
             /\ end[i] = end[i - 1] + Len(seqs[i]) /\ end[i] <= a + b
             /\ \A j \in 1..Len(seqs[i]) : w[end[i - 1] + j] = seqs[i][j]
  <2>1. CASE i = n
    <3>1. i - 1 = m /\ Len(seqs[i]) = b /\ seqs[i] = u
      BY <1>2, <2>1
    <3>2. \A j \in 1..Len(seqs[i]) : w[end[i - 1] + j] = seqs[i][j]
      BY <1>4, <1>5, <1>7, <3>1, Zenon
    <3>3. end[i - 1] = a /\ end[i] = a + b
      BY <1>7, <2>1, <3>1
    <3>. QED
      BY <3>1, <3>2, <3>3
  <2>2. CASE i # n
    <3>1. i \in 1..m
      BY <2>2
    <3>. QED
      BY <1>6, <3>1
  <2>. QED
    BY <2>1, <2>2
<1>. QED
  BY <1>3, <1>5, <1>7, <1>8 DEF Pieces

LEMMA FlattenIs ==
  ASSUME NEW S, NEW n \in Nat, NEW seqs \in [1..n -> Seq(S)]
  PROVE  /\ FlattenSeq(seqs) \in Seq(S)
         /\ \E end : Pieces(FlattenSeq(seqs), seqs, n, end)
<1>1. seqs \in Seq(Seq(S)) /\ Len(seqs) = n
  OBVIOUS
<1>2. CASE n = 0
  <2>1. FlattenSeq(seqs) = seqs /\ seqs = <<>>
    BY <1>1, <1>2 DEF FlattenSeq
  <2>2. Pieces(<<>>, seqs, n, [i \in 0..0 |-> 0])
    BY <1>2 DEF Pieces
  <2>. QED
    BY <2>1, <2>2
<1>3. CASE n # 0
  <2> DEFINE g == CHOOSE f : Flat(f, seqs, n)
  <2>1. Flat(g, seqs, n)
    BY <1>3, FlatExists
  <2>2. FlattenSeq(seqs) = g[n]
    BY <1>1, <1>3 DEF FlattenSeq, Flat
  <2>. HIDE DEF g
  <2>3. ASSUME NEW i \in 1..n
        PROVE  g[i] = IF i = 1 THEN seqs[i] ELSE g[i - 1] \o seqs[i]
    BY <2>1 DEF Flat
  <2> DEFINE end == [i \in 0..n |-> IF i = 0 THEN 0 ELSE Len(g[i])]
             Good(m) == g[m] \in Seq(S) /\ Pieces(g[m], seqs, m, end)
             G == {m \in 0..n : m = 0 \/ Good(m)}
  <2>4. ASSUME NEW m \in 0..(n - 1), m \in G
        PROVE  m + 1 \in G
    <3>1. PICK o \in 1..n : o = m + 1
      OBVIOUS
    <3>2. o \in 0..n /\ m \in 0..n /\ o - 1 = m /\ o # 0 /\ o \in Nat /\ m \in Nat
      BY <3>1
    <3>3. seqs[o] \in Seq(S) /\ Len(seqs[o]) \in Nat /\ \A i \in 1..m : seqs[i] \in Seq(S)
      OBVIOUS
    <3>4. end[o] = Len(g[o]) /\ end[0] = 0
      BY <3>2
    <3>. HIDE DEF end
    <3>5. CASE m = 0
      <4>1. o = 1 /\ g[1] = seqs[1]
        BY <2>3, <3>2, <3>5
      <4>2. Pieces(g[1], seqs, 1, end)
        BY <3>3, <3>4, <4>1 DEF Pieces
      <4>. QED
        BY <3>1, <3>2, <3>3, <4>1, <4>2
    <3>6. CASE m # 0
      <4>1. Good(m)
        BY <2>4, <3>6
      <4>2. o # 1
        BY <3>1, <3>6
      <4>3. g[o] = g[m] \o seqs[o]
        <5>. HIDE DEF Good, G
        <5>. QED
          BY <2>3, <3>2, <4>2
      <4>4. g[o] \in Seq(S)
        BY <3>3, <4>1, <4>3, ConcatProperties
      <4>5. Pieces(g[o], seqs, o, end)
        <5>1. PICK t : t = g[m]
          OBVIOUS
        <5>2. PICK u : u = seqs[o]
          OBVIOUS
        <5>3. t \in Seq(S) /\ u \in Seq(S) /\ Pieces(t, seqs, m, end)
          BY <3>3, <4>1, <5>1, <5>2
        <5>4. end[o] = Len(t \o u) /\ g[o] = t \o u
          BY <3>4, <4>3, <5>1, <5>2
        <5>. HIDE DEF Good, G
        <5>5. Pieces(t \o u, seqs, o, end)
          BY <3>1, <3>2, <3>3, <5>2, <5>3, <5>4, OnePieceMore
        <5>. QED
          BY <5>4, <5>5
      <4>. QED
        BY <3>1, <3>2, <4>4, <4>5
    <3>. QED
      BY <3>5, <3>6
  <2>5. 0..n \subseteq G
    <3>1. 0 \in G
      OBVIOUS
    <3>. HIDE DEF G
    <3>. QED
      BY <2>4, <3>1, UpTo
  <2>6. Good(n)
    <3>1. n \in 0..n
      OBVIOUS
    <3>2. n \in G
      BY <2>5, <3>1
    <3>. HIDE DEF Good
    <3>. QED
      BY <1>3, <3>2
  <2>. QED
    BY <2>2, <2>6
<1>. QED
  BY <1>2, <1>3

Bytes == 0..255

(* A byte that is not an escape is never read as one.                       *)
Written(style) == [i \in DOMAIN meant |-> Write(meant[i], style[i])]

Lowered(bytes, k) == [j \in 1..k |-> ToLower(bytes[j])]

(* pre_process() has dealt with k of the bytes that were meant, and warned  *)
(* of them where it had to.                                                *)
Reached(style, end, k) ==
  /\ Writable(meant, style)
  /\ escapes = {i \in DOMAIN meant : style[i] # "plain"}
  /\ \A i \in 1..k : i \in escapes /\ meant[i] \in Warned => warned
  /\ Pieces(str, Written(style), Len(meant), end)
  /\ sindex = end[k]
  /\ result = Lowered(meant, k)

PatternInv ==
  /\ meant \in Seq(Bytes)
  /\ warned \in BOOLEAN
  /\ \E style \in [DOMAIN meant -> Styles], k \in 0..Len(meant) :
       \E end : Reached(style, end, k)

LEMMA HexOf ==
  ASSUME NEW d \in 0..15, NEW style \in Styles, style # "plain"
  PROVE  HexDigit(d, style) \in Nat /\ Hex(HexDigit(d, style)) = d
BY DEF HexDigit, Hex, Styles

LEMMA ByteOf ==
  ASSUME NEW b \in Bytes
  PROVE  b \div 16 \in 0..15 /\ b % 16 \in 0..15 /\ 16 * (b \div 16) + (b % 16) = b
BY DEF Bytes

LEMMA WriteIs ==
  ASSUME NEW b \in Bytes, NEW style \in Styles
  PROVE  /\ Write(b, style) \in Seq(Nat)
         /\ style = "plain" => Len(Write(b, style)) = 1 /\ Write(b, style)[1] = b
         /\ style # "plain" =>
              /\ Len(Write(b, style)) = 4
              /\ Write(b, style)[1] = 92 /\ Write(b, style)[2] = 120
              /\ Write(b, style)[3] = HexDigit(b \div 16, style)
              /\ Write(b, style)[4] = HexDigit(b % 16, style)
<1>1. CASE style = "plain"
  BY <1>1 DEF Write, Bytes
<1>2. CASE style # "plain"
  <2>1. PICK d \in Nat : d = HexDigit(b \div 16, style)
    BY <1>2, HexOf, ByteOf
  <2>2. PICK e \in Nat : e = HexDigit(b % 16, style)
    BY <1>2, HexOf, ByteOf
  <2>3. Write(b, style) = <<92, 120, d, e>>
    BY <1>2, <2>1, <2>2 DEF Write
  <2>. QED
    BY <1>2, <2>1, <2>2, <2>3
<1>. QED
  BY <1>1, <1>2

LEMMA LowerIs ==
  ASSUME NEW b \in Bytes
  PROVE  /\ b \in Nat /\ ToLower(b) \in Nat
         /\ b # 0 => ToLower(b) # 0
         /\ b \in Warned => ToLower(b) = b
         /\ ~LatinUpper(b) => ToLower(b) = IF b < 128 THEN ToLower(b) ELSE b
BY DEF Bytes, ToLower, LatinUpper, Warned

LEMMA OneMore ==
  ASSUME NEW bytes \in Seq(Bytes), NEW k \in 0..Len(bytes), NEW o \in 1..Len(bytes), o = k + 1
  PROVE  Append(Lowered(bytes, k), ToLower(bytes[o])) = Lowered(bytes, o)
<1>1. \A j \in 1..Len(bytes) : ToLower(bytes[j]) \in Nat
  <2>1. ASSUME NEW j \in 1..Len(bytes)
        PROVE  ToLower(bytes[j]) \in Nat
    <3>1. bytes[j] \in Bytes
      OBVIOUS
    <3>. QED
      BY <3>1, LowerIs
  <2>. QED
    BY <2>1
<1>. HIDE DEF ToLower
<1>2. /\ Lowered(bytes, k) \in Seq(Nat) /\ Len(Lowered(bytes, k)) = k
      /\ Lowered(bytes, o) \in Seq(Nat) /\ Len(Lowered(bytes, o)) = o
  BY <1>1 DEF Lowered
<1>3. PICK a : a = Append(Lowered(bytes, k), ToLower(bytes[o]))
  OBVIOUS
<1>4. /\ a \in Seq(Nat) /\ Len(a) = k + 1
      /\ \A i \in 1..k : a[i] = Lowered(bytes, k)[i]
      /\ a[k + 1] = ToLower(bytes[o])
  BY <1>1, <1>2, <1>3, AppendProperties
<1>5. ASSUME NEW i \in 1..o
      PROVE  a[i] = Lowered(bytes, o)[i]
  <2>1. CASE i = o
    BY <1>4, <2>1 DEF Lowered
  <2>2. CASE i # o
    <3>1. i \in 1..k
      BY <2>2
    <3>. QED
      BY <1>4, <3>1 DEF Lowered
  <2>. QED
    BY <2>1, <2>2
<1>. QED
  BY <1>2, <1>3, <1>4, <1>5, SeqEqual

(* byte o of what was meant, as it is written, is at i + 1 to e *)
Spans(o, style, i, e) ==
  /\ meant[o] \in Bytes /\ style[o] \in Styles
  /\ i \in Nat /\ e \in Nat /\ e <= Len(str)
  /\ style[o] = "plain" => e = i + 1 /\ str[i + 1] = meant[o]
  /\ style[o] # "plain" =>
       /\ e = i + 4
       /\ str[i + 1] = 92 /\ str[i + 2] = 120
       /\ str[i + 3] = HexDigit(meant[o] \div 16, style[o])
       /\ str[i + 4] = HexDigit(meant[o] % 16, style[o])

LEMMA Between ==
  ASSUME PatternInv,
         NEW style \in [DOMAIN meant -> Styles], NEW end, NEW k \in 0..Len(meant),
         Pieces(str, Written(style), Len(meant), end),
         NEW o \in 1..Len(meant), o = k + 1
  PROVE  Spans(o, style, end[k], end[o])
<1> DEFINE i == end[k]
           w == Written(style)[o]
<1>1. o - 1 = k /\ DOMAIN meant = 1..Len(meant)
  BY DEF PatternInv
<1>2. meant[o] \in Bytes /\ style[o] \in Styles
  BY <1>1 DEF PatternInv
<1>3. w = Write(meant[o], style[o])
  BY <1>1 DEF Written
<1>4. /\ i \in Nat /\ end[o] \in Nat /\ end[o] = i + Len(w) /\ end[o] <= Len(str)
      /\ \A j \in 1..Len(w) : str[i + j] = w[j]
  BY <1>1 DEF Pieces
<1>. HIDE DEF i, w
<1>5. CASE style[o] = "plain"
  <2>1. Len(w) = 1 /\ w[1] = meant[o]
    BY <1>2, <1>3, <1>5, WriteIs
  <2>2. str[i + 1] = meant[o]
    BY <1>4, <2>1
  <2>. QED
    BY <1>2, <1>4, <1>5, <2>1, <2>2 DEF i, Spans
<1>6. CASE style[o] # "plain"
  <2>1. /\ Len(w) = 4 /\ w[1] = 92 /\ w[2] = 120
        /\ w[3] = HexDigit(meant[o] \div 16, style[o])
        /\ w[4] = HexDigit(meant[o] % 16, style[o])
    BY <1>2, <1>3, <1>6, WriteIs
  <2>2. 1 \in 1..4 /\ 2 \in 1..4 /\ 3 \in 1..4 /\ 4 \in 1..4
    OBVIOUS
  <2>3. str[i + 1] = w[1] /\ str[i + 2] = w[2] /\ str[i + 3] = w[3] /\ str[i + 4] = w[4]
    BY <1>4, <2>1, <2>2
  <2>. QED
    BY <1>2, <1>4, <1>6, <2>1, <2>3 DEF i, Spans
<1>. QED
  BY <1>5, <1>6

(* A byte that was written as it is is never read as an escape: whatever    *)
(* comes after a backslash begins with something else than an x.            *)
LEMMA NoEscape ==
  ASSUME PatternInv,
         NEW style \in [DOMAIN meant -> Styles], NEW end, NEW k \in 0..Len(meant),
         Writable(meant, style), Pieces(str, Written(style), Len(meant), end),
         NEW o \in 1..Len(meant), o = k + 1, style[o] = "plain"
  PROVE  ~ AtEscape(str, end[k])
<1>1. PICK i \in Nat : i = end[k]
  BY Between DEF Spans
<1>2. /\ end[o] = i + 1 /\ str[i + 1] = meant[o]
      /\ end[o] <= Len(str)
  BY <1>1, Between DEF Spans
<1>3. SUFFICES ASSUME str[i + 1] = 92, str[i + 2] = 120, i + 3 < Len(str)
               PROVE  FALSE
  BY <1>1 DEF AtEscape
<1>4. CASE o = Len(meant)
  <2>1. end[o] = Len(str)
    BY <1>4 DEF Pieces
  <2>. QED
    BY <1>2, <1>3, <2>1
<1>5. CASE o # Len(meant)
  <2>1. PICK p \in 1..Len(meant) : p = o + 1
    BY <1>5 DEF PatternInv
  <2>2. o \in 0..Len(meant) /\ DOMAIN meant = 1..Len(meant)
    BY DEF PatternInv
  <2>3. str[i + 2] = IF style[p] = "plain" THEN meant[p] ELSE 92
    <3>1. end[o] + 1 = i + 2
      BY <1>2
    <3>2. str[end[o] + 1] = IF style[p] = "plain" THEN meant[p] ELSE 92
      BY <2>1, <2>2, Between DEF Spans
    <3>. QED
      BY <3>1, <3>2
  <2>4. meant[p] # 120
    <3>1. meant[o] = 92 /\ o < Len(meant) /\ p = o + 1
      BY <1>2, <1>3, <2>1
    <3>. QED
      BY <2>2, <3>1 DEF Writable
  <2>. QED
    BY <1>3, <2>3, <2>4
<1>. QED
  BY <1>4, <1>5

LEMMA PatternInitially == PatternInit => PatternInv
<1>1. SUFFICES ASSUME PatternInit
               PROVE  PatternInv
  OBVIOUS
<1>2. PICK style \in [DOMAIN meant -> Styles] :
        /\ Writable(meant, style)
        /\ str = FlattenSeq(Written(style))
        /\ escapes = {i \in DOMAIN meant : style[i] # "plain"}
  BY <1>1 DEF PatternInit, Written
<1>3. meant \in Seq(Bytes) /\ Len(meant) \in Nat /\ DOMAIN meant = 1..Len(meant)
  BY <1>1, MeaningsAssumption DEF PatternInit, Bytes
<1>4. Written(style) \in [1..Len(meant) -> Seq(Nat)]
  <2>1. ASSUME NEW i \in 1..Len(meant)
        PROVE  Write(meant[i], style[i]) \in Seq(Nat)
    <3>1. meant[i] \in Bytes /\ style[i] \in Styles
      BY <1>3
    <3>. QED
      BY <3>1, WriteIs
  <2>. QED
    BY <1>3, <2>1 DEF Written
<1>5. PICK end : Pieces(str, Written(style), Len(meant), end)
  BY <1>2, <1>3, <1>4, FlattenIs
<1>6. 0 \in 0..Len(meant) /\ sindex = end[0]
  BY <1>1, <1>3, <1>5 DEF PatternInit, Pieces
<1>7. result = Lowered(meant, 0)
  BY <1>1 DEF PatternInit, Lowered
<1>8. Reached(style, end, 0)
  BY <1>2, <1>5, <1>6, <1>7 DEF Reached
<1>9. warned \in BOOLEAN
  BY <1>1 DEF PatternInit
<1>. QED
  BY <1>2, <1>3, <1>6, <1>8, <1>9 DEF PatternInv

LEMMA PatternStep == PatternInv /\ [PatternNext]_patternVars => PatternInv'
<1>1. SUFFICES ASSUME PatternInv, [PatternNext]_patternVars
               PROVE  PatternInv'
  OBVIOUS
<1>2. CASE UNCHANGED patternVars
  BY <1>1, <1>2 DEF PatternInv, Reached, patternVars, Written
<1>3. CASE PatternNext
  <2>1. meant \in Seq(Bytes) /\ Len(meant) \in Nat
        /\ UNCHANGED <<meant, escapes, str>> /\ (AtEscape(str, sindex) \/ sindex < Len(str))
    BY <1>1, <1>3 DEF PatternInv, PatternNext, Escape, Plain
  <2>12. warned \in BOOLEAN /\ warned' \in BOOLEAN /\ (warned => warned')
    BY <1>1, <1>3 DEF PatternInv, PatternNext, Escape, Plain
  <2>10. PICK style \in [DOMAIN meant -> Styles], k \in 0..Len(meant) :
          \E end : Reached(style, end, k)
    BY <1>1 DEF PatternInv
  <2>11. PICK end : Reached(style, end, k)
    BY <2>10
  <2>2. /\ Writable(meant, style)
        /\ Pieces(str, Written(style), Len(meant), end)
        /\ sindex = end[k]
        /\ result = Lowered(meant, k)
    BY <2>11 DEF Reached
  <2>14. /\ escapes = {i \in DOMAIN meant : style[i] # "plain"}
         /\ \A i \in 1..k : i \in escapes /\ meant[i] \in Warned => warned
    BY <2>11 DEF Reached
  <2>3. k # Len(meant)
    <3>1. end[Len(meant)] = Len(str)
      BY <2>2 DEF Pieces
    <3>2. PICK i : i = sindex
      OBVIOUS
    <3>3. i # Len(str)
      BY <2>1, <3>2 DEF AtEscape
    <3>. QED
      BY <2>2, <3>1, <3>2, <3>3
  <2>4. PICK o \in 1..Len(meant) : o = k + 1
    BY <2>1, <2>3
  <2>5. /\ sindex' = end[o] /\ result' = Append(result, ToLower(meant[o]))
        /\ style[o] # "plain" /\ ToLower(meant[o]) \in Warned => warned'
    <3>1. /\ meant[o] \in Bytes /\ style[o] \in Styles
          /\ sindex \in Nat /\ end[o] \in Nat /\ end[o] <= Len(str)
          /\ style[o] = "plain" => end[o] = sindex + 1 /\ str[sindex + 1] = meant[o]
          /\ style[o] # "plain" =>
               /\ end[o] = sindex + 4
               /\ str[sindex + 1] = 92 /\ str[sindex + 2] = 120
               /\ str[sindex + 3] = HexDigit(meant[o] \div 16, style[o])
               /\ str[sindex + 4] = HexDigit(meant[o] % 16, style[o])
      <4>1. Spans(o, style, sindex, end[o])
        BY <1>1, <2>2, <2>4, Between
      <4>. QED
        BY <4>1 DEF Spans
    <3>2. CASE style[o] = "plain"
      <4>1. ~ AtEscape(str, sindex)
        BY <1>1, <2>2, <2>4, <3>2, NoEscape
      <4>2. Plain
        BY <1>3, <4>1 DEF PatternNext, Escape
      <4>. QED
        BY <3>1, <3>2, <4>2 DEF Plain
    <3>3. CASE style[o] # "plain"
      <4> DEFINE hi == meant[o] \div 16
                 lo == meant[o] % 16
      <4>1. hi \in 0..15 /\ lo \in 0..15 /\ 16 * hi + lo = meant[o]
        BY <3>1, ByteOf
      <4>2. Hex(str[sindex + 3]) = hi /\ Hex(str[sindex + 4]) = lo
        <5>1. str[sindex + 3] = HexDigit(hi, style[o]) /\ str[sindex + 4] = HexDigit(lo, style[o])
          BY <3>1, <3>3
        <5>2. Hex(HexDigit(hi, style[o])) = hi /\ Hex(HexDigit(lo, style[o])) = lo
          <6>. HIDE DEF hi, lo
          <6>1. style[o] \in Styles
            BY <3>1
          <6>2. \A d \in 0..15 : Hex(HexDigit(d, style[o])) = d
            BY <3>3, <6>1, HexOf
          <6>. QED
            BY <4>1, <6>2
        <5>. QED
          BY <5>1, <5>2
      <4>. HIDE DEF hi, lo
      <4>3. AtEscape(str, sindex)
        <5>1. sindex + 3 < Len(str)
          <6>1. Len(meant) \in 1..Len(meant)
            BY <2>1
          <6>2. end[Len(meant)] \in Nat /\ end[Len(meant)] = Len(str)
            BY <2>2, <6>1 DEF Pieces
          <6>. QED
            BY <3>1, <3>3, <6>2
        <5>2. Hex(str[sindex + 3]) # -1 /\ Hex(str[sindex + 4]) # -1
          <6>1. \A d \in 0..15 : d # -1
            OBVIOUS
          <6>. QED
            BY <4>1, <4>2, <6>1
        <5>3. str[sindex + 1] = 92 /\ str[sindex + 2] = 120
          BY <3>1, <3>3
        <5>. QED
          BY <5>1, <5>2, <5>3 DEF AtEscape
      <4>4. Escape
        BY <1>3, <4>3 DEF PatternNext, Plain
      <4>. QED
        BY <3>1, <3>3, <4>1, <4>2, <4>4 DEF Escape
    <3>. QED
      BY <3>2, <3>3
  <2>6. result' = Lowered(meant, o)
    BY <2>1, <2>2, <2>4, <2>5, OneMore
  <2>7. o \in 0..Len(meant)
    BY <2>1
  <2>13. \A i \in 1..o : i \in escapes /\ meant[i] \in Warned => warned'
    <3>1. ASSUME NEW i \in 1..o, i \in escapes, meant[i] \in Warned
          PROVE  warned'
      <4>1. CASE i = o
        <5>1. style[o] # "plain" /\ meant[o] \in Bytes
          BY <2>1, <2>14, <3>1, <4>1
        <5>2. ToLower(meant[o]) = meant[o]
          BY <3>1, <4>1, <5>1, LowerIs
        <5>. QED
          BY <2>5, <3>1, <4>1, <5>1, <5>2
      <4>2. CASE i # o
        <5>1. i \in 1..k
          BY <2>4, <4>2
        <5>. QED
          BY <2>14, <2>12, <3>1, <5>1
      <4>. QED
        BY <4>1, <4>2
    <3>. QED
      BY <3>1
  <2>8. Written(style)' = Written(style)
    BY <2>1 DEF Written
  <2>9. Reached(style, end, o)'
    BY <2>1, <2>2, <2>5, <2>6, <2>8, <2>13, <2>14 DEF Reached
  <2>. QED
    BY <2>1, <2>7, <2>9, <2>12 DEF PatternInv
<1>. QED
  BY <1>1, <1>2, <1>3

(* g[i] is what aproto_find() makes of the first i bytes                    *)
Payload(g, bytes) ==
  g = [i \in 0..Len(bytes) |->
         IF i = 0 THEN <<>>
         ELSE IF bytes[i] = 0 THEN g[i - 1]
         ELSE Append(g[i - 1], IF bytes[i] < 128 THEN ToLower(bytes[i]) ELSE bytes[i])]

(* Without NUL and capitals above ASCII both sides do the same. *)
LEMMA NormalIs ==
  ASSUME NEW bytes \in Seq(Bytes), \A i \in DOMAIN bytes : bytes[i] # 0 /\ ~LatinUpper(bytes[i])
  PROVE  Normal(bytes) = Lowered(bytes, Len(bytes))
<1> DEFINE n == Len(bytes)
           g == CHOOSE f : Payload(f, bytes)
           h == [i \in 0..n |-> Lowered(bytes, i)]
<1>1. n \in Nat /\ DOMAIN bytes = 1..n
  OBVIOUS
<1>2. \A i \in 1..n : bytes[i] \in Bytes /\ bytes[i] # 0
        /\ ToLower(bytes[i]) = IF bytes[i] < 128 THEN ToLower(bytes[i]) ELSE bytes[i]
  <2>1. SUFFICES ASSUME NEW i \in 1..n
                 PROVE  /\ bytes[i] \in Bytes /\ bytes[i] # 0
                        /\ ToLower(bytes[i]) =
                             IF bytes[i] < 128 THEN ToLower(bytes[i]) ELSE bytes[i]
    OBVIOUS
  <2>2. bytes[i] \in Bytes /\ bytes[i] # 0 /\ ~LatinUpper(bytes[i])
    BY <1>1
  <2>. QED
    BY <2>2, LowerIs
<1>3. ASSUME NEW i \in 1..n
      PROVE  Append(Lowered(bytes, i - 1), ToLower(bytes[i])) = Lowered(bytes, i)
  <2>1. i - 1 \in 0..n /\ i = (i - 1) + 1
    BY <1>1
  <2>. QED
    BY <2>1, OneMore
<1>4. Lowered(bytes, 0) = <<>>
  BY DEF Lowered
<1>5. Payload(h, bytes)
  <2>1. ASSUME NEW i \in 0..n
        PROVE  h[i] = IF i = 0 THEN <<>>
                      ELSE IF bytes[i] = 0 THEN h[i - 1]
                      ELSE Append(h[i - 1], IF bytes[i] < 128 THEN ToLower(bytes[i]) ELSE bytes[i])
    <3>1. CASE i = 0
      BY <1>4, <3>1
    <3>2. CASE i # 0
      <4>1. i \in 1..n /\ h[i] = Lowered(bytes, i) /\ h[i - 1] = Lowered(bytes, i - 1)
        BY <1>1, <3>2
      <4>. HIDE DEF h
      <4>. QED
        BY <1>2, <1>3, <3>2, <4>1
    <3>. QED
      BY <3>1, <3>2
  <2>2. h = [i \in 0..n |-> h[i]]
    OBVIOUS
  <2>. HIDE DEF h
  <2>. QED
    BY <2>1, <2>2 DEF Payload
<1>6. Payload(g, bytes) /\ Normal(bytes) = g[n]
  <2>1. Normal(bytes) = g[n]
    BY DEF Normal, Payload
  <2>. HIDE DEF h
  <2>. QED
    BY <1>5, <2>1
<1>. HIDE DEF g, h
<1> DEFINE G == {i \in 0..n : g[i] = Lowered(bytes, i)}
<1>7. ASSUME NEW i \in 0..n
      PROVE  g[i] = IF i = 0 THEN <<>>
                    ELSE IF bytes[i] = 0 THEN g[i - 1]
                    ELSE Append(g[i - 1], IF bytes[i] < 128 THEN ToLower(bytes[i]) ELSE bytes[i])
  BY <1>6 DEF Payload
<1>8. 0 \in G
  BY <1>1, <1>4, <1>7
<1>9. ASSUME NEW i \in 0..(n - 1), i \in G
      PROVE  i + 1 \in G
  <2>1. i + 1 \in 1..n /\ i + 1 \in 0..n /\ i + 1 # 0 /\ (i + 1) - 1 = i
    BY <1>1
  <2>2. g[i + 1] = Append(g[i], ToLower(bytes[i + 1]))
    BY <1>2, <1>7, <2>1
  <2>3. Append(Lowered(bytes, i), ToLower(bytes[i + 1])) = Lowered(bytes, i + 1)
    BY <1>3, <2>1
  <2>. QED
    BY <1>9, <2>1, <2>2, <2>3
<1>10. 0..n \subseteq G
  <2>. HIDE DEF G
  <2>. QED
    BY <1>1, <1>8, <1>9, UpTo
<1>11. n \in G
  BY <1>1, <1>10
<1>. QED
  BY <1>6, <1>11

(* However a pattern is written, in bytes or escapes of either style, of     *)
(* any length: if pre_process() gives no warning, regcomp() is handed the   *)
(* bytes it means as aproto_find() delivers them, if none is a capital      *)
(* above ASCII; and no escape became an operator of regcomp().              *)
THEOREM PatternsSay == PatternSpec => []PatternSays
<1>1. PatternInv => PatternSays
  <2>1. SUFFICES ASSUME PatternInv, sindex = Len(str), ~warned
                 PROVE  /\ (\A i \in DOMAIN meant : ~LatinUpper(meant[i])) =>
                             Compiled = Normal(meant)
                        /\ \A i \in escapes : meant[i] \notin Meta
    BY DEF PatternSays
  <2>10. PICK style \in [DOMAIN meant -> Styles], k \in 0..Len(meant) :
          \E end : Reached(style, end, k)
    BY <2>1 DEF PatternInv
  <2>11. PICK end : Reached(style, end, k)
    BY <2>10
  <2>2. /\ Writable(meant, style)
        /\ Pieces(str, Written(style), Len(meant), end)
        /\ sindex = end[k]
        /\ result = Lowered(meant, k)
    BY <2>11 DEF Reached
  <2>14. /\ escapes = {i \in DOMAIN meant : style[i] # "plain"}
         /\ \A i \in 1..k : i \in escapes /\ meant[i] \in Warned => warned
    BY <2>11 DEF Reached
  <2>3. meant \in Seq(Bytes) /\ Len(meant) \in Nat /\ DOMAIN meant = 1..Len(meant)
    BY <2>1 DEF PatternInv
  <2>4. k = Len(meant)
    <3>1. SUFFICES ASSUME k # Len(meant)
                   PROVE  FALSE
      OBVIOUS
    <3>2. PICK o \in 1..Len(meant) : o = k + 1
      <4>1. PICK n \in Nat : n = Len(meant)
        BY <2>3
      <4>2. k \in 0..n /\ k # n
        BY <3>1, <4>1
      <4>3. k + 1 \in 1..n
        BY <4>2
      <4>. QED
        BY <4>1, <4>3
    <3>3. /\ sindex \in Nat /\ end[o] \in Nat /\ end[o] <= Len(str)
          /\ end[o] = sindex + 1 \/ end[o] = sindex + 4
      BY <2>1, <2>2, <3>2, Between DEF Spans
    <3>. QED
      BY <2>1, <3>3
  <2>5. \A i \in escapes : meant[i] \notin Warned
    BY <2>1, <2>14, <2>3, <2>4
  <2>6. \A i \in DOMAIN meant : meant[i] # 0
    <3>1. ASSUME NEW i \in DOMAIN meant
          PROVE  meant[i] # 0
      <4>1. CASE style[i] = "plain"
        BY <2>2, <4>1 DEF Writable
      <4>2. CASE style[i] # "plain"
        <5>1. i \in escapes
          BY <2>14, <4>2
        <5>. QED
          BY <2>5, <5>1 DEF Warned
      <4>. QED
        BY <4>1, <4>2
    <3>. QED
      BY <3>1
  <2>7. ASSUME NEW i \in DOMAIN result
        PROVE  result[i] # 0
    <3>1. i \in 1..Len(meant) /\ result[i] = ToLower(meant[i])
      BY <2>2, <2>4 DEF Lowered
    <3>2. meant[i] \in Bytes
      BY <2>3, <3>1, ElementOfSeq
    <3>3. meant[i] # 0
      BY <2>3, <2>6, <3>1
    <3>. QED
      BY <3>1, <3>2, <3>3, LowerIs
  <2>8. Compiled = result
    BY <2>7 DEF Compiled
  <2>9. ASSUME \A i \in DOMAIN meant : ~LatinUpper(meant[i])
        PROVE  Compiled = Normal(meant)
    <3>1. Normal(meant) = result
      BY <2>2, <2>3, <2>4, <2>6, <2>9, NormalIs
    <3>. QED
      BY <2>8, <3>1
  <2>. QED
    BY <2>5, <2>9 DEF Warned, Meta
<1>. QED
  BY <1>1, PatternInitially, PatternStep, PTL DEF PatternSpec

-----------------------------------------------------------------------------
(* QQ: what qq_handler() accepts, it has read from the payload.             *)

(* How far it has read follows from where it is; once the length has passed *)
(* its check, the number lies in the payload, and the version before it.    *)
HandlerInv ==
  /\ handling \in {"header", "version", "number", "refused", "accepted", "shown"}
  /\ dataLen \in Nat
  /\ head \in 0..2
  /\ number \in Int
  /\ reads \in Nat
  /\ handling = "header" => reads <= head
  /\ handling = "version" => reads <= head + 1
  /\ handling = "number" => reads <= head + 3
  /\ handling \in {"number", "accepted", "shown"} =>
       number \in {head + 6, head + 7} /\ dataLen >= number + 4
  /\ handling \in {"accepted", "shown"} => reads <= number + 4

(* The length that is asked for covers the number's four bytes. *)
LEMMA NeedsEnough ==
  ASSUME head \in 0..2, NEW k \in {6, 7}
  PROVE  Needs(k) \in Nat /\ Needs(k) >= head + k + 4
BY DEF Needs

LEMMA HandlerInductive ==
  ASSUME HandlerInv, [HandlerNext]_handlerVars
  PROVE  HandlerInv'
<1>1. CASE Header
  BY <1>1 DEF HandlerInv, Header, Read
<1>2. CASE Version
  <2>1. /\ handling = "version" /\ dataLen' = dataLen /\ head' = head /\ head \in 0..2
        /\ dataLen \in Nat /\ reads \in Nat /\ reads <= head + 1
        /\ handling' = IF dataLen < Needs(number' - head) THEN "refused" ELSE "number"
    BY <1>2 DEF HandlerInv, Version
  <2>2. PICK k \in {6, 7} : number' = head + k
    BY <1>2 DEF HandlerInv, Version
  <2>3. reads' \in Nat /\ reads' <= head + 3
    BY <1>2, <2>1 DEF Version, Read
  <2>4. number' - head = k /\ number' \in Int
    BY <2>1, <2>2
  <2>5. Needs(k) \in Nat /\ Needs(k) >= head + k + 4
    BY <2>1, NeedsEnough
  <2>6. handling' = "number" => dataLen >= number' + 4
    BY <2>1, <2>2, <2>4, <2>5
  <2>. QED
    BY <2>1, <2>2, <2>3, <2>4, <2>6 DEF HandlerInv
<1>3. CASE Number
  BY <1>3 DEF HandlerInv, Number, Read
<1>4. CASE Show
  BY <1>4 DEF HandlerInv, Show, Read
<1>5. CASE UNCHANGED handlerVars
  BY <1>5 DEF HandlerInv, handlerVars
<1>. QED
  BY <1>1, <1>2, <1>3, <1>4, <1>5 DEF HandlerNext

(* Whatever lies behind a short payload in memory, qq_handler() does not     *)
(* call it QQ on the strength of bytes that are not its own.               *)
THEOREM VerdictIsFromPayload == HandlerSpec => []VerdictFromPayload
<1>1. HandlerInit => HandlerInv
  BY QQAssumption DEF HandlerInit, HandlerInv
<1>2. HandlerInv /\ [HandlerNext]_handlerVars => HandlerInv'
  BY HandlerInductive
<1>3. HandlerInv => VerdictFromPayload
  BY DEF HandlerInv, VerdictFromPayload
<1>. QED
  BY <1>1, <1>2, <1>3, PTL DEF HandlerSpec

-----------------------------------------------------------------------------
(* NdInfo: the books balance.                                               *)

Packets == [at : NdPlaces, key : Keys \cup {None}, dir : Dirs \cup {"OTHER"},
            name : Names \cup {None}]

(* what a CPU in core() may have in its hands: a packet that adds has a     *)
(* name, and a packet that updates has an entry                            *)
Sensible(q, t) ==
  /\ q \in Packets
  /\ q.at \notin {"idle", "other"} => q.key \in Keys /\ q.dir \in Dirs
  /\ q.at = "other" => q.dir = "OTHER"
  /\ q.at = "add" => q.name \in Names
  /\ q.at = "update" => t[q.key] # None

NdTypes ==
  /\ \A k \in Keys : tree[k] = None \/ tree[k] \in Entry
  /\ DOMAIN tree = Keys /\ tree = [k \in Keys |-> tree[k]]
  /\ count \in Nat
  /\ lock \in {"free", "kept"}
  /\ came \in [Dirs -> Nat] /\ unbooked \in [Dirs -> Nat] /\ dropped \in [Dirs -> Nat]
  /\ turned \in Nat
  /\ cpu \in [CPUs -> Packets]
  /\ \A c \in CPUs : Sensible(cpu[c], tree)

Known == {k \in Keys : tree[k] # None}

(* a packet of direction d on its way *)
OnWay(q, d) == q.at # "idle" /\ q.dir = d

Busy(d) == {c \in CPUs : OnWay(cpu[c], d)}

AllBytes(d) == SumFunctionOnSet([n \in Names |-> CountOf(n, d)], Names)

(* where the packets of a direction are, and how many there should be       *)
Account(d) == AllBytes(d) + Cardinality(Busy(d)) + unbooked[d] + dropped[d]

Due(d) == IF d = "UP" THEN came[d] + turned ELSE came[d] - turned

LostOnce == dropped["UP"] + dropped["DOWN"] = IF lock = "free" THEN 0 ELSE 1

(* the books in these terms *)
Books ==
  /\ \A d \in Dirs : Account(d) = Due(d)
  /\ LostOnce
  /\ count = Cardinality(Known)

NdInv == NdTypes /\ Books

LEMMA NamesFinite == IsFiniteSet(Names)
<1>1. IsFiniteSet({WellKnown[k] : k \in Keys})
  <2>1. WellKnown \in Surjection(Keys, {WellKnown[k] : k \in Keys})
    BY NdInfoAssumption DEF Surjection
  <2>. QED
    BY <2>1, NdInfoAssumption, FS_Surjection
<1>2. IsFiniteSet(Patterns \cup {Unknown})
  BY NdInfoAssumption, FS_AddElement
<1>3. IsFiniteSet((Patterns \cup {Unknown}) \cup {WellKnown[k] : k \in Keys})
  BY <1>1, <1>2, FS_Union
<1>. QED
  BY <1>3, FS_Subset DEF Names

(* What is counted are finite sums of numbers.                              *)
LEMMA Counts ==
  ASSUME NdTypes, NEW n, NEW d \in Dirs
  PROVE  /\ IsFiniteSet(HasName(n))
         /\ \A k \in HasName(n) : tree[k].bytes[d] \in Nat
         /\ CountOf(n, d) = SumFunctionOnSet([k \in HasName(n) |-> tree[k].bytes[d]], HasName(n))
         /\ CountOf(n, d) \in Nat
<1>1. IsFiniteSet(HasName(n))
  BY NdInfoAssumption, FS_Subset DEF HasName
<1>2. \A k \in HasName(n) : tree[k].bytes[d] \in Nat
  <2>1. \A k \in HasName(n) : tree[k] \in Entry
    BY DEF HasName, NdTypes
  <2>. QED
    BY <2>1 DEF Entry
<1> DEFINE f == [k \in HasName(n) |-> tree[k].bytes[d]]
<1>3. CountOf(n, d) = SumFunctionOnSet(f, HasName(n))
  BY DEF CountOf, SumFunction
<1>4. \A k \in HasName(n) : f[k] \in Nat
  BY <1>2
<1>. HIDE DEF f
<1>5. SumFunctionOnSet(f, HasName(n)) \in Nat
  BY <1>1, <1>4, SumType
<1>. QED
  BY <1>1, <1>2, <1>3, <1>5 DEF f

(* The sums are numbers. *)
LEMMA BooksAre ==
  ASSUME NdTypes
  PROVE  /\ \A d \in Dirs : AllBytes(d) \in Nat
         /\ \A d \in Dirs : IsFiniteSet(Busy(d)) /\ Cardinality(Busy(d)) \in Nat
         /\ IsFiniteSet(Known) /\ Cardinality(Known) \in Nat
<1>1. ASSUME NEW d \in Dirs
      PROVE  AllBytes(d) \in Nat
  <2> DEFINE f == [n \in Names |-> CountOf(n, d)]
  <2>1. \A n \in Names : f[n] \in Nat
    BY Counts
  <2>2. AllBytes(d) = SumFunctionOnSet(f, Names)
    BY DEF AllBytes
  <2>. HIDE DEF f
  <2>. QED
    BY <2>1, <2>2, NamesFinite, SumType
<1>2. /\ \A d \in Dirs : IsFiniteSet(Busy(d)) /\ Cardinality(Busy(d)) \in Nat
      /\ IsFiniteSet(Known) /\ Cardinality(Known) \in Nat
  BY NdInfoAssumption, FS_Subset, FS_CardinalityType DEF Busy, Known
<1>. QED
  BY <1>1, <1>2

LEMMA NextBooksAre ==
  NdTypes' => (\A d \in Dirs : AllBytes(d) \in Nat /\ Cardinality(Busy(d)) \in Nat)'
<1>1. NdTypes => \A d \in Dirs : AllBytes(d) \in Nat /\ Cardinality(Busy(d)) \in Nat
  BY BooksAre
<1>. QED
  BY <1>1, PTL

(* The invariant is what the property says. *)
LEMMA BooksSay == NdInv => BooksBalance
<1>. SUFFICES ASSUME NdInv
              PROVE  BooksBalance
  OBVIOUS
<1>1. ASSUME NEW d \in Dirs
      PROVE  Booked(d) = AllBytes(d) /\ InFlight(d) = Cardinality(Busy(d))
  BY DEF Booked, AllBytes, SumFunction, InFlight, Busy, OnWay
<1>2. /\ \A d \in Dirs : AllBytes(d) \in Nat /\ Cardinality(Busy(d)) \in Nat
      /\ came \in [Dirs -> Nat] /\ unbooked \in [Dirs -> Nat] /\ dropped \in [Dirs -> Nat]
      /\ turned \in Nat
  BY BooksAre DEF NdInv, NdTypes
<1>3. "UP" \in Dirs /\ "DOWN" \in Dirs
  BY DEF Dirs
<1>4. Account("UP") = came["UP"] + turned /\ Account("DOWN") = came["DOWN"] - turned
  BY <1>3 DEF NdInv, Books, Due
<1>5. Booked("UP") + InFlight("UP") + unbooked["UP"] + dropped["UP"] = came["UP"] + turned
  BY <1>1, <1>3, <1>4 DEF Account
<1>6. Booked("DOWN") + InFlight("DOWN") + unbooked["DOWN"] + dropped["DOWN"] + turned = came["DOWN"]
  <2> DEFINE A == AllBytes("DOWN")
             B == Cardinality(Busy("DOWN"))
             L == unbooked["DOWN"]
             D == dropped["DOWN"]
             C == came["DOWN"]
  <2>1. A \in Nat /\ B \in Nat /\ L \in Nat /\ D \in Nat /\ C \in Nat /\ turned \in Nat
    BY <1>2, <1>3
  <2>2. A + B + L + D = C - turned
    BY <1>4 DEF Account
  <2>3. Booked("DOWN") = A /\ InFlight("DOWN") = B
    BY <1>1, <1>3
  <2>. HIDE DEF A, B, L, D, C
  <2>4. A + B + L + D + turned = C
    BY <2>1, <2>2
  <2>. QED
    BY <2>3, <2>4 DEF L, D, C
<1>. QED
  BY <1>5, <1>6 DEF BooksBalance, NdInv, Books, LostOnce, Known

(* The sum over the names follows the names. *)
LEMMA SumsFollow ==
  ASSUME NdTypes, NEW d \in Dirs
  PROVE  /\ (\A m \in Names : CountOf(m, d)' = CountOf(m, d)) => AllBytes(d)' = AllBytes(d)
         /\ \A n \in Names :
              (\A m \in Names : CountOf(m, d)' = IF m = n THEN CountOf(m, d) + 1 ELSE CountOf(m, d))
                => AllBytes(d)' = AllBytes(d) + 1
<1> DEFINE f == [m \in Names |-> CountOf(m, d)]
           g == [m \in Names |-> CountOf(m, d)']
<1>1. \A m \in Names : f[m] \in Nat
  BY Counts
<1>2. AllBytes(d) = SumFunctionOnSet(f, Names) /\ AllBytes(d)' = SumFunctionOnSet(g, Names)
  BY DEF AllBytes
<1>3. ASSUME \A m \in Names : CountOf(m, d)' = CountOf(m, d)
      PROVE  AllBytes(d)' = AllBytes(d)
  <2>1. f = g
    BY <1>3
  <2>. QED
    BY <1>2, <2>1
<1>4. ASSUME NEW n \in Names,
             \A m \in Names : CountOf(m, d)' = IF m = n THEN CountOf(m, d) + 1 ELSE CountOf(m, d)
      PROVE  AllBytes(d)' = AllBytes(d) + 1
  <2>1. \A m \in Names : g[m] = IF m = n THEN f[m] + 1 ELSE f[m]
    BY <1>4
  <2>. HIDE DEF f, g
  <2>. QED
    BY <1>1, <1>2, <2>1, NamesFinite, SumChange
<1>. QED
  BY <1>3, <1>4

(* Where a CPU goes decides whether its packet is on its way.               *)
LEMMA BusyStep ==
  ASSUME NdTypes, NEW c \in CPUs, NEW p, cpu' = [cpu EXCEPT ![c] = p], NEW d \in Dirs
  PROVE  /\ OnWay(cpu[c], d) /\ ~OnWay(p, d) => Cardinality(Busy(d)') = Cardinality(Busy(d)) - 1
         /\ ~OnWay(cpu[c], d) /\ OnWay(p, d) => Cardinality(Busy(d)') = Cardinality(Busy(d)) + 1
         /\ (OnWay(cpu[c], d) <=> OnWay(p, d)) => Cardinality(Busy(d)') = Cardinality(Busy(d))
<1>1. \A o \in CPUs : cpu'[o] = IF o = c THEN p ELSE cpu[o]
  BY DEF NdTypes
<1>2. IsFiniteSet(Busy(d)) /\ Cardinality(Busy(d)) \in Nat
  BY BooksAre
<1>3. Busy(d)' = {o \in CPUs : OnWay(cpu'[o], d)}
  BY DEF Busy, OnWay
<1>4. ASSUME OnWay(cpu[c], d), ~OnWay(p, d)
      PROVE  Cardinality(Busy(d)') = Cardinality(Busy(d)) - 1
  <2>1. Busy(d)' = Busy(d) \ {c} /\ c \in Busy(d)
    BY <1>1, <1>3, <1>4 DEF Busy
  <2>. QED
    BY <1>2, <2>1, FS_RemoveElement
<1>5. ASSUME ~OnWay(cpu[c], d), OnWay(p, d)
      PROVE  Cardinality(Busy(d)') = Cardinality(Busy(d)) + 1
  <2>1. Busy(d)' = Busy(d) \cup {c} /\ c \notin Busy(d)
    BY <1>1, <1>3, <1>5 DEF Busy
  <2>. QED
    BY <1>2, <2>1, FS_AddElement
<1>6. ASSUME OnWay(cpu[c], d) <=> OnWay(p, d)
      PROVE  Cardinality(Busy(d)') = Cardinality(Busy(d))
  <2>1. Busy(d)' = Busy(d)
    BY <1>1, <1>3, <1>6 DEF Busy
  <2>. QED
    BY <2>1
<1>. QED
  BY <1>4, <1>5, <1>6

(* The bytes of a name depend on its entries only.                          *)
LEMMA BytesKept ==
  ASSUME NEW n, HasName(n)' = HasName(n), NEW d,
         \A k \in HasName(n) : tree'[k].bytes[d] = tree[k].bytes[d]
  PROVE  CountOf(n, d)' = CountOf(n, d)
<1> DEFINE f == [k \in HasName(n) |-> tree[k].bytes[d]]
           g == [k \in HasName(n)' |-> tree'[k].bytes[d]]
<1>1. f = g
  OBVIOUS
<1>. QED
  BY <1>1 DEF CountOf, SumFunction

(* A CPU that leaves core() is idle. *)
LEMMA IdleIs == Idle \in Packets /\ Idle.at = "idle" /\ \A d : ~OnWay(Idle, d)
BY DEF Idle, Packets, NdPlaces, Dirs, OnWay

(* CPUs go on with their own packets.                                       *)
LEMMA GoesOn ==
  ASSUME NdTypes, NEW c \in CPUs, NEW p, cpu' = [cpu EXCEPT ![c] = p],
         Sensible(p, tree),
         \A k \in Keys : tree[k] # None => tree'[k] # None,
         \A k \in Keys : tree'[k] = None \/ tree'[k] \in Entry,
         tree' = [k \in Keys |-> tree'[k]], count' \in Nat, lock' \in {"free", "kept"},
         came' \in [Dirs -> Nat], unbooked' \in [Dirs -> Nat], dropped' \in [Dirs -> Nat],
         turned' \in Nat
  PROVE  NdTypes'
<1>1. \A o \in CPUs : cpu'[o] = IF o = c THEN p ELSE cpu[o]
  BY DEF NdTypes
<1>2. cpu' \in [CPUs -> Packets]
  BY DEF NdTypes, Sensible
<1>3. ASSUME NEW o \in CPUs
      PROVE  Sensible(cpu'[o], tree')
  <2>1. Sensible(cpu[o], tree) \/ o = c
    BY DEF NdTypes
  <2>2. cpu'[o] = p \/ (cpu'[o] = cpu[o] /\ Sensible(cpu[o], tree))
    BY <1>1, <2>1 DEF NdTypes
  <2>. QED
    BY <2>2 DEF Sensible
<1>. QED
  BY <1>2, <1>3 DEF NdTypes

LEMMA Moves ==
  ASSUME NdTypes, NEW c \in CPUs, NEW p, cpu' = [cpu EXCEPT ![c] = p], Sensible(p, tree),
         UNCHANGED <<tree, count, turned>>, lock' \in {"free", "kept"},
         came' \in [Dirs -> Nat], unbooked' \in [Dirs -> Nat], dropped' \in [Dirs -> Nat]
  PROVE  NdTypes'
<1>1. /\ \A k \in Keys : tree[k] # None => tree'[k] # None
      /\ \A k \in Keys : tree'[k] = None \/ tree'[k] \in Entry
      /\ tree' = [k \in Keys |-> tree'[k]] /\ count' \in Nat /\ turned' \in Nat
  BY DEF NdTypes
<1>. QED
  BY <1>1, GoesOn

(* the arithmetic of packets that move, and of one that leaves              *)
LEMMA Balanced ==
  ASSUME NEW a \in Nat, NEW b \in Nat, NEW n \in Nat, NEW t \in Nat, NEW x \in Nat,
         NEW y \in Nat, NEW u \in Nat, NEW v \in Nat, NEW p \in Nat, NEW q \in Nat,
         y - v - q - n = x - u - p - b
  PROVE  /\ a + b + u + p = x + t => a + n + v + q = y + t
         /\ a + b + u + p = x - t => a + n + v + q = y - t
OBVIOUS

LEMMA OneLeaves ==
  ASSUME NEW x \in Nat, NEW b \in Nat, NEW u \in Nat, NEW v \in Nat, NEW p \in Nat, NEW q \in Nat
  PROVE  /\ v + q = u + p + 1 => x - v - q - (b - 1) = x - u - p - b
         /\ v + q = u + p => x - v - q - b = x - u - p - b
OBVIOUS

(* A step that leaves the tree alone moves packets.                         *)
LEMMA TreeKept ==
  ASSUME NdInv, NdTypes', UNCHANGED <<tree, count, turned>>, LostOnce',
         \A d \in Dirs : came'[d] - unbooked'[d] - dropped'[d] - Cardinality(Busy(d)') =
                           came[d] - unbooked[d] - dropped[d] - Cardinality(Busy(d))
  PROVE  Books'
<1>1. ASSUME NEW d \in Dirs
      PROVE  (Account(d) = Due(d))'
  <2>1. Account(d) = Due(d) /\ AllBytes(d) \in Nat /\ Cardinality(Busy(d)) \in Nat
    BY BooksAre DEF NdInv, Books
  <2>2. (AllBytes(d) \in Nat /\ Cardinality(Busy(d)) \in Nat)'
    BY NextBooksAre
  <2>3. AllBytes(d)' = AllBytes(d)
    BY DEF AllBytes, CountOf, HasName
  <2>4. /\ came[d] \in Nat /\ unbooked[d] \in Nat /\ dropped[d] \in Nat /\ turned \in Nat
        /\ came'[d] \in Nat /\ unbooked'[d] \in Nat /\ dropped'[d] \in Nat
    BY DEF NdInv, NdTypes
  <2>5. /\ Account(d)' = AllBytes(d)' + Cardinality(Busy(d)') + unbooked'[d] + dropped'[d]
        /\ Due(d)' = IF d = "UP" THEN came'[d] + turned' ELSE came'[d] - turned'
    BY DEF Account, Due
  <2> DEFINE B == Cardinality(Busy(d))
             N == Cardinality(Busy(d)')
             A == AllBytes(d)
             U == unbooked[d]
             V == unbooked'[d]
             P == dropped[d]
             Q == dropped'[d]
             X == came[d]
             Y == came'[d]
  <2>6. Y - V - Q - N = X - U - P - B
    OBVIOUS
  <2>7. A + B + U + P = IF d = "UP" THEN X + turned ELSE X - turned
    BY <2>1 DEF Account, Due
  <2>8. A \in Nat /\ B \in Nat /\ N \in Nat
    BY <2>1, <2>2
  <2>9. U \in Nat /\ V \in Nat /\ P \in Nat /\ Q \in Nat /\ X \in Nat /\ Y \in Nat /\ turned \in Nat
    BY <2>4
  <2>. HIDE DEF A, B, N, U, V, P, Q, X, Y
  <2>10. A + N + V + Q = IF d = "UP" THEN Y + turned ELSE Y - turned
    <3>1. /\ A + B + U + P = X + turned => A + N + V + Q = Y + turned
          /\ A + B + U + P = X - turned => A + N + V + Q = Y - turned
      BY <2>6, <2>8, <2>9, Balanced
    <3>. QED
      BY <2>7, <3>1
  <2>. QED
    BY <2>3, <2>5, <2>10 DEF A, N, V, Q, Y
<1>2. Known' = Known
  BY DEF Known
<1>. QED
  BY <1>1, <1>2 DEF NdInv, Books

LEMMA ArriveStep ==
  ASSUME NdInv, NEW c \in CPUs, NEW k \in Keys, NEW d \in Dirs, Arrive(c, k, d)
  PROVE  NdInv'
<1> DEFINE p == [at |-> "find", key |-> k, dir |-> d, name |-> None]
<1>1. /\ cpu[c].at = "idle" /\ cpu' = [cpu EXCEPT ![c] = p]
      /\ came' = [came EXCEPT ![d] = @ + 1]
      /\ UNCHANGED <<tree, count, lock, unbooked, dropped, turned>>
  BY DEF Arrive, table
<1>2. Sensible(p, tree) /\ \A o : OnWay(p, o) <=> o = d
  BY DEF NdPlaces, Sensible, Packets, OnWay
<1>. HIDE DEF p
<1>3. came' \in [Dirs -> Nat] /\ \A o \in Dirs : came'[o] = IF o = d THEN came[o] + 1 ELSE came[o]
  BY <1>1 DEF NdInv, NdTypes
<1>4. NdTypes'
  <2>1. /\ lock' \in {"free", "kept"}
        /\ unbooked' \in [Dirs -> Nat] /\ dropped' \in [Dirs -> Nat]
    BY <1>1 DEF NdInv, NdTypes
  <2>. QED
    BY <1>1, <1>2, <1>3, <2>1, Moves DEF NdInv
<1>5. ASSUME NEW o \in Dirs
      PROVE  came'[o] - unbooked'[o] - dropped'[o] - Cardinality(Busy(o)') =
             came[o] - unbooked[o] - dropped[o] - Cardinality(Busy(o))
  <2>1. ~OnWay(cpu[c], o)
    BY <1>1 DEF OnWay
  <2>2. Cardinality(Busy(o)') = IF o = d THEN Cardinality(Busy(o)) + 1 ELSE Cardinality(Busy(o))
    BY <1>1, <1>2, <2>1, BusyStep DEF NdInv
  <2>3. Cardinality(Busy(o)) \in Nat
    BY BooksAre DEF NdInv
  <2>4. came[o] \in Nat /\ unbooked[o] \in Nat /\ dropped[o] \in Nat
    BY DEF NdInv, NdTypes
  <2>. QED
    BY <1>1, <1>3, <2>2, <2>3, <2>4
<1>6. LostOnce'
  BY <1>1 DEF NdInv, Books, LostOnce
<1>. QED
  BY <1>1, <1>4, <1>5, <1>6, TreeKept DEF NdInv

(* the steps that look, without counting *)
LEMMA LookStep ==
  ASSUME NdInv, NEW c \in CPUs, NEW p, cpu' = [cpu EXCEPT ![c] = p], Sensible(p, tree),
         \A d \in Dirs : OnWay(cpu[c], d) <=> OnWay(p, d),
         UNCHANGED <<tree, count, lock, came, unbooked, dropped, turned>>
  PROVE  NdInv'
<1>1. NdTypes'
  <2>1. /\ lock' \in {"free", "kept"} /\ came' \in [Dirs -> Nat]
        /\ unbooked' \in [Dirs -> Nat] /\ dropped' \in [Dirs -> Nat]
    BY DEF NdInv, NdTypes
  <2>. QED
    BY <2>1, Moves DEF NdInv
<1>2. \A d \in Dirs : Cardinality(Busy(d)') = Cardinality(Busy(d))
  BY BusyStep DEF NdInv
<1>3. LostOnce'
  BY DEF NdInv, Books, LostOnce
<1>. QED
  BY <1>1, <1>2, <1>3, TreeKept DEF NdInv

(* The steps that leave a packet uncounted: f is the history it goes to.    *)
LEMMA LeaveStep ==
  ASSUME NdInv, NEW c \in CPUs, cpu' = [cpu EXCEPT ![c] = Idle],
         cpu[c].at \notin {"idle", "other"}, UNCHANGED <<tree, count, came, turned>>,
         lock' \in {"free", "kept"}, LostOnce',
         \/ unbooked' = [unbooked EXCEPT ![cpu[c].dir] = @ + 1] /\ dropped' = dropped
         \/ dropped' = [dropped EXCEPT ![cpu[c].dir] = @ + 1] /\ unbooked' = unbooked
  PROVE  NdInv'
<1>1. cpu[c].dir \in Dirs
  BY DEF NdInv, NdTypes, Sensible
<1>2. /\ unbooked' \in [Dirs -> Nat] /\ dropped' \in [Dirs -> Nat]
      /\ \A o \in Dirs : unbooked'[o] + dropped'[o] =
           IF o = cpu[c].dir THEN unbooked[o] + dropped[o] + 1 ELSE unbooked[o] + dropped[o]
  BY <1>1 DEF NdInv, NdTypes
<1>3. Sensible(Idle, tree)
  BY IdleIs DEF Sensible
<1>4. NdTypes'
  <2>1. came' \in [Dirs -> Nat]
    BY DEF NdInv, NdTypes
  <2>. QED
    BY <1>2, <1>3, <2>1, Moves DEF NdInv
<1>5. ASSUME NEW o \in Dirs
      PROVE  came'[o] - unbooked'[o] - dropped'[o] - Cardinality(Busy(o)') =
             came[o] - unbooked[o] - dropped[o] - Cardinality(Busy(o))
  <2>1. OnWay(cpu[c], o) <=> o = cpu[c].dir
    BY DEF OnWay
  <2>2. Cardinality(Busy(o)') =
          IF o = cpu[c].dir THEN Cardinality(Busy(o)) - 1 ELSE Cardinality(Busy(o))
    BY <2>1, IdleIs, BusyStep DEF NdInv
  <2>3. Cardinality(Busy(o)) \in Nat
    BY BooksAre DEF NdInv
  <2>4. /\ came[o] \in Nat /\ unbooked[o] \in Nat /\ dropped[o] \in Nat
        /\ unbooked'[o] \in Nat /\ dropped'[o] \in Nat
    BY <1>2 DEF NdInv, NdTypes
  <2>5. came'[o] = came[o]
    OBVIOUS
  <2>6. CASE o = cpu[c].dir
    <3>1. Cardinality(Busy(o)') = Cardinality(Busy(o)) - 1
      BY <2>2, <2>6
    <3>2. unbooked'[o] + dropped'[o] = unbooked[o] + dropped[o] + 1
      BY <1>2, <2>6
    <3>. QED
      BY <2>3, <2>4, <2>5, <3>1, <3>2, OneLeaves
  <2>7. CASE o # cpu[c].dir
    <3>1. Cardinality(Busy(o)') = Cardinality(Busy(o))
      BY <2>2, <2>7
    <3>2. unbooked'[o] + dropped'[o] = unbooked[o] + dropped[o]
      BY <1>2, <2>7
    <3>. QED
      BY <2>3, <2>4, <2>5, <3>1, <3>2, OneLeaves
  <2>. QED
    BY <2>6, <2>7
<1>. QED
  BY <1>4, <1>5, TreeKept DEF NdInv

(* An entry has one byte more.                                              *)
LEMMA EntryUpdated ==
  ASSUME NdTypes, NEW x \in Keys, NEW d \in Dirs, NEW n \in Names, NEW e,
         tree[x] \in Entry, tree[x] # None, tree[x].name = n, e # None, e.name = n,
         \A o \in Dirs : e.bytes[o] = IF o = d THEN tree[x].bytes[o] + 1 ELSE tree[x].bytes[o],
         \A k \in Keys : tree'[k] = IF k = x THEN e ELSE tree[k]
  PROVE  /\ \A o \in Dirs : AllBytes(o)' = IF o = d THEN AllBytes(o) + 1 ELSE AllBytes(o)
         /\ Known' = Known
<1>1. \A m : HasName(m)' = HasName(m)
  BY DEF HasName
<1>2. ASSUME NEW m \in Names, NEW o \in Dirs, m # n \/ o # d
      PROVE  CountOf(m, o)' = CountOf(m, o)
  <2>1. \A k \in HasName(m) : tree'[k].bytes[o] = tree[k].bytes[o]
    BY <1>2 DEF HasName
  <2>. QED
    BY <1>1, <2>1, BytesKept
<1>3. CountOf(n, d)' = CountOf(n, d) + 1
  <2>1. x \in HasName(n)
    BY DEF HasName
  <2> DEFINE f == [k \in HasName(n) |-> tree[k].bytes[d]]
             g == [k \in HasName(n) |-> tree'[k].bytes[d]]
  <2>2. /\ IsFiniteSet(HasName(n)) /\ \A k \in HasName(n) : f[k] \in Nat
        /\ CountOf(n, d) = SumFunctionOnSet(f, HasName(n))
    BY Counts
  <2>3. CountOf(n, d)' = SumFunctionOnSet(g, HasName(n))
    BY <1>1 DEF CountOf, SumFunction
  <2>4. \A k \in HasName(n) : g[k] = IF k = x THEN f[k] + 1 ELSE f[k]
    BY DEF HasName
  <2>. HIDE DEF f, g
  <2>. QED
    BY <2>1, <2>2, <2>3, <2>4, SumChange
<1>4. ASSUME NEW o \in Dirs
      PROVE  AllBytes(o)' = IF o = d THEN AllBytes(o) + 1 ELSE AllBytes(o)
  <2>1. CASE o = d
    <3>1. \A m \in Names : CountOf(m, o)' = IF m = n THEN CountOf(m, o) + 1 ELSE CountOf(m, o)
      BY <1>2, <1>3, <2>1
    <3>. QED
      BY <2>1, <3>1, SumsFollow
  <2>2. CASE o # d
    <3>1. \A m \in Names : CountOf(m, o)' = CountOf(m, o)
      BY <1>2, <2>2
    <3>. QED
      BY <2>2, <3>1, SumsFollow
  <2>. QED
    BY <2>1, <2>2
<1>5. Known' = Known
  BY DEF Known
<1>. QED
  BY <1>4, <1>5

(* The packet leaves core(), and one entry has one byte more.               *)
LEMMA UpdateStep ==
  ASSUME NdInv, NEW c \in CPUs, Update(c)
  PROVE  NdInv'
<1> DEFINE x == cpu[c].key
           d == cpu[c].dir
           n == tree[x].name
           e == [tree[x] EXCEPT !.bytes[d] = @ + 1]
<1>1. /\ cpu[c].at = "update" /\ cpu' = [cpu EXCEPT ![c] = Idle]
      /\ tree' = [tree EXCEPT ![x] = e]
      /\ UNCHANGED <<count, lock, came, unbooked, dropped, turned>>
  BY DEF Update, Locks, Accept, books
<1>2. /\ x \in Keys /\ d \in Dirs /\ tree[x] # None /\ tree[x] \in Entry /\ n \in Names
      /\ tree[x].bytes \in [Dirs -> Nat]
  <2>1. x \in Keys /\ d \in Dirs /\ tree[x] # None
    BY <1>1 DEF NdInv, NdTypes, Sensible
  <2>2. tree[x] \in Entry
    BY <2>1 DEF NdInv, NdTypes
  <2>. QED
    BY <2>1, <2>2 DEF Entry
<1>3. /\ e \in Entry /\ e # None /\ e.name = n
      /\ \A o \in Dirs : e.bytes[o] = IF o = d THEN tree[x].bytes[o] + 1 ELSE tree[x].bytes[o]
  <2> DEFINE b == [tree[x].bytes EXCEPT ![d] = @ + 1]
  <2>1. b \in [Dirs -> Nat]
        /\ \A o \in Dirs : b[o] = IF o = d THEN tree[x].bytes[o] + 1 ELSE tree[x].bytes[o]
    <3> HIDE DEF d
    <3>. QED
      BY <1>2
  <2>2. e = [tree[x] EXCEPT !.bytes = b]
    OBVIOUS
  <2>3. tree[x] \in [name : Names, bytes : [Dirs -> Nat]]
    BY <1>2 DEF Entry
  <2>. HIDE DEF b, x, d, e
  <2>4. e \in [name : Names, bytes : [Dirs -> Nat]] /\ e.name = n /\ e.bytes = b
    BY <2>1, <2>2, <2>3
  <2>5. e # None
    BY <2>4, NdInfoAssumption DEF Entry
  <2>. QED
    BY <2>1, <2>4, <2>5 DEF Entry
<1>4. \A k \in Keys : tree'[k] = IF k = x THEN e ELSE tree[k]
  BY <1>1 DEF NdInv, NdTypes
<1>5. \A o : OnWay(cpu[c], o) <=> o = d
  BY <1>1 DEF OnWay
<1>. HIDE DEF x, d, n, e
<1>6. NdTypes'
  <2>1. tree' = [k \in Keys |-> tree'[k]]
    BY <1>1 DEF NdInv, NdTypes
  <2>2. \A k \in Keys : tree[k] # None => tree'[k] # None
    BY <1>3, <1>4
  <2>3. \A k \in Keys : tree'[k] = None \/ tree'[k] \in Entry
    BY <1>3, <1>4 DEF NdInv, NdTypes
  <2>4. Sensible(Idle, tree)
    BY IdleIs DEF Sensible
  <2>. QED
    BY <1>1, <2>1, <2>2, <2>3, <2>4, GoesOn DEF NdInv, NdTypes
<1>7. /\ \A o \in Dirs : AllBytes(o)' = IF o = d THEN AllBytes(o) + 1 ELSE AllBytes(o)
      /\ Known' = Known
  BY <1>2, <1>3, <1>4, EntryUpdated DEF NdInv, n
<1>8. ASSUME NEW o \in Dirs
      PROVE  (Account(o) = Due(o))'
  <2>1. Cardinality(Busy(o)') = IF o = d THEN Cardinality(Busy(o)) - 1 ELSE Cardinality(Busy(o))
    BY <1>1, <1>5, IdleIs, BusyStep DEF NdInv
  <2>2. Account(o) = Due(o) /\ AllBytes(o) \in Nat /\ Cardinality(Busy(o)) \in Nat
    BY BooksAre DEF NdInv, Books
  <2>3. unbooked[o] \in Nat /\ dropped[o] \in Nat
    BY DEF NdInv, NdTypes
  <2>4. Account(o)' = Account(o)
    BY <1>1, <1>7, <2>1, <2>2, <2>3 DEF Account
  <2>5. Due(o)' = Due(o)
    BY <1>1 DEF Due
  <2>. QED
    BY <2>2, <2>4, <2>5
<1>9. LostOnce' /\ count' = Cardinality(Known')
  BY <1>1, <1>7 DEF NdInv, Books, LostOnce
<1>. QED
  BY <1>6, <1>8, <1>9 DEF NdInv, Books

(* A name has a new entry, with one byte up.                                *)
LEMMA EntryAdded ==
  ASSUME NdTypes, NEW x \in Keys, NEW n \in Names, NEW e, tree[x] = None,
         e # None, e.name = n, e.bytes["UP"] = 1, e.bytes["DOWN"] = 0,
         \A k \in Keys : tree'[k] = IF k = x THEN e ELSE tree[k]
  PROVE  /\ AllBytes("UP")' = AllBytes("UP") + 1
         /\ AllBytes("DOWN")' = AllBytes("DOWN")
         /\ Cardinality(Known') = Cardinality(Known) + 1
<1>1. /\ HasName(n)' = HasName(n) \cup {x} /\ x \notin HasName(n)
      /\ \A m : m # n => HasName(m)' = HasName(m)
  BY DEF HasName
<1>2. ASSUME NEW m \in Names, m # n, NEW d \in Dirs
      PROVE  CountOf(m, d)' = CountOf(m, d)
  <2>1. \A k \in HasName(m) : tree'[k].bytes[d] = tree[k].bytes[d]
    BY DEF HasName
  <2>. QED
    BY <1>1, <1>2, <2>1, BytesKept
<1>3. ASSUME NEW d \in Dirs
      PROVE  CountOf(n, d)' = CountOf(n, d) + e.bytes[d] /\ CountOf(n, d) \in Nat
  <2> DEFINE f == [k \in HasName(n) |-> tree[k].bytes[d]]
             g == [k \in HasName(n) \cup {x} |-> tree'[k].bytes[d]]
  <2>1. /\ IsFiniteSet(HasName(n)) /\ \A k \in HasName(n) : f[k] \in Nat
        /\ CountOf(n, d) = SumFunctionOnSet(f, HasName(n)) /\ CountOf(n, d) \in Nat
    BY <1>3, Counts
  <2>2. CountOf(n, d)' = SumFunctionOnSet(g, HasName(n) \cup {x})
    BY <1>1 DEF CountOf, SumFunction
  <2>3. \A k \in HasName(n) : g[k] = f[k]
    BY <1>1 DEF HasName
  <2>4. g[x] = e.bytes[d] /\ e.bytes[d] \in Nat
    BY <1>3 DEF Dirs
  <2>. HIDE DEF f, g
  <2>5. SumFunctionOnSet(g, HasName(n) \cup {x}) = g[x] + SumFunctionOnSet(g, HasName(n))
    BY <1>1, <2>1, <2>3, <2>4, SumAdd
  <2>6. SumFunctionOnSet(f, HasName(n)) = SumFunctionOnSet(g, HasName(n))
    BY <2>1, <2>3, SumSame
  <2>. QED
    BY <2>1, <2>2, <2>4, <2>5, <2>6
<1>4. "UP" \in Dirs /\ "DOWN" \in Dirs
  BY DEF Dirs
<1>5. AllBytes("UP")' = AllBytes("UP") + 1
  <2>1. \A m \in Names :
          CountOf(m, "UP")' = IF m = n THEN CountOf(m, "UP") + 1 ELSE CountOf(m, "UP")
    BY <1>2, <1>3, <1>4
  <2>. QED
    BY <1>4, <2>1, SumsFollow
<1>6. AllBytes("DOWN")' = AllBytes("DOWN")
  <2>1. CountOf(n, "DOWN")' = CountOf(n, "DOWN")
    BY <1>3, <1>4
  <2>2. \A m \in Names : CountOf(m, "DOWN")' = CountOf(m, "DOWN")
    BY <1>2, <1>4, <2>1
  <2>. QED
    BY <1>4, <2>2, SumsFollow
<1>7. Cardinality(Known') = Cardinality(Known) + 1
  <2>1. Known' = Known \cup {x} /\ x \notin Known
    BY DEF Known
  <2>. QED
    BY <2>1, BooksAre, FS_AddElement
<1>. QED
  BY <1>5, <1>6, <1>7

(* The packet leaves core(), and one name has a new entry with one byte up. *)
LEMMA NdAddStep ==
  ASSUME NdInv, NEW c \in CPUs, NdAdd(c)
  PROVE  NdInv'
<1> DEFINE x == cpu[c].key
           d == cpu[c].dir
           n == cpu[c].name
           e == [name |-> n, bytes |-> [UP |-> 1, DOWN |-> 0]]
<1>1. /\ cpu[c].at = "add" /\ cpu' = [cpu EXCEPT ![c] = Idle] /\ tree[x] = None
      /\ tree' = [tree EXCEPT ![x] = e] /\ count' = count + 1
      /\ turned' = IF d = "DOWN" THEN turned + 1 ELSE turned
      /\ UNCHANGED <<lock, came, unbooked, dropped>>
  BY DEF NdAdd, Locks, Accept
<1>2. x \in Keys /\ n \in Names /\ d \in Dirs
  BY <1>1 DEF NdInv, NdTypes, Sensible
<1>3. e \in Entry /\ e # None /\ e.name = n /\ e.bytes["UP"] = 1 /\ e.bytes["DOWN"] = 0
  <2>1. [UP |-> 1, DOWN |-> 0] \in [Dirs -> Nat]
    BY DEF Dirs
  <2>2. e \in Entry
    BY <1>2, <2>1 DEF Entry
  <2>. QED
    BY <2>2, NdInfoAssumption
<1>4. \A k \in Keys : tree'[k] = IF k = x THEN e ELSE tree[k]
  BY <1>1 DEF NdInv, NdTypes
<1>5. \A o : OnWay(cpu[c], o) <=> o = d
  BY <1>1 DEF OnWay
<1>. HIDE DEF x, d, n, e
<1>6. NdTypes'
  <2>1. tree' = [k \in Keys |-> tree'[k]]
    BY <1>1 DEF NdInv, NdTypes
  <2>2. \A k \in Keys : tree[k] # None => tree'[k] # None
    BY <1>3, <1>4
  <2>3. \A k \in Keys : tree'[k] = None \/ tree'[k] \in Entry
    BY <1>3, <1>4 DEF NdInv, NdTypes
  <2>4. count' \in Nat /\ turned' \in Nat
    BY <1>1 DEF NdInv, NdTypes
  <2>5. Sensible(Idle, tree)
    BY IdleIs DEF Sensible
  <2>. QED
    BY <1>1, <2>1, <2>2, <2>3, <2>4, <2>5, GoesOn DEF NdInv, NdTypes
<1>7. /\ \A o \in Dirs : AllBytes(o)' = IF o = "UP" THEN AllBytes(o) + 1 ELSE AllBytes(o)
      /\ Cardinality(Known') = Cardinality(Known) + 1
  BY <1>1, <1>2, <1>3, <1>4, EntryAdded DEF NdInv, Dirs
<1>8. ASSUME NEW o \in Dirs
      PROVE  (Account(o) = Due(o))'
  <2>1. Cardinality(Busy(o)') = IF o = d THEN Cardinality(Busy(o)) - 1 ELSE Cardinality(Busy(o))
    BY <1>1, <1>5, IdleIs, BusyStep DEF NdInv
  <2>2. Account(o) = Due(o) /\ AllBytes(o) \in Nat /\ Cardinality(Busy(o)) \in Nat
    BY BooksAre DEF NdInv, Books
  <2>3. unbooked[o] \in Nat /\ dropped[o] \in Nat /\ came[o] \in Nat /\ turned \in Nat
    BY DEF NdInv, NdTypes
  <2>4. /\ Account(o)' = AllBytes(o)' + Cardinality(Busy(o)') + unbooked[o] + dropped[o]
        /\ Due(o)' = IF o = "UP" THEN came[o] + turned' ELSE came[o] - turned'
    BY <1>1 DEF Account, Due
  <2>5. AllBytes(o)' = IF o = "UP" THEN AllBytes(o) + 1 ELSE AllBytes(o)
    BY <1>7
  <2> DEFINE B == Cardinality(Busy(o))
             N == Cardinality(Busy(o)')
             A == AllBytes(o)
             M == AllBytes(o)'
  <2>6. A + B + unbooked[o] + dropped[o] = IF o = "UP" THEN came[o] + turned ELSE came[o] - turned
    BY <2>2 DEF Account, Due
  <2>7. /\ A \in Nat /\ B \in Nat /\ N = (IF o = d THEN B - 1 ELSE B)
        /\ M = (IF o = "UP" THEN A + 1 ELSE A)
    BY <2>1, <2>2, <2>5
  <2>. HIDE DEF A, B, N, M
  <2>8. (o = "UP" \/ o = "DOWN") /\ (d = "UP" \/ d = "DOWN")
    BY <1>2 DEF Dirs
  <2>9. M + N + unbooked[o] + dropped[o] = IF o = "UP" THEN came[o] + turned' ELSE came[o] - turned'
    <3>1. CASE d = "UP" /\ o = "UP"
      BY <1>1, <2>3, <2>6, <2>7, <3>1
    <3>2. CASE d = "UP" /\ o = "DOWN"
      BY <1>1, <2>3, <2>6, <2>7, <3>2
    <3>3. CASE d = "DOWN" /\ o = "UP"
      BY <1>1, <2>3, <2>6, <2>7, <3>3
    <3>4. CASE d = "DOWN" /\ o = "DOWN"
      BY <1>1, <2>3, <2>6, <2>7, <3>4
    <3>. QED
      BY <2>8, <3>1, <3>2, <3>3, <3>4
  <2>. QED
    BY <2>4, <2>9 DEF M, N
<1>9. LostOnce' /\ count' = Cardinality(Known')
  BY <1>1, <1>7 DEF NdInv, Books, LostOnce
<1>. QED
  BY <1>6, <1>8, <1>9 DEF NdInv, Books

LEMMA CoreStep ==
  ASSUME NdInv, NEW c \in CPUs, Core(c)
  PROVE  NdInv'
<1>1. cpu[c] \in Packets /\ Sensible(cpu[c], tree)
  BY DEF NdInv, NdTypes
<1>. USE DEF books, table
<1>2. ASSUME NEW to \in {"wellkn", "pattern"}, NEW from, from \notin {"idle", "other"},
             NdGoto(c, from, to), UNCHANGED <<table, lock, books>>
      PROVE  NdInv'
  <2> DEFINE p == [cpu[c] EXCEPT !.at = to]
  <2>1. cpu' = [cpu EXCEPT ![c] = p] /\ cpu[c].at \notin {"idle", "other"}
    BY <1>2 DEF NdGoto
  <2>2. p \in Packets /\ p.key = cpu[c].key /\ p.at = to /\ p.dir = cpu[c].dir
    BY <1>1 DEF Packets, NdPlaces
  <2>. HIDE DEF p
  <2>3. Sensible(p, tree) /\ \A d \in Dirs : OnWay(cpu[c], d) <=> OnWay(p, d)
    BY <1>1, <2>1, <2>2 DEF Sensible, OnWay
  <2>. QED
    BY <1>2, <2>1, <2>3, LookStep
<1>3. ASSUME NEW from, from \notin {"idle", "other"}, NEW n \in Names, GoAdd(c, from, n),
             UNCHANGED <<table, lock, books>>
      PROVE  NdInv'
  <2> DEFINE p == [cpu[c] EXCEPT !.at = "add", !.name = n]
  <2>1. cpu' = [cpu EXCEPT ![c] = p] /\ cpu[c].at \notin {"idle", "other"}
    BY <1>3 DEF GoAdd, NdInv, NdTypes
  <2>2. /\ p \in Packets /\ p.key = cpu[c].key /\ p.at = "add" /\ p.dir = cpu[c].dir
        /\ p.name \in Names
    BY <1>1 DEF Packets, NdPlaces
  <2>. HIDE DEF p
  <2>3. Sensible(p, tree) /\ \A d \in Dirs : OnWay(cpu[c], d) <=> OnWay(p, d)
    BY <1>1, <2>1, <2>2 DEF Sensible, OnWay
  <2>. QED
    BY <1>3, <2>1, <2>3, LookStep
<1>4. Unknown \in Names /\ Patterns \subseteq Names
      /\ \A k \in Keys : WellKnown[k] = None \/ WellKnown[k] \in Names
  BY NdInfoAssumption DEF Names
<1>5. CASE NdFind(c)
  <2> DEFINE p == [cpu[c] EXCEPT !.at = "update"]
  <2>1. cpu' = [cpu EXCEPT ![c] = p] /\ cpu[c].at = "find" /\ tree[cpu[c].key] # None
        /\ UNCHANGED <<table, lock, books>>
    BY <1>5 DEF NdFind, NdGoto
  <2>2. p \in Packets /\ p.key = cpu[c].key /\ p.at = "update" /\ p.dir = cpu[c].dir
    BY <1>1 DEF Packets, NdPlaces
  <2>. HIDE DEF p
  <2>3. Sensible(p, tree) /\ \A d \in Dirs : OnWay(cpu[c], d) <=> OnWay(p, d)
    BY <1>1, <2>1, <2>2 DEF Sensible, OnWay
  <2>. QED
    BY <2>1, <2>3, LookStep
<1>6. CASE NotFound(c)
  BY <1>2, <1>3, <1>4, <1>6 DEF NotFound
<1>7. CASE FindPort(c)
  <2>1. cpu[c].key \in Keys
    BY <1>1, <1>7 DEF FindPort, Sensible
  <2>. QED
    BY <1>2, <1>3, <1>4, <1>7, <2>1 DEF FindPort
<1>8. CASE FindPattern(c)
  BY <1>3, <1>4, <1>8 DEF FindPattern
<1>9. CASE NoPayload(c) \/ NoEntry(c)
  <2>1. LostOnce' /\ lock' \in {"free", "kept"}
    BY <1>9 DEF NoPayload, NoEntry, NdInv, NdTypes, Books, LostOnce
  <2>. QED
    BY <1>9, <2>1, LeaveStep DEF NoPayload, NoEntry, Accept, Miss
<1>10. CASE Duplicate(c)
  <2>1. /\ cpu[c].at = "add" /\ lock = "free" /\ lock' = "kept"
        /\ dropped' = [dropped EXCEPT ![cpu[c].dir] = @ + 1]
    BY <1>10 DEF Duplicate, Locks
  <2>2. cpu[c].dir \in {"UP", "DOWN"} /\ dropped \in [{"UP", "DOWN"} -> Nat]
    BY <1>1, <2>1 DEF NdInv, NdTypes, Sensible, Dirs
  <2>3. dropped["UP"] + dropped["DOWN"] = 0
    BY <2>1 DEF NdInv, Books, LostOnce
  <2>4. dropped'["UP"] + dropped'["DOWN"] = 1
    <3>1. CASE cpu[c].dir = "UP"
      BY <2>1, <2>2, <2>3, <3>1
    <3>2. CASE cpu[c].dir = "DOWN"
      BY <2>1, <2>2, <2>3, <3>2
    <3>. QED
      BY <2>2, <3>1, <3>2
  <2>5. LostOnce'
    BY <2>1, <2>4 DEF LostOnce
  <2>. QED
    BY <1>10, <2>1, <2>5, LeaveStep DEF Duplicate, Accept
<1>11. CASE PassOther(c)
  <2>1. /\ cpu[c].at = "other" /\ cpu' = [cpu EXCEPT ![c] = Idle]
        /\ UNCHANGED <<table, lock, books>>
    BY <1>11 DEF PassOther, Accept
  <2>2. cpu[c].dir \notin Dirs
    BY <1>1, <2>1 DEF Sensible, Dirs
  <2>3. Sensible(Idle, tree) /\ \A d \in Dirs : OnWay(cpu[c], d) <=> OnWay(Idle, d)
    BY <2>2, IdleIs DEF Sensible, OnWay
  <2>. QED
    BY <2>1, <2>3, LookStep
<1>. QED
  BY <1>5, <1>6, <1>7, <1>8, <1>9, <1>10, <1>11, UpdateStep, NdAddStep DEF Core

LEMMA OtherStep ==
  ASSUME NdInv, NEW c \in CPUs, ArriveOther(c)
  PROVE  NdInv'
<1> DEFINE p == [Idle EXCEPT !.at = "other", !.dir = "OTHER"]
<1>1. cpu' = [cpu EXCEPT ![c] = p] /\ cpu[c].at = "idle" /\ UNCHANGED <<table, lock, books>>
  BY DEF ArriveOther
<1>2. p \in Packets /\ p.at = "other" /\ p.dir = "OTHER"
  BY DEF Idle, Packets, NdPlaces
<1>. HIDE DEF p
<1>3. Sensible(p, tree) /\ \A d \in Dirs : OnWay(cpu[c], d) <=> OnWay(p, d)
  BY <1>1, <1>2 DEF Sensible, OnWay, Dirs
<1>. QED
  BY <1>1, <1>3, LookStep DEF table, books

(* Whatever the number of CPUs and servers, and however they interleave:    *)
(* packets of either direction are booked, in core() or unbooked out for one of *)
(* the reasons named.  An entry found missing before ndinfo_lock was        *)
(* dropped costs at most one packet, and the lock with it; and              *)
(* ndinfos.count is the number of entries (preprocess_ndinfo(),             *)
(* ndinfo_update(), ndinfo_add()).                                         *)
THEOREM BooksAlwaysBalance == NdSpec => []BooksBalance
<1>1. ASSUME NdInit
      PROVE  NdInv
  <2>1. NdTypes
    <3>1. Sensible(Idle, tree) /\ Idle \in Packets
      BY IdleIs DEF Sensible
    <3>. QED
      BY <1>1, <3>1 DEF NdInit, NdTypes
  <2>2. ASSUME NEW d \in Dirs
        PROVE  AllBytes(d) = 0 /\ Cardinality(Busy(d)) = 0
    <3>1. \A n : HasName(n) = {}
      BY <1>1 DEF NdInit, HasName
    <3>2. \A n \in Names : CountOf(n, d) = 0
      <4>1. ASSUME NEW n
            PROVE  CountOf(n, d) = 0
        <5>1. CountOf(n, d) = SumFunctionOnSet([k \in HasName(n) |-> tree[k].bytes[d]], HasName(n))
          BY <2>1, Counts
        <5>. QED
          BY <3>1, <5>1, SumEmpty
      <4>. QED
        BY <4>1
    <3> DEFINE f == [n \in Names |-> CountOf(n, d)]
               Zeros(N) == SumFunctionOnSet(f, N)
    <3>3. \A n \in Names : f[n] = 0
      BY <3>2
    <3>. HIDE DEF f
    <3>4. Zeros(Names) = 0
      BY <3>3, NamesFinite, SumZero
    <3>5. Busy(d) = {}
      BY <1>1, IdleIs DEF NdInit, Busy
    <3>. QED
      BY <3>4, <3>5, FS_EmptySet DEF AllBytes, f
  <2>3. Cardinality(Known) = 0
    <3>1. Known = {}
      BY <1>1 DEF NdInit, Known
    <3>. QED
      BY <3>1, FS_EmptySet
  <2>4. \A d \in Dirs : Account(d) = 0 /\ Due(d) = 0
    BY <1>1, <2>2 DEF NdInit, Account, Due
  <2>. QED
    BY <1>1, <2>1, <2>3, <2>4 DEF NdInit, NdInv, Books, LostOnce, Dirs
<1>2. ASSUME NdInv, [NdNext]_ndVars
      PROVE  NdInv'
  <2>1. CASE UNCHANGED ndVars
    <3>1. UNCHANGED <<tree, count, lock, cpu, came, unbooked, dropped, turned>>
      BY <2>1 DEF ndVars
    <3>2. NdTypes'
      BY <1>2, <3>1 DEF NdInv, NdTypes
    <3>3. LostOnce'
      BY <1>2, <3>1 DEF NdInv, Books, LostOnce
    <3>4. \A d : Busy(d)' = Busy(d)
      BY <3>1 DEF Busy
    <3>. QED
      BY <1>2, <3>1, <3>2, <3>3, <3>4, TreeKept DEF NdInv
  <2>. QED
    BY <1>2, <2>1, CoreStep, OtherStep, ArriveStep DEF NdNext
<1>. QED
  BY <1>1, <1>2, BooksSay, PTL DEF NdSpec

-----------------------------------------------------------------------------
(* PortTree: for any number of ports, the table of well-known ports, kept   *)
(* in a tree that the macros of rbtree.h turn, is the set of ports of       *)
(* module PortSet.  Colours play no part in this.                          *)

-----------------------------------------------------------------------------
(* Ports, and functions repeated *)

LEMMA PortsAre ==
  /\ Null \notin Ports /\ Null \in Nodes /\ Ports \subseteq Nodes /\ Ports \subseteq Nat
  /\ \A x \in Nodes : x # Null => x \in Ports
  /\ IsFiniteSet(Ports) /\ Cardinality(Ports) = MaxPort
<1>1. IsFiniteSet(1..MaxPort) /\ Cardinality(1..MaxPort) = MaxPort
  <2>1. 1 \in Int /\ MaxPort \in Int
    BY MaxPortAssumption
  <2>. QED
    BY <2>1, FS_Interval, MaxPortAssumption
<1>. QED
  BY <1>1 DEF Null, Nodes, Ports

(* What Repeat of PortTree yields, step by step.                          *)
LEMMA RepeatIs ==
  ASSUME NEW S, NEW x \in S, NEW f \in [S -> S]
  PROVE  /\ Repeat(f, x) \in [0..MaxPort -> S]
         /\ Repeat(f, x)[0] = x
         /\ \A i \in 0..(MaxPort - 1) : Repeat(f, x)[i + 1] = f[Repeat(f, x)[i]]
<1> DEFINE g == Repeat(f, x)
<1>1. Repeats(g, f, x, MaxPort)
  <2>1. \E h : Repeats(h, f, x, MaxPort)
    BY Iterate, MaxPortAssumption
  <2>2. g = CHOOSE h : Repeats(h, f, x, MaxPort)
    BY DEF Repeat, Repeats
  <2>. HIDE DEF g
  <2>. QED
    BY <2>1, <2>2
<1>. HIDE DEF g
<1>2. ASSUME NEW i \in 0..MaxPort
      PROVE  g[i] = IF i = 0 THEN x ELSE f[g[i - 1]]
  BY <1>1 DEF Repeats
<1>3. ASSUME NEW i \in 0..(MaxPort - 1)
      PROVE  i + 1 \in 0..MaxPort /\ g[i + 1] = f[g[i]]
  <2>1. i + 1 \in 0..MaxPort /\ i + 1 # 0 /\ (i + 1) - 1 = i
    BY MaxPortAssumption
  <2>. QED
    BY <1>2, <2>1
<1> DEFINE G == {i \in 0..MaxPort : g[i] \in S}
<1>4. 0..MaxPort \subseteq G
  <2>1. 0 \in G
    BY <1>2, MaxPortAssumption
  <2>2. ASSUME NEW i \in 0..(MaxPort - 1), i \in G
        PROVE  i + 1 \in G
    BY <1>3, <2>2
  <2>. HIDE DEF G
  <2>. QED
    BY <2>1, <2>2, UpTo, MaxPortAssumption
<1>5. g = [i \in 0..MaxPort |-> g[i]]
  BY <1>1 DEF Repeats
<1>6. g[0] = x
  BY <1>2, MaxPortAssumption
<1>7. g \in [0..MaxPort -> S]
  BY <1>4, <1>5
<1>. QED
  BY <1>3, <1>6, <1>7 DEF g

-----------------------------------------------------------------------------
(* The inductive invariant *)

TypeInv ==
  /\ root \in Nodes
  /\ left \in [Ports -> Nodes]
  /\ right \in [Ports -> Nodes]
  /\ parent \in [Ports -> Nodes]
  /\ current \in Nodes
  /\ freed \in [Ports -> Nat]

(* the pointers of the nodes T lead to nodes, and back *)
Linked(T) ==
  /\ root = Null => T = {}
  /\ root # Null => root \in T /\ parent[root] = Null
  /\ \A x \in T : left[x] # Null => left[x] \in T /\ parent[left[x]] = x
  /\ \A x \in T : right[x] # Null => right[x] \in T /\ parent[right[x]] = x
  /\ \A x \in T \ {root} :
       /\ parent[x] \in T
       /\ left[parent[x]] = x \/ right[parent[x]] = x
  /\ \A x \in Ports \ T : left[x] = Null /\ right[x] = Null

(* below[x] are the nodes of the subtree of x: greater ones to the left *)
Ordered(T, below) ==
  /\ below \in [Nodes -> SUBSET T]
  /\ below[Null] = {}
  /\ below[root] = T
  /\ \A x \in T :
       /\ below[x] = {x} \cup below[left[x]] \cup below[right[x]]
       /\ \A y \in below[left[x]] : x < y
       /\ \A y \in below[right[x]] : y < x

(* the nodes T are a search tree                                          *)
IsTree(T, below) == T \in SUBSET Ports /\ Linked(T) /\ Ordered(T, below)

(* rbtree_clear() has been to the left of every node it will come back to *)
Clearing(T) ==
  /\ \A x \in T : freed[x] = 0
  /\ current # Null => current \in T /\ \A x \in T : x >= current => left[x] = Null

TreeInv == TypeInv /\ \E T, below : IsTree(T, below) /\ Clearing(T)

-----------------------------------------------------------------------------
(* Subtrees *)

(* A node is in its own subtree, and in neither of its children's.        *)
LEMMA Smaller ==
  ASSUME NEW T, NEW below, TypeInv, IsTree(T, below), NEW x \in T
  PROVE  /\ x \in below[x] /\ x \in Ports
         /\ x \notin below[left[x]] /\ x \notin below[right[x]]
         /\ below[left[x]] \subseteq below[x] /\ below[right[x]] \subseteq below[x]
<1>1. x \in Ports /\ x \in Nat
  BY PortsAre DEF IsTree
<1>. QED
  BY <1>1 DEF IsTree, Ordered

Size(below, x) == Cardinality(below[x])

(* Going down, subtrees get smaller.                                      *)
LEMMA Sizes ==
  ASSUME NEW T, NEW below, TypeInv, IsTree(T, below)
  PROVE  /\ \A x \in Nodes : IsFiniteSet(below[x]) /\ Size(below, x) \in 0..MaxPort
         /\ \A x \in T : /\ Size(below, x) > 0
                         /\ Size(below, left[x]) < Size(below, x)
                         /\ Size(below, right[x]) < Size(below, x)
<1>1. ASSUME NEW x \in Nodes
      PROVE  IsFiniteSet(below[x]) /\ Size(below, x) \in 0..MaxPort
  <2>1. below[x] \subseteq Ports
    BY DEF IsTree, Ordered
  <2>2. IsFiniteSet(below[x]) /\ Cardinality(below[x]) <= MaxPort
    BY <2>1, PortsAre, FS_Subset
  <2>3. Cardinality(below[x]) \in Nat
    BY <2>2, FS_CardinalityType
  <2>. QED
    BY <2>2, <2>3, MaxPortAssumption DEF Size
<1>2. ASSUME NEW x \in T
      PROVE  /\ Size(below, x) > 0
             /\ Size(below, left[x]) < Size(below, x)
             /\ Size(below, right[x]) < Size(below, x)
  <2>1. x \in Nodes /\ left[x] \in Nodes /\ right[x] \in Nodes
    BY PortsAre DEF IsTree, TypeInv
  <2>2. IsFiniteSet(below[x])
    BY <1>1, <2>1
  <2>3. ASSUME NEW B \in SUBSET below[x], x \notin B
        PROVE  Cardinality(B) < Cardinality(below[x])
    <3>1. Cardinality(B) <= Cardinality(below[x]) /\ B # below[x] /\ IsFiniteSet(B)
      BY <2>2, <2>3, FS_Subset, Smaller
    <3>2. Cardinality(B) # Cardinality(below[x])
      BY <2>2, <3>1, FS_Subset
    <3>3. Cardinality(B) \in Nat /\ Cardinality(below[x]) \in Nat
      BY <2>2, <3>1, FS_CardinalityType
    <3>. QED
      BY <3>1, <3>2, <3>3
  <2>4. Cardinality({}) = 0
    BY FS_EmptySet
  <2>. QED
    BY <2>3, <2>4, Smaller DEF Size
<1>. QED
  BY <1>1, <1>2

(* What holds of the root and of every child of a node it holds of, holds   *)
(* of all nodes.                                                           *)
LEMMA FromRoot ==
  ASSUME NEW T, NEW below, TypeInv, IsTree(T, below), NEW Good,
         root # Null => root \in Good,
         \A x \in T \ {root} : parent[x] \in Good => x \in Good
  PROVE  T \subseteq Good
<1> DEFINE Bad == {x \in T : x \notin Good}
           B == {T \ below[x] : x \in Bad}
<1>1. SUFFICES ASSUME Bad # {}
               PROVE  FALSE
  BY DEF Bad
<1>2. PICK C \in B : \A U \in SUBSET C : U # C => U \notin B
  <2>1. B \in SUBSET (SUBSET T)
    OBVIOUS
  <2>2. B # {}
    <3>1. PICK x \in Bad : TRUE
      BY <1>1
    <3>2. T \ below[x] \in B
      BY <3>1
    <3>. QED
      BY <3>2
  <2>3. IsFiniteSet(T)
    BY FS_Subset, PortsAre DEF IsTree
  <2>. HIDE DEF B
  <2>. QED
    BY <2>1, <2>2, <2>3, LeastSubset
<1>3. PICK x \in Bad : C = T \ below[x]
  OBVIOUS
<1> DEFINE q == parent[x]
<1>4. x \in T \ {root} /\ q \in T /\ q \in Bad /\ x \in {left[q], right[q]}
  <2>1. x # root
    <3>1. x \in T /\ x \in Ports /\ x \notin Good
      BY DEF IsTree
    <3>2. x # Null
      BY <3>1, PortsAre
    <3>. QED
      BY <3>1, <3>2
  <2>. QED
    BY <2>1 DEF IsTree, Linked
<1>5. below[x] \subseteq below[q] /\ q \in below[q] /\ q \notin below[x]
  BY <1>4, Smaller
<1>6. T \ below[q] \in B /\ T \ below[q] \in SUBSET C /\ T \ below[q] # C
  <2>. HIDE DEF Bad, q
  <2>. QED
    BY <1>3, <1>4, <1>5
<1>. QED
  BY <1>2, <1>6

(* A subtree has the nodes between any two of its nodes. *)
LEMMA InBetween ==
  ASSUME NEW T, NEW below, TypeInv, IsTree(T, below), NEW x \in T,
         NEW y \in below[x], NEW z \in below[x], NEW w \in T, y < w, w < z
  PROVE  w \in below[x]
<1> DEFINE Convex(v) == \A a, b \in below[v] : \A c \in T : a < c /\ c < b => c \in below[v]
           Good == {v \in T : Convex(v)}
<1>1. root # Null => root \in Good
  BY DEF IsTree, Linked, Ordered
<1>2. ASSUME NEW v \in T \ {root}, parent[v] \in Good
      PROVE  v \in Good
  <2> DEFINE q == parent[v]
  <2>1. q \in T /\ q \in Nat /\ (v = left[q] \/ v = right[q])
    BY PortsAre DEF IsTree, Linked
  <2>2. T \subseteq Nat /\ below[v] \subseteq T
    BY PortsAre DEF IsTree, Ordered
  <2>3. below[q] = {q} \cup below[left[q]] \cup below[right[q]]
    BY <2>1 DEF IsTree, Ordered
  <2>4. (\A a \in below[left[q]] : q < a) /\ (\A a \in below[right[q]] : a < q)
    BY <2>1 DEF IsTree, Ordered
  <2>5. ASSUME NEW a \in below[v], NEW b \in below[v], NEW c \in T, a < c, c < b
        PROVE  c \in below[v]
    <3>1. c \in below[q]
      BY <1>2, <2>1, <2>3, <2>5
    <3>2. a \in Nat /\ b \in Nat /\ c \in Nat
      BY <2>2
    <3>3. CASE v = left[q]
      <4>1. q < c
        BY <2>1, <2>4, <2>5, <3>2, <3>3
      <4>. QED
        BY <2>1, <2>3, <2>4, <3>1, <3>2, <3>3, <4>1
    <3>4. CASE v = right[q]
      <4>1. c < q
        BY <2>1, <2>4, <2>5, <3>2, <3>4
      <4>. QED
        BY <2>1, <2>3, <2>4, <3>1, <3>2, <3>4, <4>1
    <3>. QED
      BY <2>1, <3>3, <3>4
  <2>. QED
    BY <2>5
<1>3. T \subseteq Good
  <2>. HIDE DEF Good
  <2>. QED
    BY <1>1, <1>2, FromRoot
<1>. QED
  BY <1>3

-----------------------------------------------------------------------------
(* Searching *)

(* A search takes one step after the other.                               *)
LEMMA PathIs ==
  ASSUME TypeInv, NEW p \in Ports
  PROVE  /\ Path(p) \in [0..MaxPort -> Nodes]
         /\ Path(p)[0] = root
         /\ \A i \in 0..(MaxPort - 1) : Path(p)[i + 1] = Step(Path(p)[i], p)
<1> DEFINE f == [x \in Nodes |-> Step(x, p)]
<1>1. ASSUME NEW x \in Nodes
      PROVE  Step(x, p) \in Nodes
  <2>1. x \in Ports => left[x] \in Nodes /\ right[x] \in Nodes
    BY DEF TypeInv
  <2>2. x \in Ports \/ x = Null
    BY DEF Nodes
  <2>. QED
    BY <2>1, <2>2 DEF Step
<1>2. f \in [Nodes -> Nodes]
  BY <1>1
<1>3. root \in Nodes /\ Path(p) = Repeat(f, root)
  BY DEF TypeInv, Path
<1>4. /\ Path(p) \in [0..MaxPort -> Nodes]
      /\ Path(p)[0] = root
      /\ \A i \in 0..(MaxPort - 1) : Path(p)[i + 1] = f[Path(p)[i]]
  <2>. HIDE DEF f
  <2>. QED
    BY <1>2, <1>3, RepeatIs
<1>5. \A i \in 0..(MaxPort - 1) : Path(p)[i] \in Nodes
  BY <1>4, MaxPortAssumption
<1>. QED
  BY <1>4, <1>5

(* A step of a search goes to a child, the one below which p is.          *)
LEMMA StepIs ==
  ASSUME NEW T, NEW below, TypeInv, IsTree(T, below),
         NEW p \in Ports, NEW x \in T, x # p
  PROVE  /\ Step(x, p) \in T \cup {Null}
         /\ Step(x, p) # Null => parent[Step(x, p)] = x
         /\ p \in below[x] => p \in below[Step(x, p)]
         /\ Size(below, Step(x, p)) < Size(below, x)
<1>1. x \in Ports /\ x # Null /\ x \in Nat /\ p \in Nat
  BY PortsAre DEF IsTree
<1>2. Step(x, p) = IF x < p THEN left[x] ELSE right[x]
  BY <1>1 DEF Step
<1>3. /\ left[x] # Null => left[x] \in T /\ parent[left[x]] = x
      /\ right[x] # Null => right[x] \in T /\ parent[right[x]] = x
  BY DEF IsTree, Linked
<1>4. /\ below[x] = {x} \cup below[left[x]] \cup below[right[x]]
      /\ \A y \in below[left[x]] : x < y
      /\ \A y \in below[right[x]] : y < x
  BY DEF IsTree, Ordered
<1>5. /\ Size(below, left[x]) < Size(below, x)
      /\ Size(below, right[x]) < Size(below, x)
  BY Sizes
<1>6. CASE x < p
  BY <1>1, <1>2, <1>3, <1>4, <1>5, <1>6
<1>7. CASE ~(x < p)
  BY <1>1, <1>2, <1>3, <1>4, <1>5, <1>7
<1>. QED
  BY <1>6, <1>7

(* As long as it has not ended, a search is above p if p is there.        *)
LEMMA OnPath ==
  ASSUME NEW T, NEW below, TypeInv, IsTree(T, below),
         NEW p \in Ports, NEW i \in 0..MaxPort
  PROVE  LET x == Path(p)[i]
         IN /\ x \in T \cup {Null}
            /\ p \in T => p \in below[x]
            /\ x \in {Null, p} \/ Size(below, x) <= MaxPort - i
<1> DEFINE path == Path(p)
           Good == {j \in 0..MaxPort : /\ path[j] \in T \cup {Null}
                                       /\ p \in T => p \in below[path[j]]
                                       /\ path[j] \in {Null, p} \/ Size(below, path[j]) <= MaxPort - j}
<1>1. path[0] = root /\ \A j \in 0..(MaxPort - 1) : path[j + 1] = Step(path[j], p)
  BY PathIs
<1>. HIDE DEF path
<1>2. 0 \in Good
  <2>1. root \in T \cup {Null} /\ below[root] = T /\ root \in Nodes
    BY DEF IsTree, Linked, Ordered, TypeInv
  <2>2. Size(below, root) <= MaxPort
    BY <2>1, Sizes, MaxPortAssumption
  <2>. QED
    BY <1>1, <2>1, <2>2, MaxPortAssumption
<1>3. ASSUME NEW j \in 0..(MaxPort - 1), j \in Good
      PROVE  j + 1 \in Good
  <2> DEFINE x == path[j]
  <2>1. path[j + 1] = Step(x, p) /\ j + 1 \in 0..MaxPort /\ j \in Nat
    BY <1>1, MaxPortAssumption
  <2>2. CASE x \in {Null, p}
    BY <1>3, <2>1, <2>2 DEF Step
  <2>3. CASE x \notin {Null, p}
    <3>1. x \in T /\ Size(below, x) <= MaxPort - j /\ (p \in T => p \in below[x])
      BY <1>3, <2>3
    <3>. HIDE DEF x
    <3>2. /\ Step(x, p) \in T \cup {Null}
          /\ p \in T => p \in below[Step(x, p)]
          /\ Size(below, Step(x, p)) < Size(below, x)
      BY <2>3, <3>1, StepIs
    <3>3. Size(below, Step(x, p)) \in Nat /\ Size(below, x) \in Nat
      <4>1. x \in Nodes /\ Step(x, p) \in Nodes
        BY <3>1, <3>2, PortsAre DEF IsTree
      <4>. QED
        BY <4>1, Sizes
    <3>4. Size(below, Step(x, p)) <= MaxPort - (j + 1)
      BY <2>1, <3>1, <3>2, <3>3, MaxPortAssumption
    <3>. QED
      BY <2>1, <3>2, <3>4
  <2>. QED
    BY <2>2, <2>3
<1>4. i \in Good
  <2>. HIDE DEF Good
  <2>. QED
    BY <1>2, <1>3, UpTo, MaxPortAssumption
<1>. QED
  BY <1>4 DEF path

(* rbtree_find() finds what is there. *)
LEMMA Search ==
  ASSUME NEW T, NEW below, TypeInv, IsTree(T, below), NEW p \in Ports
  PROVE  Found(p) # Null <=> p \in T
<1> DEFINE x == Found(p)
<1>1. /\ x \in T \cup {Null}
      /\ p \in T => p \in below[x]
      /\ x \in {Null, p} \/ Size(below, x) <= 0
  BY OnPath, MaxPortAssumption DEF Found
<1>2. x \in T => Size(below, x) > 0
  BY Sizes
<1>3. Null \notin T /\ below[Null] = {}
  BY PortsAre DEF IsTree, Ordered
<1>4. x \in T => Size(below, x) \in Nat
  <2>1. T \subseteq Nodes
    BY PortsAre DEF IsTree
  <2>2. \A y \in Nodes : Size(below, y) \in 0..MaxPort
    BY Sizes
  <2>. QED
    BY <2>1, <2>2, MaxPortAssumption
<1>. QED
  BY <1>1, <1>2, <1>3, <1>4

(* The nodes an unsuccessful search for p has met, down to q *)
Searched(A, T, p, q) ==
  /\ A \in SUBSET T
  /\ root = Null => A = {} /\ q = Null
  /\ root # Null => root \in A /\ q \in A
  /\ \A x \in A : x # root => parent[x] \in A /\ Step(parent[x], p) = x
  /\ \A x \in A : IF x = q THEN Step(x, p) = Null ELSE Step(x, p) \in A

(* An unsuccessful search ends at the node the new one is added to.       *)
LEMMA SearchEnds ==
  ASSUME NEW T, NEW below, TypeInv, IsTree(T, below), NEW p \in Ports, p \notin T
  PROVE  \E A : Searched(A, T, p, ParentFor(p))
<1> DEFINE path == Path(p)
           depth == {i \in 0..MaxPort : path[i] # Null}
           A == {path[i] : i \in depth}
           q == ParentFor(p)
<1>1. path[0] = root /\ \A i \in 0..(MaxPort - 1) : path[i + 1] = Step(path[i], p)
  BY PathIs
<1>2. path[MaxPort] = Null
  BY Search DEF Found
<1>3. \A i \in 0..MaxPort : path[i] \in T \cup {Null}
  BY OnPath
<1>4. q = IF depth = {} THEN Null ELSE path[Cardinality(depth) - 1]
  BY DEF ParentFor
<1>. HIDE DEF path, q
<1>5. PICK d \in 0..MaxPort : path[d] = Null /\ \A i \in 0..(d - 1) : path[i] # Null
  <2> DEFINE B == {i \in 0..MaxPort : path[i] = Null}
  <2>1. MaxPort \in B
    BY <1>2, MaxPortAssumption
  <2>2. PICK d \in B : \A i \in 0..(d - 1) : i \notin B
    <3>1. B \in SUBSET (0..MaxPort) /\ B # {}
      BY <2>1
    <3>. HIDE DEF B
    <3>. QED
      BY <3>1, LeastIndex, MaxPortAssumption
  <2>3. d \in 0..MaxPort /\ 0..(d - 1) \subseteq 0..MaxPort
    BY MaxPortAssumption
  <2>. QED
    BY <2>2, <2>3
<1>6. \A i \in d..MaxPort : path[i] = Null
  <2> DEFINE Good == {i \in 0..(MaxPort - d) : path[d + i] = Null}
  <2>1. 0 \in Good /\ MaxPort - d \in Nat
    BY <1>5, MaxPortAssumption
  <2>2. ASSUME NEW i \in 0..(MaxPort - d - 1), i \in Good
        PROVE  i + 1 \in Good
    <3>1. d + i \in 0..(MaxPort - 1) /\ (d + i) + 1 = d + (i + 1) /\ i + 1 \in 0..(MaxPort - d)
      BY MaxPortAssumption
    <3>2. path[(d + i) + 1] = Step(Null, p)
      BY <1>1, <2>2, <3>1
    <3>. QED
      BY <3>1, <3>2 DEF Step
  <2>3. 0..(MaxPort - d) \subseteq Good
    <3>. HIDE DEF Good
    <3>. QED
      BY <2>1, <2>2, UpTo
  <2>4. \A i \in d..MaxPort : i - d \in 0..(MaxPort - d) /\ d + (i - d) = i
    BY MaxPortAssumption
  <2>. QED
    BY <2>3, <2>4
<1>7. depth = 0..(d - 1)
  BY <1>5, <1>6, MaxPortAssumption
<1>8. q = IF d = 0 THEN Null ELSE path[d - 1]
  <2>1. CASE d = 0
    BY <1>4, <1>7, <2>1
  <2>2. CASE d # 0
    <3>1. Cardinality(0..(d - 1)) = d
      BY <2>2, FS_Interval
    <3>2. 0..(d - 1) # {}
      BY <2>2
    <3>. HIDE DEF depth
    <3>. QED
      BY <1>4, <1>7, <2>2, <3>1, <3>2
  <2>. QED
    BY <2>1, <2>2
<1>9. \A i \in 0..(d - 1) : path[i + 1] = Step(path[i], p) /\ path[i] \in T
  BY <1>1, <1>3, <1>5, MaxPortAssumption
<1>10. A = {path[i] : i \in 0..(d - 1)}
  BY <1>7
<1>. HIDE DEF A, depth
<1>11. A \in SUBSET T
  BY <1>9, <1>10
<1>12. root = Null => A = {} /\ q = Null
  <2>1. SUFFICES ASSUME root = Null PROVE d = 0
    BY <1>8, <1>10
  <2>. QED
    BY <1>1, <1>5, <2>1
<1>13. root # Null => root \in A /\ q \in A
  <2>1. SUFFICES ASSUME root # Null
                 PROVE  0 \in 0..(d - 1) /\ d - 1 \in 0..(d - 1)
    BY <1>1, <1>8, <1>10
  <2>2. d # 0
    BY <1>1, <1>5, <2>1
  <2>. QED
    BY <2>2
<1>14. ASSUME NEW x \in A, x # root
       PROVE  parent[x] \in A /\ Step(parent[x], p) = x
  <2>1. PICK i \in 0..(d - 1) : x = path[i]
    BY <1>10
  <2>2. i # 0
    BY <1>1, <1>14, <2>1
  <2>3. i - 1 \in 0..(d - 1) /\ (i - 1) + 1 = i
    BY <2>2
  <2> DEFINE w == path[i - 1]
  <2>4. w \in T /\ w \in A /\ Step(w, p) = x /\ x \in T
    BY <1>9, <1>10, <2>1, <2>3
  <2>5. x # Null /\ w # p
    BY <1>5, <2>1, <2>4
  <2>6. parent[x] = w
    BY <2>4, <2>5, StepIs
  <2>. QED
    BY <2>4, <2>6
<1>15. ASSUME NEW x \in A
       PROVE  IF x = q THEN Step(x, p) = Null ELSE Step(x, p) \in A
  <2>1. PICK i \in 0..(d - 1) : x = path[i]
    BY <1>10
  <2>2. CASE x = q
    <3>1. d # 0 /\ d - 1 \in 0..(d - 1) /\ (d - 1) + 1 = d
      BY <2>1
    <3>2. path[d] = Step(path[d - 1], p)
      BY <1>9, <3>1
    <3>. QED
      BY <1>5, <1>8, <2>2, <3>1, <3>2
  <2>3. CASE x # q
    <3>1. i # d - 1
      BY <1>8, <2>1, <2>3
    <3>2. i + 1 \in 0..(d - 1)
      BY <3>1
    <3>. QED
      BY <1>9, <1>10, <2>1, <2>3, <3>2
  <2>. QED
    BY <2>2, <2>3
<1>16. Searched(A, T, p, q)
  BY <1>11, <1>12, <1>13, <1>14, <1>15 DEF Searched
<1>. QED
  BY <1>16 DEF q

(* Going left ends at the greatest node of a subtree. *)
LEMMA LeftmostIs ==
  ASSUME NEW T, NEW below, TypeInv, IsTree(T, below), NEW x \in T
  PROVE  /\ Leftmost(x) \in T /\ Leftmost(x) \in below[x]
         /\ left[Leftmost(x)] = Null
         /\ \A y \in below[x] : y <= Leftmost(x)
<1> DEFINE f == [y \in Ports |-> IF left[y] = Null THEN y ELSE left[y]]
           down == Repeat(f, x)
<1>1. f \in [Ports -> Ports] /\ x \in Ports /\ T \subseteq Nat
  BY PortsAre DEF TypeInv, IsTree
<1>2. /\ down \in [0..MaxPort -> Ports]
      /\ down[0] = x
      /\ \A i \in 0..(MaxPort - 1) : down[i + 1] = f[down[i]]
  <2>1. x \in Ports /\ f \in [Ports -> Ports] /\ down = Repeat(f, x)
    BY <1>1
  <2>. HIDE DEF f, down
  <2>. QED
    BY <2>1, RepeatIs
<1>3. Leftmost(x) = down[MaxPort]
  BY DEF Leftmost
<1>4. \A y \in Ports : f[y] = IF left[y] = Null THEN y ELSE left[y]
  OBVIOUS
<1>. HIDE DEF f, down
<1> DEFINE Good ==
      {i \in 0..MaxPort : /\ down[i] \in T /\ below[down[i]] \subseteq below[x]
                          /\ \A y \in below[x] : y > down[i] => y \in below[down[i]]
                          /\ left[down[i]] = Null \/ Size(below, down[i]) <= MaxPort - i}
<1>5. 0 \in Good
  <2>1. Size(below, x) <= MaxPort
    BY <1>1, Sizes, PortsAre, MaxPortAssumption
  <2>. QED
    BY <1>2, <2>1, MaxPortAssumption
<1>6. ASSUME NEW i \in 0..(MaxPort - 1), i \in Good
      PROVE  i + 1 \in Good
  <2>1. PICK z : z = down[i]
    OBVIOUS
  <2>2. /\ z \in T /\ z \in Ports /\ below[z] \subseteq below[x]
        /\ \A y \in below[x] : y > z => y \in below[z]
        /\ left[z] = Null \/ Size(below, z) <= MaxPort - i
    BY <1>6, <2>1 DEF IsTree
  <2>3. down[i + 1] = IF left[z] = Null THEN z ELSE left[z]
    BY <1>2, <1>4, <2>1, <2>2
  <2>4. i + 1 \in 0..MaxPort /\ i \in Nat
    BY MaxPortAssumption
  <2>5. CASE left[z] = Null
    BY <2>2, <2>3, <2>4, <2>5
  <2>6. CASE left[z] # Null
    <3>1. PICK u : u = left[z]
      OBVIOUS
    <3>2. u \in T /\ below[u] \subseteq below[z] /\ z \in Nat /\ u \in Nat
      BY <1>1, <2>2, <2>6, <3>1, Smaller DEF IsTree, Linked
    <3>3. u \in below[u]
      BY <3>2, Smaller
    <3>4. /\ below[z] = {z} \cup below[left[z]] \cup below[right[z]]
          /\ \A y \in below[left[z]] : z < y
          /\ \A y \in below[right[z]] : y < z
      BY <2>2 DEF IsTree, Ordered
    <3>5. ASSUME NEW y \in below[x], y > u
          PROVE  y \in below[u]
      <4>1. y \in Nat
        BY <1>1 DEF IsTree, Ordered, Nodes
      <4>2. z < u /\ z < y
        BY <3>1, <3>2, <3>3, <3>4, <3>5, <4>1
      <4>3. y \in below[z] /\ y # z /\ ~(y < z)
        BY <2>2, <3>2, <4>1, <4>2
      <4>. QED
        BY <3>1, <3>4, <4>3
    <3>6. Size(below, u) <= MaxPort - (i + 1)
      <4>1. Size(below, u) < Size(below, z) /\ Size(below, z) <= MaxPort - i
        BY <2>2, <2>6, <3>1, Sizes
      <4>2. Size(below, u) \in 0..MaxPort /\ Size(below, z) \in 0..MaxPort
        BY <2>2, <3>2, Sizes, PortsAre DEF IsTree
      <4>. QED
        BY <2>4, <4>1, <4>2, MaxPortAssumption
    <3>. QED
      BY <2>2, <2>3, <2>4, <2>6, <3>1, <3>2, <3>5, <3>6
  <2>. QED
    BY <2>5, <2>6
<1>7. MaxPort \in Good
  <2>. HIDE DEF Good
  <2>. QED
    BY <1>5, <1>6, UpTo, MaxPortAssumption
<1>8. PICK m : m = down[MaxPort]
  OBVIOUS
<1>9. /\ m \in T /\ below[m] \subseteq below[x]
      /\ \A y \in below[x] : y > m => y \in below[m]
      /\ left[m] = Null \/ Size(below, m) <= 0
  BY <1>7, <1>8, MaxPortAssumption
<1>10. left[m] = Null /\ m \in below[m]
  <2>1. Size(below, m) > 0 /\ Size(below, m) \in 0..MaxPort
    BY <1>9, Sizes, PortsAre DEF IsTree
  <2>. QED
    BY <1>9, <2>1, Smaller, MaxPortAssumption
<1>11. ASSUME NEW y \in below[x]
       PROVE  y <= m
  <2>1. y \in Nat /\ m \in Nat
    BY <1>1, <1>9 DEF IsTree, Ordered, Nodes
  <2>2. ASSUME y > m
        PROVE  FALSE
    <3>1. y \in below[m]
      BY <1>9, <2>2
    <3>2. below[m] = {m} \cup below[right[m]] /\ \A w \in below[right[m]] : w < m
      BY <1>9, <1>10 DEF IsTree, Ordered
    <3>. QED
      BY <2>1, <2>2, <3>1, <3>2
  <2>. QED
    BY <2>1, <2>2
<1>. QED
  BY <1>3, <1>8, <1>9, <1>10, <1>11

(* What can be reached from the root are the nodes of the tree. *)
LEMMA ReachIs ==
  ASSUME NEW T, NEW below, TypeInv, IsTree(T, below)
  PROVE  Reachable = T
<1> DEFINE f == [X \in SUBSET Ports |-> (X \cup Children(X)) \ {Null}]
           reach == Repeat(f, {root} \ {Null})
<1>1. f \in [SUBSET Ports -> SUBSET Ports]
  <2>1. ASSUME NEW X \in SUBSET Ports
        PROVE  (X \cup Children(X)) \ {Null} \in SUBSET Ports
    BY DEF Children, TypeInv, Nodes
  <2>. QED
    BY <2>1
<1>2. {root} \ {Null} \in SUBSET Ports
  BY DEF TypeInv, Nodes
<1>3. /\ reach \in [0..MaxPort -> SUBSET Ports]
      /\ reach[0] = {root} \ {Null}
      /\ \A i \in 0..(MaxPort - 1) : reach[i + 1] = f[reach[i]]
  <2> DEFINE S == SUBSET Ports
             r == {root} \ {Null}
  <2>1. reach = Repeat(f, r) /\ f \in [S -> S] /\ r \in S
    BY <1>1, <1>2
  <2>2. reach \in [0..MaxPort -> S] /\ reach[0] = r
        /\ \A i \in 0..(MaxPort - 1) : reach[i + 1] = f[reach[i]]
    <3>. HIDE DEF f, reach, S, r
    <3>. QED
      BY <2>1, RepeatIs
  <2>. QED
    BY <2>2
<1>4. \A i \in 0..(MaxPort - 1) : reach[i + 1] = (reach[i] \cup Children(reach[i])) \ {Null}
  <2>1. ASSUME NEW i \in 0..(MaxPort - 1)
        PROVE  reach[i] \in SUBSET Ports
    <3>. HIDE DEF f, reach
    <3>. QED
      BY <1>3, MaxPortAssumption
  <2>2. \A X \in SUBSET Ports : f[X] = (X \cup Children(X)) \ {Null}
    OBVIOUS
  <2>. HIDE DEF f, reach
  <2>. QED
    BY <1>3, <2>1, <2>2
<1>5. Reachable = reach[MaxPort]
  BY DEF Reachable
<1>. HIDE DEF f, reach
<1>6. reach[MaxPort] \subseteq T
  <2> DEFINE Good == {i \in 0..MaxPort : reach[i] \subseteq T}
  <2>1. 0 \in Good
    BY <1>3, MaxPortAssumption DEF IsTree, Linked
  <2>2. ASSUME NEW i \in 0..(MaxPort - 1), i \in Good
        PROVE  i + 1 \in Good
    <3>1. reach[i + 1] = (reach[i] \cup Children(reach[i])) \ {Null}
      BY <1>4
    <3>2. reach[i] \subseteq T /\ i + 1 \in 0..MaxPort
      BY <2>2, MaxPortAssumption
    <3>3. Children(reach[i]) \subseteq T \cup {Null}
      BY <3>2 DEF Children, IsTree, Linked
    <3>. QED
      BY <3>1, <3>2, <3>3
  <2>3. 0..MaxPort \subseteq Good
    <3>. HIDE DEF Good
    <3>. QED
      BY <2>1, <2>2, UpTo, MaxPortAssumption
  <2>. QED
    BY <2>3, MaxPortAssumption
<1>7. T \subseteq reach[MaxPort]
  <2> DEFINE Good ==
        {x \in T : \A i \in 0..MaxPort : i >= MaxPort - Size(below, x) => x \in reach[i]}
  <2>1. ASSUME root # Null
        PROVE  root \in Good
    <3> DEFINE G == {i \in 0..MaxPort : root \in reach[i]}
    <3>1. 0 \in G
      BY <1>3, <2>1, MaxPortAssumption
    <3>2. ASSUME NEW i \in 0..(MaxPort - 1), i \in G
          PROVE  i + 1 \in G
      BY <1>4, <2>1, <3>2, MaxPortAssumption
    <3>3. 0..MaxPort \subseteq G
      <4>. HIDE DEF G
      <4>. QED
        BY <3>1, <3>2, UpTo, MaxPortAssumption
    <3>. QED
      BY <2>1, <3>3 DEF IsTree, Linked
  <2>2. ASSUME NEW x \in T \ {root}, parent[x] \in Good
        PROVE  x \in Good
    <3>1. PICK q : q = parent[x]
      OBVIOUS
    <3>2. q \in T /\ (x = left[q] \/ x = right[q]) /\ x # Null
      BY <3>1, PortsAre DEF IsTree, Linked
    <3>3. Size(below, x) < Size(below, q) /\ Size(below, x) \in 0..MaxPort /\ Size(below, q) \in 0..MaxPort
      BY <3>2, Sizes, PortsAre DEF IsTree
    <3>4. ASSUME NEW i \in 0..MaxPort, i >= MaxPort - Size(below, x)
          PROVE  x \in reach[i]
      <4>1. i - 1 \in 0..(MaxPort - 1) /\ i - 1 >= MaxPort - Size(below, q) /\ (i - 1) + 1 = i
        BY <3>3, <3>4, MaxPortAssumption
      <4>2. q \in reach[i - 1]
        BY <2>2, <3>1, <4>1, MaxPortAssumption
      <4>3. x \in Children(reach[i - 1])
        BY <3>2, <4>2 DEF Children
      <4>. QED
        BY <1>4, <3>2, <4>1, <4>3
    <3>. QED
      BY <3>4
  <2>3. T \subseteq Good
    <3>. HIDE DEF Good
    <3>. QED
      BY <2>1, <2>2, FromRoot
  <2>4. ASSUME NEW x \in T
        PROVE  x \in reach[MaxPort]
    <3>1. Size(below, x) \in 0..MaxPort
      BY Sizes, PortsAre DEF IsTree
    <3>. QED
      BY <2>3, <3>1, MaxPortAssumption
  <2>. QED
    BY <2>4
<1>. QED
  BY <1>5, <1>6, <1>7

-----------------------------------------------------------------------------
(* The steps *)

LEMMA InitTree ==
  ASSUME TreeInit
  PROVE  TypeInv /\ Clearing({}) /\ \E below : IsTree({}, below)
<1>1. TypeInv
  BY PortsAre DEF TreeInit, TypeInv
<1>2. Clearing({})
  BY DEF TreeInit, Clearing
<1> DEFINE below == [x \in Nodes |-> {}]
<1>3. IsTree({}, below)
  BY PortsAre DEF TreeInit, IsTree, Linked, Ordered
<1>. QED
  BY <1>1, <1>2, <1>3

(* A search and a refused addition leave the tree alone. *)
LEMMA SameTree ==
  ASSUME NEW T, NEW below, TypeInv, IsTree(T, below), Clearing(T),
         UNCHANGED <<root, left, right, parent, current, freed>>
  PROVE  TypeInv' /\ IsTree(T, below)' /\ Clearing(T)'
BY DEF TypeInv, IsTree, Linked, Ordered, Clearing

LEMMA AddTypes ==
  ASSUME TypeInv, NEW p \in Ports, Add(p), ParentFor(p) \in Nodes
  PROVE  TypeInv'
<1> DEFINE q == ParentFor(p)
<1>. HIDE DEF q
<1>1. /\ parent' = [parent EXCEPT ![p] = q]
      /\ root' = IF q = Null THEN p ELSE root
      /\ left' = IF q # Null /\ q < p THEN [left EXCEPT ![q] = p] ELSE left
      /\ right' = IF q # Null /\ q > p THEN [right EXCEPT ![q] = p] ELSE right
      /\ UNCHANGED <<current, freed>>
  BY DEF Add, q
<1>2. p \in Nodes /\ q \in Nodes
  BY PortsAre DEF q
<1>. QED
  BY <1>1, <1>2 DEF TypeInv

(* A node added is a leaf in the subtree of every node met on the way.    *)
LEMMA AddStep ==
  ASSUME NEW T, NEW below, TypeInv, IsTree(T, below), Clearing(T), NEW p \in Ports, Add(p)
  PROVE  /\ TypeInv' /\ Clearing(T \cup {p})'
         /\ \E b : IsTree(T \cup {p}, b)'
<1>1. p \notin T
  BY Search DEF Add
<1>2. PICK q : q = ParentFor(p)
  OBVIOUS
<1>3. PICK A : Searched(A, T, p, q)
  BY <1>1, <1>2, SearchEnds
<1>4. /\ parent' = [parent EXCEPT ![p] = q]
      /\ root' = IF q = Null THEN p ELSE root
      /\ left' = IF q # Null /\ q < p THEN [left EXCEPT ![q] = p] ELSE left
      /\ right' = IF q # Null /\ q > p THEN [right EXCEPT ![q] = p] ELSE right
      /\ UNCHANGED <<current, freed>>
      /\ current = Null /\ \A x \in Ports : freed[x] = 0
  BY <1>2 DEF Add, InUse
<1>5. /\ p \in Nat /\ p # Null /\ p \in Nodes /\ T \subseteq Ports /\ T \subseteq Nat
      /\ Null \notin T /\ T \subseteq Nodes
  BY PortsAre DEF IsTree
<1>6. root = Null <=> q = Null
  BY <1>3, <1>5 DEF Searched
<1>7. q # Null => q \in A /\ q \in T
  BY <1>3, <1>6 DEF Searched
<1>8. TypeInv'
  <2>1. q \in Nodes
    BY <1>5, <1>7, PortsAre
  <2>. QED
    BY <1>2, <2>1, AddTypes
<1>9. Clearing(T \cup {p})'
  BY <1>4, <1>5 DEF Clearing
(* the links *)
<1>10. left[p] = Null /\ right[p] = Null
  BY <1>1 DEF IsTree, Linked
<1>11. /\ left'[p] = Null /\ right'[p] = Null /\ parent'[p] = q
       /\ \A x \in T : parent'[x] = parent[x]
       /\ \A x \in Ports : x # q => left'[x] = left[x] /\ right'[x] = right[x]
  BY <1>1, <1>4, <1>5, <1>7, <1>10 DEF TypeInv
<1>12. ASSUME q # Null
       PROVE  /\ q < p => left[q] = Null /\ left'[q] = p /\ right'[q] = right[q]
              /\ q > p => right[q] = Null /\ right'[q] = p /\ left'[q] = left[q]
              /\ q < p \/ q > p
  <2>1. q \in Ports /\ q # p /\ Step(q, p) = Null /\ q \in Nat
    BY <1>1, <1>3, <1>5, <1>7, <1>12 DEF Searched
  <2>2. Step(q, p) = IF q < p THEN left[q] ELSE right[q]
    BY <1>12, <2>1 DEF Step
  <2>. QED
    BY <1>4, <1>5, <1>12, <2>1, <2>2 DEF TypeInv
<1>13. Linked(T \cup {p})'
  <2>1. /\ root' # Null
        /\ root' \in T \cup {p} /\ parent'[root'] = Null
    BY <1>4, <1>5, <1>6, <1>11 DEF IsTree, Linked
  <2>2. ASSUME NEW x \in T \cup {p}, left'[x] # Null
        PROVE  left'[x] \in T \cup {p} /\ parent'[left'[x]] = x
    <3>1. CASE x = q /\ q < p
      BY <1>5, <1>7, <1>11, <1>12, <2>2, <3>1
    <3>2. CASE ~(x = q /\ q < p)
      <4>1. x # p /\ left'[x] = left[x]
        BY <1>5, <1>11, <1>12, <2>2, <3>2
      <4>. QED
        BY <1>11, <2>2, <4>1 DEF IsTree, Linked
    <3>. QED
      BY <3>1, <3>2
  <2>3. ASSUME NEW x \in T \cup {p}, right'[x] # Null
        PROVE  right'[x] \in T \cup {p} /\ parent'[right'[x]] = x
    <3>1. CASE x = q /\ q > p
      BY <1>5, <1>7, <1>11, <1>12, <2>3, <3>1
    <3>2. CASE ~(x = q /\ q > p)
      <4>1. x # p /\ right'[x] = right[x]
        BY <1>5, <1>11, <1>12, <2>3, <3>2
      <4>. QED
        BY <1>11, <2>3, <4>1 DEF IsTree, Linked
    <3>. QED
      BY <3>1, <3>2
  <2>4. ASSUME NEW x \in (T \cup {p}) \ {root'}
        PROVE  /\ parent'[x] \in T \cup {p}
               /\ left'[parent'[x]] = x \/ right'[parent'[x]] = x
    <3>1. CASE x = p
      BY <1>4, <1>7, <1>11, <1>12, <2>4, <3>1
    <3>2. CASE x # p
      <4>1. x \in T \ {root} /\ parent'[x] = parent[x]
        <5>1. x \in T /\ T # {}
          BY <2>4, <3>2
        <5>2. root # Null
          BY <5>1 DEF IsTree, Linked
        <5>. QED
          BY <1>4, <1>6, <1>11, <2>4, <5>1, <5>2
      <4>2. parent[x] \in T /\ (left[parent[x]] = x \/ right[parent[x]] = x)
        BY <4>1 DEF IsTree, Linked
      <4>3. PICK w : w = parent[x]
        OBVIOUS
      <4>4. x # Null /\ w \in T /\ w # Null /\ (left[w] = x \/ right[w] = x)
        BY <1>5, <4>1, <4>2, <4>3
      <4>5. CASE w = q
        <5>1. left'[w] = x \/ right'[w] = x
          BY <1>12, <4>4, <4>5
        <5>. QED
          BY <4>1, <4>3, <4>4, <5>1
      <4>6. CASE w # q
        <5>1. left'[w] = left[w] /\ right'[w] = right[w]
          BY <1>5, <1>11, <4>4, <4>6
        <5>. QED
          BY <4>1, <4>3, <4>4, <5>1
      <4>. QED
        BY <4>5, <4>6
    <3>. QED
      BY <3>1, <3>2
  <2>5. ASSUME NEW x \in Ports \ (T \cup {p})
        PROVE  left'[x] = Null /\ right'[x] = Null
    <3>1. x # q
      BY <1>7, <2>5, PortsAre
    <3>2. left[x] = Null /\ right[x] = Null
      BY <2>5 DEF IsTree, Linked
    <3>. QED
      BY <1>11, <2>5, <3>1, <3>2
  <2>. QED
    BY <2>1, <2>2, <2>3, <2>4, <2>5 DEF Linked
(* the order *)
<1>14. PICK b : b = [x \in Nodes |-> IF x = p THEN {p}
                                     ELSE IF x \in A THEN below[x] \cup {p} ELSE below[x]]
  OBVIOUS
<1>15. /\ b \in [Nodes -> SUBSET (T \cup {p})] /\ b[p] = {p} /\ b[Null] = {}
       /\ \A x \in A : b[x] = below[x] \cup {p}
       /\ \A x \in T \ A : b[x] = below[x]
  <2>1. Null \notin A /\ p \notin A /\ A \subseteq T
    BY <1>1, <1>3, <1>5 DEF Searched
  <2>2. below \in [Nodes -> SUBSET T] /\ below[Null] = {}
    BY DEF IsTree, Ordered
  <2>3. Null \in Nodes
    BY PortsAre
  <2>4. b \in [Nodes -> SUBSET (T \cup {p})]
    <3>1. ASSUME NEW x \in Nodes
          PROVE  (IF x = p THEN {p} ELSE IF x \in A THEN below[x] \cup {p} ELSE below[x])
                   \in SUBSET (T \cup {p})
      BY <2>2
    <3>. QED
      BY <1>14, <3>1
  <2>5. b[p] = {p} /\ b[Null] = {}
    BY <1>5, <1>14, <2>1, <2>2, <2>3
  <2>6. /\ \A x \in A : b[x] = below[x] \cup {p}
        /\ \A x \in T \ A : b[x] = below[x]
    BY <1>1, <1>5, <1>14, <2>1
  <2>. QED
    BY <2>4, <2>5, <2>6
<1>16. b[root'] = T \cup {p}
  BY <1>3, <1>4, <1>6, <1>15 DEF Searched, IsTree, Linked, Ordered
<1>17. A \subseteq T /\ \A y \in A : y # root => parent[y] \in A /\ Step(parent[y], p) = y
  BY <1>3 DEF Searched
<1>18. ASSUME NEW x \in T
       PROVE  /\ b[x] = {x} \cup b[left'[x]] \cup b[right'[x]]
              /\ \A y \in b[left'[x]] : x < y
              /\ \A y \in b[right'[x]] : y < x
  <2>1. /\ below[x] = {x} \cup below[left[x]] \cup below[right[x]]
        /\ \A y \in below[left[x]] : x < y
        /\ \A y \in below[right[x]] : y < x
        /\ below[Null] = {}
    BY DEF IsTree, Ordered
  <2>2. /\ left[x] # Null => left[x] \in T /\ parent[left[x]] = x /\ left[x] # root
        /\ right[x] # Null => right[x] \in T /\ parent[right[x]] = x /\ right[x] # root
    BY <1>5 DEF IsTree, Linked
  <2>3. x # Null /\ x # p /\ x \in Nat
    BY <1>1, <1>5
  <2>4. Step(x, p) = IF x < p THEN left[x] ELSE right[x]
    BY <2>3 DEF Step
  <2>5. left[x] # right[x] \/ left[x] = Null
    <3>1. left[x] # Null => left[x] \in below[left[x]]
      BY <2>2, Smaller
    <3>2. left[x] # Null => left[x] \in Nat
      BY <1>5, <2>2
    <3>. QED
      BY <2>1, <2>3, <3>1, <3>2
  <2>6. CASE x \notin A
    <3>1. x # q /\ left'[x] = left[x] /\ right'[x] = right[x]
      BY <1>5, <1>7, <1>11, <2>3, <2>6
    <3>2. left[x] \notin A /\ right[x] \notin A
      BY <1>5, <1>17, <2>2, <2>6
    <3>3. b[left[x]] = below[left[x]] /\ b[right[x]] = below[right[x]]
      BY <1>15, <2>1, <2>2, <3>2
    <3>. QED
      BY <1>15, <2>1, <2>6, <3>1, <3>3
  <2>7. CASE x \in A /\ x = q
    <3>1. left[x] \notin A /\ right[x] \notin A
      <4>1. Step(x, p) = Null
        BY <1>3, <2>7 DEF Searched
      <4>. QED
        BY <1>5, <1>17, <2>2, <4>1
    <3>2. b[left[x]] = below[left[x]] /\ b[right[x]] = below[right[x]]
      BY <1>15, <2>1, <2>2, <3>1
    <3>3. b[x] = below[x] \cup {p} /\ b[p] = {p}
      BY <1>15, <2>7
    <3>4. CASE x < p
      BY <1>5, <1>12, <2>1, <2>3, <2>7, <3>2, <3>3, <3>4
    <3>5. CASE x > p
      BY <1>5, <1>12, <2>1, <2>3, <2>7, <3>2, <3>3, <3>5
    <3>. QED
      BY <1>12, <2>3, <2>7, <3>4, <3>5
  <2>8. CASE x \in A /\ x # q
    <3>1. left'[x] = left[x] /\ right'[x] = right[x] /\ b[x] = below[x] \cup {p}
      BY <1>5, <1>11, <1>15, <2>8
    <3>2. Step(x, p) \in A
      BY <1>3, <2>8 DEF Searched
    <3>3. CASE x < p
      <4>1. left[x] \in A /\ right[x] \notin A
        BY <1>5, <1>17, <2>2, <2>4, <2>5, <3>2, <3>3
      <4>2. b[left[x]] = below[left[x]] \cup {p} /\ b[right[x]] = below[right[x]]
        BY <1>15, <2>1, <2>2, <4>1
      <4>. QED
        BY <2>1, <3>1, <3>3, <4>2
    <3>4. CASE ~(x < p)
      <4>1. right[x] \in A /\ left[x] \notin A
        BY <1>5, <1>17, <2>2, <2>4, <2>5, <3>2, <3>4
      <4>2. b[right[x]] = below[right[x]] \cup {p} /\ b[left[x]] = below[left[x]]
        BY <1>15, <2>1, <2>2, <4>1
      <4>3. p < x
        BY <1>5, <2>3, <3>4
      <4>. QED
        BY <2>1, <3>1, <4>2, <4>3
    <3>. QED
      BY <3>3, <3>4
  <2>. QED
    BY <2>6, <2>7, <2>8
<1>19. Ordered(T \cup {p}, b)'
  <2>1. /\ b[p] = {p} \cup b[left'[p]] \cup b[right'[p]]
        /\ \A y \in b[left'[p]] : p < y
        /\ \A y \in b[right'[p]] : y < p
    BY <1>11, <1>15
  <2>. QED
    BY <1>15, <1>16, <1>18, <2>1 DEF Ordered
<1>20. IsTree(T \cup {p}, b)'
  BY <1>5, <1>13, <1>19 DEF IsTree
<1>. QED
  BY <1>8, <1>9, <1>20

-----------------------------------------------------------------------------
(* Rotations.  Both are one: the other way round, left and right change     *)
(* places, and so do smaller and greater.                                  *)

(* Linked and Ordered for any pointers, left and right in any roles       *)
LinkedBy(rt, l, r, pa, T) ==
  /\ rt = Null => T = {}
  /\ rt # Null => rt \in T /\ pa[rt] = Null
  /\ \A x \in T : l[x] # Null => l[x] \in T /\ pa[l[x]] = x
  /\ \A x \in T : r[x] # Null => r[x] \in T /\ pa[r[x]] = x
  /\ \A x \in T \ {rt} :
       /\ pa[x] \in T
       /\ l[pa[x]] = x \/ r[pa[x]] = x
  /\ \A x \in Ports \ T : l[x] = Null /\ r[x] = Null

(* R in the place of < *)
OrderedBy(rt, l, r, R, T, below) ==
  /\ below \in [Nodes -> SUBSET T]
  /\ below[Null] = {}
  /\ below[rt] = T
  /\ \A x \in T :
       /\ below[x] = {x} \cup below[l[x]] \cup below[r[x]]
       /\ \A y \in below[l[x]] : <<x, y>> \in R
       /\ \A y \in below[r[x]] : <<y, x>> \in R

IsOrder(R) ==
  /\ \A x \in Ports : <<x, x>> \notin R
  /\ \A x, y, z \in Ports : <<x, y>> \in R /\ <<y, z>> \in R => <<x, z>> \in R

(* the nodes a rotation at x is about *)
Separate(rt, l, r, pa, R, T, x) ==
  LET y == r[x]
      q == pa[x]
      b == l[y]
  IN /\ y \in T /\ pa[y] = x /\ <<y, x>> \in R /\ y # x
     /\ q = Null <=> x = rt
     /\ q # Null => q \in T /\ q \notin {x, y} /\ (l[q] = x \/ r[q] = x)
     /\ q # Null => ~(l[q] = x /\ r[q] = x)
     /\ b # Null => b \in T /\ pa[b] = y /\ b \notin {x, y, q}
     /\ l[x] \notin {x, y} /\ r[y] \notin {x, y}

(* In a tree they are all different.                                      *)
LEMMA Apart ==
  ASSUME NEW T, T \subseteq Ports, NEW rt, NEW l, NEW r, NEW pa, NEW R, NEW below,
         LinkedBy(rt, l, r, pa, T), OrderedBy(rt, l, r, R, T, below), IsOrder(R),
         NEW x \in T, r[x] # Null
  PROVE  Separate(rt, l, r, pa, R, T, x)
<1> DEFINE y == r[x]
           q == pa[x]
           b == l[y]
<1>1. Null \notin T /\ T \subseteq Nodes /\ Null \in Nodes
  BY PortsAre
<1>2. \A z \in T : /\ below[z] = {z} \cup below[l[z]] \cup below[r[z]]
                   /\ \A u \in below[l[z]] : <<z, u>> \in R /\ u \in T
                   /\ \A u \in below[r[z]] : <<u, z>> \in R /\ u \in T
  <2>1. ASSUME NEW z \in T
        PROVE  below[z] \subseteq T
    BY <1>1 DEF OrderedBy
  <2>. QED
    BY <2>1 DEF OrderedBy
<1>3. /\ \A z \in T : <<z, z>> \notin R
      /\ \A u, v, w \in T : <<u, v>> \in R /\ <<v, w>> \in R => <<u, w>> \in R
  BY DEF IsOrder
<1>4. \A z \in T : z \in below[z]
  BY <1>2
<1>5. /\ \A z \in T : l[z] # Null => l[z] \in T /\ pa[l[z]] = z
      /\ \A z \in T : r[z] # Null => r[z] \in T /\ pa[r[z]] = z
  BY DEF LinkedBy
<1>7. y \in T /\ pa[y] = x /\ <<y, x>> \in R /\ y # x
  BY <1>2, <1>3, <1>4, <1>5
<1>8. x \notin below[y]
  BY <1>2, <1>3
<1>9. q = Null <=> x = rt
  BY <1>1 DEF LinkedBy
<1>10. q # Null => /\ q \in T /\ q \notin {x, y}
                   /\ l[q] = x \/ r[q] = x
  <2>1. q # Null => q \in T /\ (l[q] = x \/ r[q] = x)
    BY <1>9 DEF LinkedBy
  <2>2. q # x
    BY <1>2, <1>3, <1>4, <2>1, <1>1
  <2>3. q # y
    BY <1>2, <1>4, <1>7, <1>8, <2>1, <1>1
  <2>. QED
    BY <2>1, <2>2, <2>3
<1>11. b # Null => b \in T /\ pa[b] = y /\ b \notin {x, y, q}
  <2>1. b # Null => b \in T /\ pa[b] = y
    BY <1>5, <1>7
  <2>2. b # Null => b # x /\ below[b] \subseteq below[y] /\ b # y
    BY <1>2, <1>4, <1>7, <1>8, <2>1, <1>3
  <2>3. b # Null /\ q # Null => b # q
    BY <1>2, <1>4, <1>8, <1>10, <2>2
  <2>. QED
    BY <2>1, <2>2, <2>3
<1>12. /\ l[x] \notin {x, y}
       /\ r[y] \notin {x, y}
  <2>1. l[x] # x
    BY <1>2, <1>3, <1>4
  <2>2. l[x] # y
    BY <1>2, <1>3, <1>4, <1>7
  <2>3. r[y] # x
    BY <1>2, <1>4, <1>7, <1>8
  <2>4. r[y] # y
    BY <1>2, <1>3, <1>4, <1>7
  <2>. QED
    BY <2>1, <2>2, <2>3, <2>4
<1>13. q # Null => ~(l[q] = x /\ r[q] = x)
  BY <1>2, <1>3, <1>4, <1>10
<1>14. Separate(rt, l, r, pa, R, T, x)
  BY <1>7, <1>9, <1>10, <1>11, <1>12, <1>13 DEF Separate
<1>. QED
  BY <1>14

(* x goes down to the left of y, which was its right child *)
Turned(rt, l, r, pa, rt2, l2, r2, pa2, x, y) ==
  LET q == pa[x]
      b == l[y]
  IN /\ y = r[x] /\ y # Null
     /\ rt2 = IF q = Null THEN y ELSE rt
     /\ l2[y] = x /\ r2[y] = r[y] /\ l2[x] = l[x] /\ r2[x] = b
     /\ q # Null /\ l[q] = x => l2[q] = y /\ r2[q] = r[q]
     /\ q # Null /\ l[q] # x => l2[q] = l[q] /\ r2[q] = y
     /\ \A z \in Ports : z \notin {x, y, q} => l2[z] = l[z] /\ r2[z] = r[z]
     /\ pa2[y] = q /\ pa2[x] = y /\ (b # Null => pa2[b] = x)
     /\ \A z \in Ports : z \notin {x, y, b} => pa2[z] = pa[z]

(* A rotation leaves a search tree of the same nodes.                     *)
LEMMA Turn ==
  ASSUME NEW T, T \subseteq Ports, NEW rt, NEW l, NEW r, NEW pa, NEW R, NEW below,
         LinkedBy(rt, l, r, pa, T), OrderedBy(rt, l, r, R, T, below), IsOrder(R),
         NEW rt2, NEW l2, NEW r2, NEW pa2, NEW x \in T, NEW y,
         Turned(rt, l, r, pa, rt2, l2, r2, pa2, x, y)
  PROVE  /\ LinkedBy(rt2, l2, r2, pa2, T)
         /\ \E b : OrderedBy(rt2, l2, r2, R, T, b)
<1> DEFINE q == pa[x]
           b == l[y]
<1>1. Null \notin T /\ T \subseteq Nodes /\ Null \in Nodes
  BY PortsAre
<1>2. \A z \in T : /\ below[z] = {z} \cup below[l[z]] \cup below[r[z]]
                   /\ \A u \in below[l[z]] : <<z, u>> \in R /\ u \in T
                   /\ \A u \in below[r[z]] : <<u, z>> \in R /\ u \in T
  <2>1. ASSUME NEW z \in T
        PROVE  below[z] \subseteq T
    BY <1>1 DEF OrderedBy
  <2>. QED
    BY <2>1 DEF OrderedBy
<1>3. /\ \A z \in T : <<z, z>> \notin R
      /\ \A u, v, w \in T : <<u, v>> \in R /\ <<v, w>> \in R => <<u, w>> \in R
  BY DEF IsOrder
<1>4. \A z \in T : z \in below[z]
  BY <1>2
<1>5. /\ \A z \in T : l[z] # Null => l[z] \in T /\ pa[l[z]] = z
      /\ \A z \in T : r[z] # Null => r[z] \in T /\ pa[r[z]] = z
  BY DEF LinkedBy
<1>6. /\ y = r[x] /\ y # Null
      /\ rt2 = IF q = Null THEN y ELSE rt
      /\ l2[y] = x /\ r2[y] = r[y] /\ l2[x] = l[x] /\ r2[x] = b
      /\ q # Null /\ l[q] = x => l2[q] = y /\ r2[q] = r[q]
      /\ q # Null /\ l[q] # x => l2[q] = l[q] /\ r2[q] = y
      /\ \A z \in T : z \notin {x, y, q} => l2[z] = l[z] /\ r2[z] = r[z]
      /\ pa2[y] = q /\ pa2[x] = y /\ (b # Null => pa2[b] = x)
      /\ \A z \in T : z \notin {x, y, b} => pa2[z] = pa[z]
  BY DEF Turned
<1>7. Separate(rt, l, r, pa, R, T, x)
  BY <1>6, Apart
<1>8. /\ y \in T /\ pa[y] = x /\ <<y, x>> \in R /\ y # x
      /\ q = Null <=> x = rt
      /\ q # Null => q \in T /\ q \notin {x, y} /\ (l[q] = x \/ r[q] = x)
      /\ q # Null => ~(l[q] = x /\ r[q] = x)
      /\ b # Null => b \in T /\ pa[b] = y /\ b \notin {x, y, q}
      /\ l[x] \notin {x, y} /\ r[y] \notin {x, y}
  BY <1>6, <1>7 DEF Separate
<1>9. ASSUME NEW z \in T, z \notin {x, y}
       PROVE  /\ l[z] # y /\ r[z] # y
              /\ z # q => l[z] # x /\ r[z] # x
  BY <1>1, <1>5, <1>6, <1>8, <1>9
<1>. HIDE DEF q, b
<1>10. LinkedBy(rt2, l2, r2, pa2, T)
  <2>1. (rt2 = Null => T = {}) /\ (rt2 # Null => rt2 \in T /\ pa2[rt2] = Null)
    <3>1. CASE q = Null
      BY <1>6, <1>8, <3>1
    <3>2. CASE q # Null
      <4>1. rt # Null => rt \in T /\ pa[rt] = Null /\ rt # x
        BY <1>8, <3>2 DEF LinkedBy
      <4>2. rt # Null => rt # y /\ (b # Null => rt # b)
        BY <1>1, <1>8, <4>1
      <4>3. rt = Null => T = {}
        BY DEF LinkedBy
      <4>4. b = Null => rt # b
        BY <1>8, <4>3
      <4>. QED
        BY <1>6, <3>2, <4>1, <4>2, <4>3, <4>4
    <3>. QED
      BY <3>1, <3>2
  <2>2. ASSUME NEW z \in T
        PROVE  /\ l2[z] # Null => l2[z] \in T /\ pa2[l2[z]] = z
               /\ r2[z] # Null => r2[z] \in T /\ pa2[r2[z]] = z
    <3>1. CASE z = x
      <4>1. l[x] # Null => l[x] \in T /\ pa[l[x]] = x /\ l[x] \notin {x, y, b}
        BY <1>5, <1>8, <1>8, <1>1
      <4>. QED
        BY <1>6, <1>8, <3>1, <4>1
    <3>2. CASE z = y
      <4>1. r[y] # Null => r[y] \in T /\ pa[r[y]] = y /\ r[y] \notin {x, y}
        BY <1>5, <1>8
      <4>2. r[y] # Null => r[y] # b
        <5>1. SUFFICES ASSUME r[y] # Null, r[y] = b PROVE FALSE
          OBVIOUS
        <5>2. b \in T /\ b \in below[l[y]] /\ b \in below[r[y]]
          BY <1>4, <1>8, <5>1 DEF b
        <5>. QED
          BY <1>2, <1>3, <1>8, <5>2
      <4>. QED
        BY <1>6, <3>2, <4>1, <4>2
    <3>3. CASE z = q
      <4>1. q # Null /\ q \in T /\ q \notin {x, y} /\ (l[q] = x \/ r[q] = x)
        BY <1>1, <1>8, <3>3
      <4>2. ASSUME NEW u \in T, pa[u] = q, u # x
            PROVE  pa2[u] = q
        <5>1. u # y /\ u # b
          BY <1>8, <4>1, <4>2, <1>1
        <5>. QED
          BY <1>6, <4>2, <5>1
      <4>3. CASE l[q] = x
        BY <1>5, <1>6, <1>8, <3>3, <4>1, <4>2, <4>3
      <4>4. CASE l[q] # x
        BY <1>5, <1>6, <1>8, <3>3, <4>1, <4>2, <4>4
      <4>. QED
        BY <4>3, <4>4
    <3>4. CASE z \notin {x, y, q}
      <4>1. l2[z] = l[z] /\ r2[z] = r[z]
        BY <1>6, <3>4
      <4>2. ASSUME NEW u \in T, pa[u] = z
            PROVE  pa2[u] = z
        <5>1. u # y /\ u # x /\ u # b
          BY <1>8, <3>4, <4>2, <1>1 DEF q
        <5>. QED
          BY <1>6, <4>2, <5>1
      <4>. QED
        BY <1>5, <4>1, <4>2
    <3>. QED
      BY <3>1, <3>2, <3>3, <3>4
  <2>3. ASSUME NEW z \in T \ {rt2}
        PROVE  pa2[z] \in T /\ (l2[pa2[z]] = z \/ r2[pa2[z]] = z)
    <3>1. CASE z = x
      BY <1>6, <1>8, <3>1
    <3>2. CASE z = y
      <4>1. q # Null
        BY <1>6, <2>3, <3>2
      <4>. QED
        BY <1>6, <1>8, <3>2, <4>1
    <3>3. CASE z = b /\ z \notin {x, y}
      BY <1>6, <1>1, <3>3
    <3>4. CASE z \notin {x, y, b}
      <4>1. z # rt
        BY <1>6, <1>8, <2>3, <3>4
      <4>2. pa2[z] = pa[z] /\ pa[z] \in T /\ (l[pa[z]] = z \/ r[pa[z]] = z)
        BY <1>6, <3>4, <4>1 DEF LinkedBy
      <4>3. PICK w : w = pa[z]
        OBVIOUS
      <4>4. w \in T /\ (l[w] = z \/ r[w] = z)
        BY <4>2, <4>3
      <4>5. w = x => l2[x] = z
        BY <1>6, <3>4, <4>4
      <4>6. w = y => r2[y] = z
        BY <1>6, <3>4, <4>4 DEF b
      <4>7. w = q => l2[q] = z \/ r2[q] = z
        BY <1>6, <1>8, <1>1, <3>4, <4>4
      <4>8. w \notin {x, y, q} => l2[w] = l[w] /\ r2[w] = r[w]
        BY <1>6, <4>4
      <4>. QED
        BY <4>2, <4>3, <4>4, <4>5, <4>6, <4>7, <4>8
    <3>. QED
      BY <3>1, <3>2, <3>3, <3>4
  <2>4. ASSUME NEW z \in Ports \ T
        PROVE  l2[z] = Null /\ r2[z] = Null
    <3>1. z \notin {x, y, q}
      BY <1>8, <2>4, PortsAre
    <3>2. l2[z] = l[z] /\ r2[z] = r[z]
      BY <2>4, <3>1 DEF Turned, q
    <3>. QED
      BY <2>4, <3>2 DEF LinkedBy
  <2>. QED
    BY <2>1, <2>2, <2>3, <2>4 DEF LinkedBy
<1>11. PICK c : c = [below EXCEPT ![x] = {x} \cup below[l[x]] \cup below[b], ![y] = below[x]]
  OBVIOUS
<1>12. /\ below \in [Nodes -> SUBSET T] /\ below[Null] = {} /\ below[rt] = T
       /\ l[x] \in Nodes /\ b \in Nodes
  BY <1>1, <1>5, <1>8 DEF OrderedBy
<1>13. /\ c \in [Nodes -> SUBSET T]
       /\ c[x] = {x} \cup below[l[x]] \cup below[b] /\ c[y] = below[x]
       /\ \A z \in Nodes : z \notin {x, y} => c[z] = below[z]
  BY <1>1, <1>8, <1>11, <1>12
<1>14. c[rt2] = T /\ c[Null] = {}
  <2>1. CASE q = Null
    BY <1>1, <1>6, <1>8, <1>12, <1>13, <2>1
  <2>2. CASE q # Null
    <3>1. rt # x /\ rt # y /\ rt \in Nodes
      BY <1>1, <1>8, <2>2 DEF LinkedBy
    <3>. QED
      BY <1>1, <1>6, <1>8, <1>12, <1>13, <2>2, <3>1
  <2>. QED
    BY <2>1, <2>2
<1>15. ASSUME NEW z \in T
       PROVE  /\ c[z] = {z} \cup c[l2[z]] \cup c[r2[z]]
              /\ \A u \in c[l2[z]] : <<z, u>> \in R
              /\ \A u \in c[r2[z]] : <<u, z>> \in R
  <2>1. l[z] \in Nodes /\ r[z] \in Nodes
    BY <1>1, <1>5
  <2>2. /\ below[z] = {z} \cup below[l[z]] \cup below[r[z]]
        /\ \A u \in below[l[z]] : <<z, u>> \in R
        /\ \A u \in below[r[z]] : <<u, z>> \in R
    BY <1>2
  <2>3. CASE z = x
    <3>1. c[l[x]] = below[l[x]]
      BY <1>8, <1>12, <1>13
    <3>2. c[b] = below[b]
      BY <1>1, <1>8, <1>12, <1>13
    <3>3. \A u \in below[b] : <<u, x>> \in R
      BY <1>2, <1>6, <1>8 DEF b
    <3>. QED
      BY <1>6, <1>13, <2>2, <2>3, <3>1, <3>2, <3>3
  <2>4. CASE z = y
    <3>1. c[r[y]] = below[r[y]]
      BY <1>8, <1>13, <2>1, <2>4
    <3>2. below[x] = {x} \cup below[l[x]] \cup below[y]
      BY <1>2, <1>6
    <3>3. below[y] = {y} \cup below[b] \cup below[r[y]]
      BY <2>2, <2>4 DEF b
    <3>4. c[y] = {y} \cup c[x] \cup c[r[y]]
      BY <1>13, <3>1, <3>2, <3>3
    <3>5. ASSUME NEW u \in c[x]
          PROVE  <<y, u>> \in R
      <4>1. CASE u = x
        BY <1>8, <4>1
      <4>2. CASE u \in below[l[x]]
        BY <1>2, <1>3, <1>8, <4>2
      <4>3. CASE u \in below[b]
        BY <2>2, <2>4, <4>3 DEF b
      <4>. QED
        BY <1>13, <4>1, <4>2, <4>3
    <3>. QED
      BY <1>6, <2>2, <2>4, <3>1, <3>4, <3>5
  <2>5. CASE z = q
    <3>1. q # Null /\ q \in T /\ q \notin {x, y} /\ (l[q] = x \/ r[q] = x)
      BY <1>1, <1>8, <2>5
    <3>2. c[q] = below[q] /\ c[y] = below[x] /\ l[q] # y /\ r[q] # y
      BY <1>1, <1>9, <1>13, <3>1
    <3>3. CASE l[q] = x
      <4>1. r[q] # x /\ l2[q] = y /\ r2[q] = r[q]
        BY <1>6, <1>8, <3>1, <3>3
      <4>2. c[r[q]] = below[r[q]]
        BY <1>13, <2>1, <2>5, <3>2, <4>1
      <4>. QED
        BY <2>2, <2>5, <3>2, <3>3, <4>1, <4>2
    <3>4. CASE l[q] # x
      <4>1. r[q] = x /\ l2[q] = l[q] /\ r2[q] = y
        BY <1>6, <3>1, <3>4
      <4>2. c[l[q]] = below[l[q]]
        BY <1>13, <2>1, <2>5, <3>2, <3>4
      <4>. QED
        BY <2>2, <2>5, <3>2, <4>1, <4>2
    <3>. QED
      BY <3>3, <3>4
  <2>6. CASE z \notin {x, y, q}
    <3>1. l2[z] = l[z] /\ r2[z] = r[z]
      BY <1>6, <2>6
    <3>2. l[z] \notin {x, y} /\ r[z] \notin {x, y}
      BY <1>9, <2>6
    <3>3. c[z] = below[z] /\ c[l[z]] = below[l[z]] /\ c[r[z]] = below[r[z]]
      BY <1>1, <1>13, <2>1, <2>6, <3>2
    <3>. QED
      BY <2>2, <3>1, <3>3
  <2>. QED
    BY <2>3, <2>4, <2>5, <2>6
<1>16. OrderedBy(rt2, l2, r2, R, T, c)
  BY <1>13, <1>14, <1>15 DEF OrderedBy
<1>. QED
  BY <1>10, <1>16

Less == {e \in Ports \X Ports : e[1] < e[2]}

Greater == {e \in Ports \X Ports : e[1] > e[2]}

LEMMA Orders ==
  /\ IsOrder(Less) /\ IsOrder(Greater)
  /\ \A x, y \in Ports : (<<x, y>> \in Less <=> x < y) /\ (<<x, y>> \in Greater <=> y < x)
<1>1. \A x, y \in Ports : (<<x, y>> \in Less <=> x < y) /\ (<<x, y>> \in Greater <=> y < x)
  BY PortsAre DEF Less, Greater
<1>2. \A x \in Ports : <<x, x>> \notin Less /\ <<x, x>> \notin Greater
  BY <1>1, PortsAre
<1>3. \A x, y, z \in Ports : <<x, y>> \in Less /\ <<y, z>> \in Less => <<x, z>> \in Less
  BY <1>1, PortsAre
<1>4. \A x, y, z \in Ports : <<x, y>> \in Greater /\ <<y, z>> \in Greater => <<x, z>> \in Greater
  BY <1>1, PortsAre
<1>. QED
  BY <1>1, <1>2, <1>3, <1>4 DEF IsOrder

(* The tree seen from either side *)
LEMMA Sides ==
  ASSUME NEW T, NEW below, IsTree(T, below)
  PROVE  /\ T \subseteq Ports
         /\ LinkedBy(root, left, right, parent, T)
         /\ LinkedBy(root, right, left, parent, T)
         /\ OrderedBy(root, left, right, Less, T, below)
         /\ OrderedBy(root, right, left, Greater, T, below)
<1>1. T \subseteq Ports /\ Null \notin T
  BY PortsAre DEF IsTree
<1>2. LinkedBy(root, left, right, parent, T) /\ LinkedBy(root, right, left, parent, T)
  BY DEF IsTree, Linked, LinkedBy
<1>3. ASSUME NEW x \in T
      PROVE  below[left[x]] \subseteq Ports /\ below[right[x]] \subseteq Ports
  BY <1>1, PortsAre DEF IsTree, Ordered
<1>4. ASSUME NEW x \in T
      PROVE  /\ below[x] = {x} \cup below[left[x]] \cup below[right[x]]
             /\ below[x] = {x} \cup below[right[x]] \cup below[left[x]]
             /\ \A y \in below[left[x]] : <<x, y>> \in Less /\ <<y, x>> \in Greater
             /\ \A y \in below[right[x]] : <<y, x>> \in Less /\ <<x, y>> \in Greater
  <2>1. /\ below[x] = {x} \cup below[left[x]] \cup below[right[x]]
        /\ \A y \in below[left[x]] : x < y
        /\ \A y \in below[right[x]] : y < x
    BY DEF IsTree, Ordered
  <2>. QED
    BY <1>1, <1>3, <2>1, Orders
<1>5. /\ OrderedBy(root, left, right, Less, T, below)
      /\ OrderedBy(root, right, left, Greater, T, below)
  BY <1>4 DEF IsTree, Ordered, OrderedBy
<1>. QED
  BY <1>1, <1>2, <1>5

LEMMA RotateLeftStep ==
  ASSUME NEW T, NEW below, TypeInv, IsTree(T, below), Clearing(T),
         NEW x \in Ports, RotateLeft(x)
  PROVE  TypeInv' /\ Clearing(T)' /\ \E b : IsTree(T, b)'
<1> DEFINE y == right[x]
           q == parent[x]
           b == left[y]
<1>1. /\ y # Null /\ current = Null /\ UNCHANGED <<current, freed>>
      /\ \A z \in Ports : freed[z] = 0
      /\ root' = IF q = Null THEN y ELSE root
      /\ left' = IF q # Null /\ left[q] = x THEN [left EXCEPT ![y] = x, ![q] = y]
                 ELSE [left EXCEPT ![y] = x]
      /\ right' = IF q # Null /\ right[q] = x THEN [right EXCEPT ![x] = b, ![q] = y]
                  ELSE [right EXCEPT ![x] = b]
      /\ parent' = [p \in Ports |-> IF p = y THEN q ELSE IF p = x THEN y
                                    ELSE IF p = b THEN x ELSE parent[p]]
  BY DEF RotateLeft, Replace, InUse
<1>2. x \in T /\ T \subseteq Ports /\ Null \notin Ports
  BY <1>1, PortsAre DEF IsTree, Linked
<1>3. Separate(root, left, right, parent, Less, T, x)
  BY <1>1, <1>2, Apart, Sides, Orders
<1>4. /\ y \in T /\ y # x
      /\ q # Null => q \in T /\ q \notin {x, y} /\ (left[q] = x \/ right[q] = x)
      /\ q # Null => ~(left[q] = x /\ right[q] = x)
      /\ b # Null => b \in T /\ b \notin {x, y, q}
  BY <1>3 DEF Separate
<1>5. q \in Nodes /\ b \in Nodes /\ x \in Nodes /\ y \in Nodes
  BY <1>2, <1>4, PortsAre
<1>. HIDE DEF q, b
<1>6. TypeInv'
  BY <1>1, <1>2, <1>4, <1>5 DEF TypeInv
<1>7. /\ left'[y] = x /\ right'[y] = right[y] /\ left'[x] = left[x] /\ right'[x] = b
      /\ q # Null /\ left[q] = x => left'[q] = y /\ right'[q] = right[q]
      /\ q # Null /\ left[q] # x => left'[q] = left[q] /\ right'[q] = y
  BY <1>1, <1>2, <1>4 DEF TypeInv
<1>8. \A z \in Ports : z \notin {x, y, q} => left'[z] = left[z] /\ right'[z] = right[z]
  BY <1>1, <1>2, <1>4 DEF TypeInv
<1>9. /\ parent'[y] = q /\ parent'[x] = y /\ (b # Null => parent'[b] = x)
      /\ \A z \in Ports : z \notin {x, y, b} => parent'[z] = parent[z]
  BY <1>1, <1>2, <1>4
<1>10. Turned(root, left, right, parent, root', left', right', parent', x, y)
  BY <1>1, <1>7, <1>8, <1>9 DEF Turned, q, b
<1>11. /\ LinkedBy(root', left', right', parent', T)
       /\ \E c : OrderedBy(root', left', right', Less, T, c)
  <2>. HIDE DEF y
  <2>. QED
    BY <1>2, <1>10, Sides, Orders, Turn
<1>12. Linked(T)'
  BY <1>11 DEF LinkedBy, Linked
<1>13. PICK c : OrderedBy(root', left', right', Less, T, c)
  BY <1>11
<1>14. Ordered(T, c)'
  <2>1. ASSUME NEW z \in T
        PROVE  c[left'[z]] \subseteq Ports /\ c[right'[z]] \subseteq Ports
    <3>1. z \in Nodes
      BY <1>2, PortsAre
    <3>. QED
      BY <1>2, <1>13, <3>1 DEF OrderedBy
  <2>2. ASSUME NEW z \in T
        PROVE  /\ c[z] = {z} \cup c[left'[z]] \cup c[right'[z]]
               /\ \A u \in c[left'[z]] : z < u
               /\ \A u \in c[right'[z]] : u < z
    BY <1>2, <1>13, <2>1, Orders DEF OrderedBy
  <2>. QED
    BY <1>13, <2>2 DEF OrderedBy, Ordered
<1>15. IsTree(T, c)'
  BY <1>2, <1>12, <1>14 DEF IsTree
<1>16. Clearing(T)'
  BY <1>1, <1>2 DEF Clearing
<1>. QED
  BY <1>6, <1>15, <1>16

LEMMA RotateRightStep ==
  ASSUME NEW T, NEW below, TypeInv, IsTree(T, below), Clearing(T),
         NEW x \in Ports, RotateRight(x)
  PROVE  TypeInv' /\ Clearing(T)' /\ \E b : IsTree(T, b)'
<1> DEFINE y == left[x]
           q == parent[x]
           b == right[y]
<1>1. /\ y # Null /\ current = Null /\ UNCHANGED <<current, freed>>
      /\ \A z \in Ports : freed[z] = 0
      /\ root' = IF q = Null THEN y ELSE root
      /\ left' = IF q # Null /\ left[q] = x THEN [left EXCEPT ![x] = b, ![q] = y]
                 ELSE [left EXCEPT ![x] = b]
      /\ right' = IF q # Null /\ right[q] = x THEN [right EXCEPT ![y] = x, ![q] = y]
                  ELSE [right EXCEPT ![y] = x]
      /\ parent' = [p \in Ports |-> IF p = y THEN q ELSE IF p = x THEN y
                                    ELSE IF p = b THEN x ELSE parent[p]]
  BY DEF RotateRight, Replace, InUse
<1>2. x \in T /\ T \subseteq Ports /\ Null \notin Ports
  BY <1>1, PortsAre DEF IsTree, Linked
<1>3. Separate(root, right, left, parent, Greater, T, x)
  BY <1>1, <1>2, Apart, Sides, Orders
<1>4. /\ y \in T /\ y # x
      /\ q # Null => q \in T /\ q \notin {x, y} /\ (left[q] = x \/ right[q] = x)
      /\ q # Null => ~(left[q] = x /\ right[q] = x)
      /\ b # Null => b \in T /\ b \notin {x, y, q}
  BY <1>3 DEF Separate
<1>5. q \in Nodes /\ b \in Nodes /\ x \in Nodes /\ y \in Nodes
  BY <1>2, <1>4, PortsAre
<1>. HIDE DEF q, b
<1>6. TypeInv'
  BY <1>1, <1>2, <1>4, <1>5 DEF TypeInv
<1>7. /\ right'[y] = x /\ left'[y] = left[y] /\ right'[x] = right[x] /\ left'[x] = b
      /\ q # Null /\ right[q] = x => right'[q] = y /\ left'[q] = left[q]
      /\ q # Null /\ right[q] # x => right'[q] = right[q] /\ left'[q] = y
  BY <1>1, <1>2, <1>4 DEF TypeInv
<1>8. \A z \in Ports : z \notin {x, y, q} => left'[z] = left[z] /\ right'[z] = right[z]
  BY <1>1, <1>2, <1>4 DEF TypeInv
<1>9. /\ parent'[y] = q /\ parent'[x] = y /\ (b # Null => parent'[b] = x)
      /\ \A z \in Ports : z \notin {x, y, b} => parent'[z] = parent[z]
  BY <1>1, <1>2, <1>4
<1>10. Turned(root, right, left, parent, root', right', left', parent', x, y)
  BY <1>1, <1>7, <1>8, <1>9 DEF Turned, q, b
<1>11. /\ LinkedBy(root', right', left', parent', T)
       /\ \E c : OrderedBy(root', right', left', Greater, T, c)
  <2>. HIDE DEF y
  <2>. QED
    BY <1>2, <1>10, Sides, Orders, Turn
<1>12. Linked(T)'
  BY <1>11 DEF LinkedBy, Linked
<1>13. PICK c : OrderedBy(root', right', left', Greater, T, c)
  BY <1>11
<1>14. Ordered(T, c)'
  <2>1. ASSUME NEW z \in T
        PROVE  c[left'[z]] \subseteq Ports /\ c[right'[z]] \subseteq Ports
    <3>1. z \in Nodes
      BY <1>2, PortsAre
    <3>. QED
      BY <1>2, <1>13, <3>1 DEF OrderedBy
  <2>2. ASSUME NEW z \in T
        PROVE  /\ c[z] = {z} \cup c[left'[z]] \cup c[right'[z]]
               /\ \A u \in c[left'[z]] : z < u
               /\ \A u \in c[right'[z]] : u < z
    BY <1>2, <1>13, <2>1, Orders DEF OrderedBy
  <2>. QED
    BY <1>13, <2>2 DEF OrderedBy, Ordered
<1>15. IsTree(T, c)'
  BY <1>2, <1>12, <1>14 DEF IsTree
<1>16. Clearing(T)'
  BY <1>1, <1>2 DEF Clearing
<1>. QED
  BY <1>6, <1>15, <1>16

-----------------------------------------------------------------------------
(* rbtree_clear() *)

(* rbtree_clear() starts at the greatest node: nothing is left of that.   *)
LEMMA ClearStartStep ==
  ASSUME NEW T, NEW below, TypeInv, IsTree(T, below), Clearing(T), ClearStart
  PROVE  TypeInv' /\ Clearing(T)' /\ IsTree(T, below)'
<1> DEFINE m == Leftmost(root)
<1>1. /\ root \in T /\ below[root] = T /\ T \subseteq Nodes /\ T \subseteq Nat
  BY PortsAre DEF ClearStart, IsTree, Linked, Ordered
<1>2. m \in T /\ left[m] = Null /\ \A y \in T : y <= m
  BY <1>1, LeftmostIs
<1>. HIDE DEF m
<1>3. current' = m /\ UNCHANGED <<root, left, right, parent, freed>>
  BY DEF ClearStart, links, m
<1>4. IsTree(T, below)'
  BY <1>3 DEF IsTree, Linked, Ordered
<1>5. TypeInv'
  BY <1>1, <1>2, <1>3 DEF TypeInv
<1>6. ASSUME NEW y \in T, y >= m
      PROVE  left[y] = Null
  <2>1. y = m
    BY <1>1, <1>2, <1>6
  <2>. QED
    BY <1>2, <2>1
<1>7. Clearing(T)'
  BY <1>2, <1>3, <1>6 DEF Clearing
<1>. QED
  BY <1>4, <1>5, <1>7

(* Right of a node with nothing to its left, the next one is the greatest. *)
LEMMA ClearDescendStep ==
  ASSUME NEW T, NEW below, TypeInv, IsTree(T, below), Clearing(T), ClearDescend
  PROVE  TypeInv' /\ Clearing(T)' /\ IsTree(T, below)'
<1> DEFINE r == right[current]
           m == Leftmost(r)
<1>1. /\ current \in T /\ T \subseteq Nodes /\ T \subseteq Nat
      /\ \A y \in T : y >= current => left[y] = Null
  BY PortsAre DEF ClearDescend, IsTree, Clearing
<1>2. r \in T
  BY <1>1 DEF ClearDescend, IsTree, Linked
<1>3. m \in T /\ m \in below[r] /\ left[m] = Null /\ \A y \in below[r] : y <= m
  BY <1>2, LeftmostIs
<1>4. current' = m /\ UNCHANGED <<root, left, right, parent, freed>>
  BY DEF ClearDescend, links
<1>5. /\ below[current] = {current} \cup below[r]
      /\ \A y \in below[r] : y < current
  BY <1>1 DEF IsTree, Ordered
<1>. HIDE DEF m, r
<1>6. IsTree(T, below)'
  BY <1>4 DEF IsTree, Linked, Ordered
<1>7. TypeInv'
  BY <1>1, <1>3, <1>4 DEF TypeInv
<1>8. ASSUME NEW y \in T, y >= m
      PROVE  left[y] = Null
  <2>1. CASE y >= current
    BY <1>1, <2>1
  <2>2. CASE y < current /\ y # m
    <3>1. m < y /\ y \in Nat
      BY <1>1, <1>3, <1>8, <2>2
    <3>2. y \in below[current]
      BY <1>1, <1>3, <1>5, <2>2, <3>1, InBetween
    <3>3. y <= m
      BY <1>1, <1>3, <1>5, <2>2, <3>2
    <3>. QED
      BY <1>1, <1>3, <3>1, <3>3
  <2>. QED
    BY <1>1, <1>3, <2>1, <2>2
<1>9. Clearing(T)'
  BY <1>1, <1>3, <1>4, <1>8 DEF Clearing
<1>. QED
  BY <1>6, <1>7, <1>9

(* A leaf is cut off; what is greater than its parent is gone already.    *)
LEMMA ClearFreeStep ==
  ASSUME NEW T, NEW below, TypeInv, IsTree(T, below), Clearing(T), ClearFree,
         NEW c, c = current
  PROVE  /\ TypeInv' /\ Clearing(T \ {c})' /\ c \in T
         /\ \E b : IsTree(T \ {c}, b)'
<1> DEFINE q == parent[current]
<1>1. PICK U : U = T \ {c}
  OBVIOUS
<1>2. /\ c # Null /\ right[c] = Null
      /\ left' = IF q # Null /\ left[q] = c THEN [left EXCEPT ![q] = Null] ELSE left
      /\ right' = IF q # Null /\ left[q] # c THEN [right EXCEPT ![q] = Null] ELSE right
      /\ root' = IF q = Null THEN Null ELSE root
      /\ current' = q
      /\ freed' = [freed EXCEPT ![c] = @ + 1]
      /\ parent' = parent
  BY DEF ClearFree
<1>3. /\ c \in T /\ T \subseteq Ports /\ T \subseteq Nodes /\ T \subseteq Nat /\ Null \notin Ports
      /\ \A x \in T : freed[x] = 0
      /\ \A x \in T : x >= c => left[x] = Null
  BY <1>2, PortsAre DEF Clearing, IsTree
<1>4. left[c] = Null /\ q = parent[c]
  BY <1>3
<1>5. /\ below[c] = {c} /\ below[Null] = {} /\ below[root] = T
      /\ below \in [Nodes -> SUBSET T]
      /\ \A x \in T : /\ below[x] = {x} \cup below[left[x]] \cup below[right[x]]
                      /\ \A y \in below[left[x]] : x < y
                      /\ \A y \in below[right[x]] : y < x
  BY <1>2, <1>3, <1>4 DEF IsTree, Ordered
<1>6. /\ root = Null => T = {}
      /\ root # Null => root \in T /\ parent[root] = Null
      /\ \A x \in T : left[x] # Null => left[x] \in T /\ parent[left[x]] = x
      /\ \A x \in T : right[x] # Null => right[x] \in T /\ parent[right[x]] = x
      /\ \A x \in T \ {root} : parent[x] \in T /\ (left[parent[x]] = x \/ right[parent[x]] = x)
      /\ \A x \in Ports \ T : left[x] = Null /\ right[x] = Null
  BY DEF IsTree, Linked
<1>. HIDE DEF q
<1>7. q = Null <=> c = root
  BY <1>3, <1>4, <1>6
<1>8. q # Null => q \in T /\ q # c /\ (left[q] = c \/ right[q] = c)
  BY <1>2, <1>3, <1>4, <1>6, <1>7
<1>9. q # Null => ~(left[q] = c /\ right[q] = c)
  <2>1. SUFFICES ASSUME q # Null, left[q] = c, right[q] = c PROVE FALSE
    OBVIOUS
  <2>2. q \in T /\ c \in below[left[q]] /\ c \in below[right[q]]
    BY <1>5, <1>8, <2>1
  <2>3. q < c /\ c < q
    BY <1>5, <2>2
  <2>. QED
    BY <1>3, <2>2, <2>3
<1>10. q = Null => U = {}
  BY <1>1, <1>5, <1>7
<1>11. TypeInv'
  <2>1. q \in Nodes /\ Null \in Nodes
    BY <1>3, <1>8, PortsAre
  <2>. QED
    BY <1>2, <1>3, <1>8, <2>1 DEF TypeInv
<1>12. /\ \A x \in Ports : x # q => left'[x] = left[x] /\ right'[x] = right[x]
       /\ q # Null /\ left[q] = c => left'[q] = Null /\ right'[q] = right[q]
       /\ q # Null /\ left[q] # c => left'[q] = left[q] /\ right'[q] = Null
  BY <1>2, <1>3, <1>8 DEF TypeInv
(* the links *)
<1>13. Linked(U)'
  <2>1. (root' = Null => U = {}) /\ (root' # Null => root' \in U /\ parent'[root'] = Null)
    BY <1>1, <1>2, <1>3, <1>6, <1>7, <1>10
  <2>2. ASSUME NEW x \in U
        PROVE  /\ left'[x] # Null => left'[x] \in U /\ parent'[left'[x]] = x
               /\ right'[x] # Null => right'[x] \in U /\ parent'[right'[x]] = x
    <3>1. x \in T /\ x # c /\ x \in Ports
      BY <1>1, <1>3
    <3>2. CASE x = q
      BY <1>1, <1>2, <1>3, <1>6, <1>8, <1>9, <1>12, <3>1, <3>2
    <3>3. CASE x # q
      <4>1. left[x] # c /\ right[x] # c
        BY <1>2, <1>4, <1>6, <3>1, <3>3
      <4>. QED
        BY <1>1, <1>2, <1>6, <1>12, <3>1, <3>3, <4>1
    <3>. QED
      BY <3>2, <3>3
  <2>3. ASSUME NEW x \in U \ {root'}
        PROVE  /\ parent'[x] \in U
               /\ left'[parent'[x]] = x \/ right'[parent'[x]] = x
    <3>1. x \in T \ {root} /\ x # c /\ x # Null
      BY <1>1, <1>2, <1>3, <1>10, <2>3
    <3>2. PICK w : w = parent[x]
      OBVIOUS
    <3>3. w \in T /\ (left[w] = x \/ right[w] = x)
      BY <1>6, <3>1, <3>2
    <3>4. w # c
      BY <1>2, <1>4, <3>1, <3>3
    <3>5. left'[w] = x \/ right'[w] = x
      BY <1>3, <1>8, <1>12, <3>1, <3>3
    <3>. QED
      BY <1>1, <1>2, <3>2, <3>3, <3>4, <3>5
  <2>4. ASSUME NEW x \in Ports \ U
        PROVE  left'[x] = Null /\ right'[x] = Null
    <3>1. left[x] = Null /\ right[x] = Null
      BY <1>1, <1>2, <1>4, <1>6, <2>4
    <3>2. x # q
      BY <1>1, <1>3, <1>8, <2>4
    <3>. QED
      BY <1>12, <2>4, <3>1, <3>2
  <2>. QED
    BY <2>1, <2>2, <2>3, <2>4 DEF Linked
(* the order *)
<1>14. PICK b : b = [x \in Nodes |-> below[x] \ {c}]
  OBVIOUS
<1>15. b \in [Nodes -> SUBSET U] /\ \A x \in Nodes : b[x] = below[x] \ {c}
  BY <1>1, <1>5, <1>14
<1>16. b[Null] = {} /\ b[root'] = U
  <2>1. b[Null] = {}
    BY <1>5, <1>15, PortsAre
  <2>2. root \in Nodes
    BY DEF TypeInv
  <2>. QED
    BY <1>1, <1>2, <1>5, <1>10, <1>15, <2>1, <2>2
<1>17. ASSUME NEW x \in U
       PROVE  /\ b[x] = {x} \cup b[left'[x]] \cup b[right'[x]]
              /\ \A y \in b[left'[x]] : x < y
              /\ \A y \in b[right'[x]] : y < x
  <2>1. x \in T /\ x # c /\ x \in Ports /\ x \in Nodes /\ left[x] \in Nodes /\ right[x] \in Nodes
    BY <1>1, <1>3 DEF TypeInv
  <2>2. /\ b[x] = {x} \cup b[left[x]] \cup b[right[x]]
        /\ \A y \in b[left[x]] : x < y
        /\ \A y \in b[right[x]] : y < x
    BY <1>5, <1>15, <2>1
  <2>3. b[c] = {} /\ b[Null] = {}
    BY <1>3, <1>5, <1>15, <1>16
  <2>4. CASE x = q
    BY <1>3, <1>8, <1>12, <2>1, <2>2, <2>3, <2>4
  <2>5. CASE x # q
    BY <1>12, <2>1, <2>2, <2>5
  <2>. QED
    BY <2>4, <2>5
<1>18. Ordered(U, b)'
  BY <1>15, <1>16, <1>17 DEF Ordered
<1>19. IsTree(U, b)'
  BY <1>1, <1>3, <1>13, <1>18 DEF IsTree
(* where rbtree_clear() is *)
<1>20. ASSUME NEW x \in U, q # Null, x >= q
       PROVE  left'[x] = Null
  <2>1. x \in T /\ x \in Ports /\ x # c /\ q \in T /\ x \in Nat /\ q \in Nat /\ c \in Nat
    BY <1>1, <1>3, <1>8, <1>20
  <2>2. CASE left[q] = c
    <3>1. CASE x = q
      BY <1>12, <1>20, <2>2, <3>1
    <3>2. CASE x > c
      BY <1>3, <1>12, <2>1, <2>2, <3>2, <1>5, <1>8
    <3>3. CASE q < x /\ x < c
      <4>1. q \in below[q] /\ c \in below[q] /\ below[left[q]] = {c}
        BY <1>5, <1>8, <2>1, <2>2
      <4>2. x \in below[q]
        BY <2>1, <3>3, <4>1, InBetween
      <4>. QED
        BY <1>5, <2>1, <3>3, <4>1, <4>2
    <3>. QED
      BY <1>20, <2>1, <3>1, <3>2, <3>3
  <2>3. CASE left[q] # c
    <3>1. right[q] = c /\ c < q
      BY <1>5, <1>8, <1>20, <2>1, <2>3
    <3>2. left[x] = Null
      BY <1>3, <1>20, <2>1, <3>1
    <3>. QED
      BY <1>12, <1>20, <2>1, <2>3, <3>2
  <2>. QED
    BY <2>2, <2>3
<1>21. Clearing(U)'
  <2>1. \A x \in U : freed'[x] = 0
    BY <1>1, <1>2, <1>3 DEF TypeInv
  <2>2. q # Null => q \in U
    BY <1>1, <1>8
  <2>. QED
    BY <1>2, <1>20, <2>1, <2>2 DEF Clearing
<1>. QED
  BY <1>1, <1>3, <1>11, <1>19, <1>21

-----------------------------------------------------------------------------
(* The theorems *)

(* ports is what the table holds, as module PortSet has it *)
SetStep(T, U) ==
  \/ U = T /\ answer' = answer
  \/ \E p \in Ports : \/ U = T \cup {p} /\ Return("add", p, p \notin T)
                      \/ U = T /\ Return("find", p, p \in T)
                      \/ p \in T /\ U = T \ {p} /\ Return("free", p, TRUE)

(* Every step leaves a tree, of the nodes module PortSet says.            *)
LEMMA TreeStep ==
  ASSUME NEW T, NEW below, TypeInv, IsTree(T, below), Clearing(T), [TreeNext]_treeVars
  PROVE  /\ TypeInv'
         /\ \E U, b : IsTree(U, b)' /\ Clearing(U)' /\ SetStep(T, U)
<1>1. ASSUME NEW p \in Ports, Find(p)
      PROVE  /\ TypeInv' /\ IsTree(T, below)' /\ Clearing(T)'
             /\ SetStep(T, T)
  <2>1. Return("find", p, p \in T)
    BY <1>1, Search DEF Find, Return
  <2>2. UNCHANGED <<root, left, right, parent, current, freed>>
    BY <1>1 DEF Find, links
  <2>. QED
    BY <2>1, <2>2, SameTree DEF SetStep
<1>2. ASSUME NEW p \in Ports, AddRefused(p)
      PROVE  /\ TypeInv' /\ IsTree(T, below)' /\ Clearing(T)'
             /\ SetStep(T, T)
  <2>1. p \in T /\ Return("add", p, p \notin T)
    BY <1>2, Search DEF AddRefused, Return
  <2>2. UNCHANGED <<root, left, right, parent, current, freed>>
    BY <1>2 DEF AddRefused, links
  <2>3. T = T \cup {p}
    BY <2>1
  <2>4. SetStep(T, T)
    BY <2>1, <2>3 DEF SetStep
  <2>. QED
    BY <2>2, <2>4, SameTree
<1>3. ASSUME NEW p \in Ports, Add(p)
      PROVE  /\ TypeInv' /\ Clearing(T \cup {p})' /\ SetStep(T, T \cup {p})
             /\ \E b : IsTree(T \cup {p}, b)'
  <2>1. p \notin T /\ Return("add", p, p \notin T)
    BY <1>3, Search DEF Add, Return
  <2>. QED
    BY <1>3, <2>1, AddStep DEF SetStep
<1>4. ASSUME NEW p \in Ports, RotateLeft(p)
      PROVE  /\ TypeInv' /\ Clearing(T)' /\ SetStep(T, T)
             /\ \E b : IsTree(T, b)'
  <2>1. answer' = answer
    BY <1>4 DEF RotateLeft
  <2>. QED
    BY <1>4, <2>1, RotateLeftStep DEF SetStep
<1>5. ASSUME NEW p \in Ports, RotateRight(p)
      PROVE  /\ TypeInv' /\ Clearing(T)' /\ SetStep(T, T)
             /\ \E b : IsTree(T, b)'
  <2>1. answer' = answer
    BY <1>5 DEF RotateRight
  <2>. QED
    BY <1>5, <2>1, RotateRightStep DEF SetStep
<1>6. ASSUME ClearStart \/ ClearDescend
      PROVE  /\ TypeInv' /\ IsTree(T, below)' /\ Clearing(T)' /\ SetStep(T, T)
  <2>1. answer' = answer
    BY <1>6 DEF ClearStart, ClearDescend
  <2>. QED
    BY <1>6, <2>1, ClearStartStep, ClearDescendStep DEF SetStep
<1>7. ASSUME ClearFree
      PROVE  TypeInv' /\ \E U, b : IsTree(U, b)' /\ Clearing(U)' /\ SetStep(T, U)
  <2>1. PICK c : c = current
    OBVIOUS
  <2>2. Return("free", c, TRUE)
    BY <1>7, <2>1 DEF ClearFree
  <2>3. /\ TypeInv' /\ Clearing(T \ {c})' /\ c \in T
        /\ \E b : IsTree(T \ {c}, b)'
    BY <1>7, <2>1, ClearFreeStep
  <2>4. SetStep(T, T \ {c})
    BY <2>2, <2>3 DEF SetStep, IsTree
  <2>. QED
    BY <2>3, <2>4
<1>8. CASE UNCHANGED treeVars
  <2>1. UNCHANGED <<root, left, right, parent, current, freed, answer>>
    BY <1>8 DEF treeVars
  <2>2. SetStep(T, T)
    BY <2>1 DEF SetStep
  <2>3. TypeInv' /\ IsTree(T, below)' /\ Clearing(T)'
    BY <2>1, SameTree
  <2>. QED
    BY <2>2, <2>3
<1> DEFINE Goal == TypeInv' /\ \E U, b : IsTree(U, b)' /\ Clearing(U)' /\ SetStep(T, U)
<1>9. ASSUME NEW p \in Ports,
             Find(p) \/ Add(p) \/ AddRefused(p) \/ RotateLeft(p) \/ RotateRight(p)
      PROVE  Goal
  <2>1. CASE Find(p) \/ AddRefused(p)
    BY <1>1, <1>2, <2>1
  <2>2. CASE Add(p)
    BY <1>3, <2>2
  <2>3. CASE RotateLeft(p) \/ RotateRight(p)
    BY <1>4, <1>5, <2>3
  <2>. QED
    BY <1>9, <2>1, <2>2, <2>3
<1>10. CASE ClearStart \/ ClearDescend
  BY <1>6, <1>10
<1>. HIDE DEF Goal
<1>11. Goal
  BY <1>7, <1>8, <1>9, <1>10 DEF TreeNext, Goal
<1>. QED
  BY <1>11 DEF Goal

LEMMA TreeInvInit == TreeInit => TreeInv
BY InitTree DEF TreeInv

LEMMA TreeInvNext == TreeInv /\ [TreeNext]_treeVars => TreeInv'
<1>1. SUFFICES ASSUME TreeInv, [TreeNext]_treeVars PROVE TreeInv'
  OBVIOUS
<1>2. PICK T, below : IsTree(T, below) /\ Clearing(T)
  BY <1>1 DEF TreeInv
<1>3. TypeInv' /\ \E U, b : IsTree(U, b)' /\ Clearing(U)'
  BY <1>1, <1>2, TreeStep DEF TreeInv
<1>. QED
  BY <1>3 DEF TreeInv

(* While rbtree_clear() runs, a node without a right child has no left one  *)
(* either, neither it nor the one it goes back to has been freed.          *)
THEOREM FreesOnlyLeaves == TreeSpec => []FreesLeaves
<1>1. TreeInv => FreesLeaves
  <2>1. SUFFICES ASSUME TreeInv, current # Null PROVE FreesLeaves
    BY DEF FreesLeaves
  <2>2. PICK T, below : IsTree(T, below) /\ Clearing(T)
    BY <2>1 DEF TreeInv
  <2>3. /\ current \in T /\ T \subseteq Nat
        /\ \A x \in T : freed[x] = 0 /\ (x >= current => left[x] = Null)
    BY <2>1, <2>2, PortsAre DEF Clearing, IsTree
  <2>4. left[current] = Null
    BY <2>3
  <2>5. parent[current] # Null => parent[current] \in T
    BY <2>2, <2>3 DEF IsTree, Linked
  <2>. QED
    BY <2>3, <2>4, <2>5 DEF FreesLeaves
<1>. QED
  BY <1>1, TreeInvInit, TreeInvNext, PTL DEF TreeSpec

ReachableIsTree == \A T : (\E below : IsTree(T, below)) => Reachable = T

LEMMA ReachableIs == TypeInv => ReachableIsTree
BY ReachIs DEF ReachableIsTree

(* Whatever shape the tree takes, it behaves as the set of the ports that   *)
(* can be reached: find and add answer for that set, and clear takes out    *)
(* each of its elements once.                                              *)
THEOREM TreeIsSet == TreeSpec => TableIsSet
<1>1. TreeInit => Table!SetInit
  <2>1. SUFFICES ASSUME TreeInit PROVE Table!SetInit
    OBVIOUS
  <2>2. Reachable = {}
    BY <2>1, InitTree, ReachIs
  <2>. QED
    BY <2>1, <2>2 DEF TreeInit, NoAnswer, Table!SetInit, Table!NoAnswer
<1>2. TypeInv' => ReachableIsTree'
  BY ReachableIs, PTL
<1>3. TreeInv /\ TreeInv' /\ [TreeNext]_treeVars => [Table!SetNext]_<<Reachable, answer>>
  <2>1. SUFFICES ASSUME TreeInv, [TreeNext]_treeVars
                 PROVE  [Table!SetNext]_<<Reachable, answer>>
    OBVIOUS
  <2>2. PICK T, below : IsTree(T, below) /\ Clearing(T)
    BY <2>1 DEF TreeInv
  <2>3. PICK U, b : TypeInv' /\ IsTree(U, b)' /\ SetStep(T, U)
    BY <2>1, <2>2, TreeStep DEF TreeInv
  <2>4. Reachable = T
    BY <2>1, <2>2, ReachIs DEF TreeInv
  <2>5. Reachable' = U
    BY <1>2, <2>3 DEF ReachableIsTree
  <2>6. CASE U = T /\ answer' = answer
    BY <2>4, <2>5, <2>6
  <2>7. ASSUME NEW p \in Ports,
               \/ U = T \cup {p} /\ Return("add", p, p \notin T)
               \/ U = T /\ Return("find", p, p \in T)
               \/ p \in T /\ U = T \ {p} /\ Return("free", p, TRUE)
        PROVE  Table!SetNext
    BY <2>4, <2>5, <2>7
       DEF Return, Table!SetNext, Table!SetAdd, Table!SetFind, Table!SetFree, Table!Call
  <2>. QED
    BY <2>3, <2>6, <2>7 DEF SetStep
<1>. QED
  BY <1>1, <1>3, TreeInvInit, TreeInvNext, PTL DEF TreeSpec, TableIsSet, Table!SetSpec
=============================================================================
