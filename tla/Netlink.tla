------------------------------- MODULE Netlink -------------------------------
(***************************************************************************)
(* The command line program and the kernel's end of its netlink socket:    *)
(* src/usr/appflid.c with src/usr/nl_ucmd.c on the one side, and on the    *)
(* other src/mod/nl_kcmd.c, which answers requests, or src/mod/nl_log.c,   *)
(* which src/mod/Kbuild builds in its place and which does not.  The       *)
(* kernel's input function runs in the sender's context, inside sendmsg(). *)
(***************************************************************************)
EXTENDS Report, SequencesExt

CONSTANTS
  Clients,   \* runs of the program, each with its pid
  Args,      \* Args[c]: the options on c's command line
  NoPid,     \* pid == 0
  Kernels,   \* the kernel's ends that may be built: "nl_kcmd", "nl_log"
  MayFail    \* environment: calls of the socket interface may fail

Options == {"ALL", "HTTP", "DNS", "COUNT"}

ASSUME NetlinkAssumption ==
  /\ Args \in [Clients -> Seq(Options)]
  /\ {NoPid, "free", "log"} \cap Clients = {}
  /\ Kernels \subseteq {"nl_kcmd", "nl_log"}
  /\ MayFail \in BOOLEAN

VARIABLES
  at,      \* at[c]: where c is
  mutex,   \* nl_mtx: the client in whose context it is held, or "free"
  text,    \* buf of nl_rcv_msg(), while count_total() writes to it
  queue,   \* queue[c]: what is in c's socket, the answer to d as d
  pid,     \* nl_log.c: the client logs are sent to
  kernel,  \* the kernel's end that was built
  served,  \* history: the requests count_total() was called for
  lost     \* history: the requests or answers a failing call has lost

vars == <<at, mutex, text, queue, pid, kernel, served, lost>>

Places == {"start", "ready", "entered", "switch", "count", "print", "answer", "leave",
           "sent", "done", "failed", "killed", "oops"}

(* c is inside the kernel's input function *)
Inside(c) == at[c] \in {"switch", "count", "print", "answer", "leave", "oops"}

Init ==
  /\ at = [c \in Clients |-> "start"]
  /\ mutex = "free"
  /\ text = Blank
  /\ queue = [c \in Clients |-> {}]
  /\ pid = NoPid
  /\ kernel \in Kernels
  /\ served = {}
  /\ lost = {}

Goto(c, from, to) ==
  /\ at[c] = from
  /\ at' = [at EXCEPT ![c] = to]

-----------------------------------------------------------------------------
(* main() up to sendmsg() *)

(* parse_opt(): the last option with a key counts; "count" sets an         *)
(* operation nobody reads                                                  *)
Key(c) ==
  LET keys == SelectSeq(Args[c], LAMBDA o : o # "COUNT")
  IN IF keys = <<>> THEN "none" ELSE Last(keys)

(* nl_ucmd_init(): socket and bind; if one fails the program ends *)
Open(c) ==
  /\ \/ Goto(c, "start", "ready")
     \/ MayFail /\ Goto(c, "start", "failed")
  /\ UNCHANGED <<mutex, text, queue, pid, served, kernel, lost>>

(* send_to_kernel(): sendmsg() enters the kernel's input function *)
Send(c) ==
  /\ Goto(c, "ready", "entered")
  /\ UNCHANGED <<mutex, text, queue, pid, served, kernel, lost>>

(* sendmsg() fails; main() does not look at the result and goes on to recv *)
SendFails(c) ==
  /\ MayFail
  /\ Goto(c, "ready", "sent")
  /\ lost' = lost \cup {c}
  /\ UNCHANGED <<mutex, text, queue, pid, served, kernel>>

-----------------------------------------------------------------------------
(* nl_kcmd.c: nl_rcv() *)

(* fault: the mutex is not taken *)
NoMutex(c) ==
  /\ kernel = "nl_kcmd"
  /\ Goto(c, "entered", "switch")
  /\ mutex' = c
  /\ UNCHANGED <<text, queue, pid, served, kernel, lost>>

(* mutex_lock(&nl_mtx) *)
LockMutex(c) ==
  /\ kernel = "nl_kcmd"
  /\ mutex = "free"
  /\ Goto(c, "entered", "switch")
  /\ mutex' = c
  /\ UNCHANGED <<text, queue, pid, served, kernel, lost>>

(* nl_rcv_msg(): only one key does anything *)
Switch(c) ==
  /\ Goto(c, "switch", IF Key(c) = "ALL" THEN "count" ELSE "leave")
  /\ UNCHANGED <<mutex, text, queue, pid, served, kernel, lost>>

(* count_total(): flush, walk and memset; module Counters has the counting *)
Count(c) ==
  /\ Goto(c, "count", "print")
  /\ served' = served \cup {c}
  /\ UNCHANGED <<mutex, text, queue, pid, kernel, lost>>

(* the next line of the report; without room for another one like the      *)
(* first count_total() returns an error nobody looks at                    *)
PrintRow(c) ==
  /\ text.rows < MaxRows
  /\ \E len \in LineLens :
       /\ text' = PutLine(text, len)
       /\ Goto(c, "print", IF Overrun(text') THEN "oops"
                           ELSE IF Cramped(text') THEN "answer" ELSE "print")
  /\ UNCHANGED <<mutex, queue, pid, kernel, served, lost>>

(* that was the last row *)
PrintEnd(c) ==
  /\ text.rows > 0
  /\ Goto(c, "print", "answer")
  /\ UNCHANGED <<mutex, text, queue, pid, kernel, served, lost>>

(* fault: sent to whoever is waiting, not to the sender of the request *)
AnswerAnyone(c) ==
  /\ Goto(c, "answer", "leave")
  /\ text' = Blank
  /\ \E d \in Clients :
       queue' = IF at[d] \in {"start", "done", "failed", "killed"}
                  THEN queue ELSE [queue EXCEPT ![d] = @ \cup {c}]
  /\ UNCHANGED <<mutex, pid, served, kernel, lost>>

(* nl_send_to_user(nlh->nlmsg_pid, ...) *)
Answer(c) ==
  /\ Goto(c, "answer", "leave")
  /\ text' = Blank
  /\ queue' = [queue EXCEPT ![c] = @ \cup {c}]
  /\ UNCHANGED <<mutex, pid, served, kernel, lost>>

(* ... in which no skb can be had, or the socket refuses it *)
AnswerLost(c) ==
  /\ MayFail
  /\ Goto(c, "answer", "leave")
  /\ text' = Blank
  /\ lost' = lost \cup {c}
  /\ UNCHANGED <<mutex, queue, pid, served, kernel>>

(* fault: out of the function with the mutex *)
KeepMutex(c) ==
  /\ Goto(c, "leave", "sent")
  /\ mutex' = IF Key(c) = "ALL" THEN "free" ELSE mutex
  /\ UNCHANGED <<text, queue, pid, served, kernel, lost>>

(* mutex_unlock(&nl_mtx), and sendmsg() returns *)
UnlockMutex(c) ==
  /\ Goto(c, "leave", "sent")
  /\ mutex' = "free"
  /\ UNCHANGED <<text, queue, pid, served, kernel, lost>>

-----------------------------------------------------------------------------
(* nl_log.c *)

(* nl_log_recv_msg() keeps the pid of a message of type MSG_CONF and drops  *)
(* the others.  The program never sets the type of its message, which is    *)
(* whatever malloc() has left there.                                       *)
TakePid(c) ==
  /\ kernel = "nl_log"
  /\ Goto(c, "entered", "sent")
  /\ pid' \in {pid, c}
  /\ UNCHANGED <<mutex, text, queue, served, kernel, lost>>

Closed == {"start", "done", "failed", "killed"}

(* nl_log_send_to_user(), called by a protocol's handler: netlink_unicast() *)
(* refuses a socket that is closed, and pid 0 is the kernel itself          *)
Log ==
  /\ kernel = "nl_log"
  /\ pid # NoPid
  /\ at[pid] \notin Closed
  /\ queue' = [queue EXCEPT ![pid] = @ \cup {"log"}]
  /\ UNCHANGED <<at, mutex, text, pid, served, kernel, lost>>

-----------------------------------------------------------------------------
(* main() after sendmsg() *)

(* recv_from_kernel(): recvmsg() blocks until there is an answer *)
Receive(c) ==
  /\ queue[c] # {}
  /\ Goto(c, "sent", "done")
  /\ UNCHANGED <<mutex, text, queue, pid, served, kernel, lost>>

(* recvmsg() fails *)
ReceiveFails(c) ==
  /\ MayFail
  /\ Goto(c, "sent", "done")
  /\ UNCHANGED <<mutex, text, queue, pid, served, kernel, lost>>

(* the user interrupts the program; not inside the kernel's function *)
Kill(c) ==
  /\ at[c] \in {"start", "ready", "sent"}
  /\ at' = [at EXCEPT ![c] = "killed"]
  /\ queue' = [queue EXCEPT ![c] = {}]
  /\ UNCHANGED <<mutex, text, pid, served, kernel, lost>>

-----------------------------------------------------------------------------
(* The specification *)

Kernelside(c) ==
  \/ Switch(c)
  \/ Count(c)
  \/ PrintRow(c)
  \/ PrintEnd(c)
  \/ Answer(c)
  \/ AnswerLost(c)
  \/ UnlockMutex(c)
  \/ TakePid(c)

Userside(c) ==
  \/ Open(c)
  \/ Send(c)
  \/ SendFails(c)
  \/ Receive(c)

Next ==
  \/ \E c \in Clients : Userside(c) \/ LockMutex(c) \/ Kernelside(c)
  \/ \E c \in Clients : ReceiveFails(c) \/ Kill(c)
  \/ Log

Spec == Init /\ [][Next]_vars

(* The program and the kernel run on, but a blocked recvmsg() need not     *)
(* fail.  Every client sends one message, so nl_mtx needs no more than weak *)
(* fairness.                                                               *)
FairSpec ==
  /\ Spec
  /\ \A c \in Clients :
       /\ WF_vars(Userside(c))
       /\ WF_vars(Kernelside(c))
       /\ WF_vars(LockMutex(c))

-----------------------------------------------------------------------------
(* Properties *)

TypeOK ==
  /\ at \in [Clients -> Places]
  /\ mutex \in Clients \cup {"free"}
  /\ text \in Texts
  /\ queue \in [Clients -> SUBSET (Clients \cup {"log"})]
  /\ pid \in Clients \cup {NoPid}
  /\ kernel \in Kernels
  /\ served \subseteq Clients
  /\ lost \subseteq Clients
  /\ mutex # "free" => Inside(mutex)
  /\ \A c \in Clients : at[c] = "answer" => ~Overrun(text)

(* count_total() runs for c: it flushes and walks, or it prints *)
Reporting(c) == at[c] \in {"count", "print"}

(* count_total() never runs for two requests at once, neither does one      *)
(* flush or walk while another one prints: what module Counters takes for   *)
(* granted.                                                                *)
OneReport ==
  \A c, d \in Clients : Reporting(c) /\ Reporting(d) => c = d

(* An answer a program can receive is the one to its own request, and it   *)
(* was counted before.                                                     *)
AnswerMine ==
  \A c \in Clients : queue[c] \ {"log"} \subseteq {c} \cap served

(* The report stays in its buffer, unless a line is longer than the first: *)
(* with per_len measured once, count_total() relies on that.               *)
ReplyFits == Overrun(text) => text.last > text.per

(* "show all the count of app" (usr/appflid.c): with nl_kcmd.c at the other *)
(* end, a program that was asked for the counts ends, whatever the others   *)
(* ask for, unless a failing call has lost its request or its answer, or a *)
(* report overran its buffer.                                              *)
AllAnswered ==
  \A c \in Clients :
    (at[c] = "ready" /\ Key(c) = "ALL" /\ kernel = "nl_kcmd")
      ~> (at[c] \in {"done", "killed"} \/ c \in lost \/ Overrun(text))
=============================================================================
