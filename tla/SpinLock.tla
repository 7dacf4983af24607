------------------------------ MODULE SpinLock ------------------------------
(***************************************************************************)
(* The kernel's spin lock, as far as src/mod/*.c uses it.  A lock is one   *)
(* word: spin_lock_bh() waits until it is free and takes it,               *)
(* spin_unlock_bh() gives it back without asking who holds it.             *)
(*                                                                         *)
(* Releasing a lock that nobody holds is undefined.  With a test-and-set   *)
(* lock nothing happens; with the ticket lock of the kernels this module   *)
(* is built for, the "now serving" number overtakes the next ticket, and   *)
(* no CPU is served any more.  Both outcomes are kept.                     *)
(***************************************************************************)

LockStates == {"free", "held", "wedged"}

(* spin_lock_bh: enabled only while the lock can be had *)
Acquire(before, after) ==
  /\ before = "free"
  /\ after = "held"

(* spin_unlock_bh, by whichever CPU executes it *)
Release(before, after) ==
  \/ /\ before = "held"
     /\ after = "free"
  \/ /\ before = "free"
     /\ after \in {"free", "wedged"}
  \/ /\ before = "wedged"
     /\ after = "wedged"
=============================================================================
