----------------------------- MODULE DateCache -----------------------------
(***************************************************************************)
(* The cached Date header of the three mio servers (date.rs): every thread *)
(* keeps the text of the last date it rendered and renders a new one when  *)
(* a second has gone by.  A response may come from any thread, so a client *)
(* sees the dates of all the caches in turn.                               *)
(*                                                                         *)
(* time::get_time() reads the wall clock, which somebody may set, forward  *)
(* or back.  Times are counted in ticks; a rendered date is the time at    *)
(* which its second begins, since rfc822 prints no fraction.               *)
(***************************************************************************)
EXTENDS Integers

CONSTANTS
  Threads,     (* the threads that respond                                 *)
  Second,      (* ticks in a second                                        *)
  MaxClock     (* bound: the clock ends there                              *)

ASSUME ClockAssumption == Second \in Nat \ {0} /\ MaxClock \in Nat \ {0}

VARIABLES
  clock,       (* the wall clock, after the epoch                          *)
  text,        (* text[t]: the date in LAST.bytes, or Empty                *)
  nextUpdate,  (* nextUpdate[t]: LAST.next_update                          *)
  date,        (* the date of the last response, or Empty                  *)
  sentAt,      (* history: the clock when it was formatted; 0 before        *)
  newest,      (* history: the latest date of all responses                *)
  setBack      (* history: the clock has been set back                     *)

dateVars == <<clock, text, nextUpdate, date, sentAt, newest, setBack>>

Time  == 1 .. MaxClock
Empty == -1     (* amt = 0: no text has been rendered                      *)

BeginOfSecond(t) == t - (t % Second)

DateInit ==
  /\ clock      \in Time
  /\ text       = [t \in Threads |-> Empty]
  /\ nextUpdate = [t \in Threads |-> 0]
  /\ date       = Empty
  /\ sentAt     = 0
  /\ newest     = Empty
  /\ setBack    = FALSE

-----------------------------------------------------------------------------

(* Time goes by, or the clock is set forward.                              *)
Advance ==
  /\ \E t \in Time : t > clock /\ clock' = t
  /\ UNCHANGED <<text, nextUpdate, date, sentAt, newest, setBack>>

SetBack ==
  /\ \E t \in Time : t < clock /\ clock' = t
  /\ setBack' = TRUE
  /\ UNCHANGED <<text, nextUpdate, date, sentAt, newest>>

(* update(now)                                                             *)
Update(t) ==
  /\ text'       = [text EXCEPT ![t] = BeginOfSecond(clock)]
  /\ nextUpdate' = [nextUpdate EXCEPT ![t] = clock + Second]

(* Mutant of Refresh: every use puts the update off.                       *)
RefreshPostpones(t) ==
  IF clock > nextUpdate[t]
    THEN Update(t)
    ELSE /\ nextUpdate' = [nextUpdate EXCEPT ![t] = clock + Second]
         /\ UNCHANGED text

(* if now > cache.next_update { cache.update(now) }                        *)
Refresh(t) ==
  IF clock > nextUpdate[t] THEN Update(t) ELSE UNCHANGED <<text, nextUpdate>>

(* Thread t formats now() into a response.                                 *)
Format(t) ==
  /\ Refresh(t)
  /\ date'   = text'[t]
  /\ sentAt' = clock
  /\ newest' = IF date' > newest THEN date' ELSE newest
  /\ UNCHANGED <<clock, setBack>>

DateNext == Advance \/ SetBack \/ \E t \in Threads : Format(t)

DateSpec == DateInit /\ [][DateNext]_dateVars

-----------------------------------------------------------------------------
(* Safety.                                                                 *)

DateTypeOK ==
  /\ clock      \in Time /\ sentAt \in {0} \cup Time
  /\ text       \in [Threads -> Int]
  /\ nextUpdate \in [Threads -> Int]
  /\ date       \in Int /\ newest \in Int
  /\ setBack    \in BOOLEAN

(* Every response is dated, and however the clock is set and however often *)
(* the header is used, no date is two seconds old: one second of the cache *)
(* and the fraction that the text leaves out.                              *)
DateIsRecent ==
  sentAt # 0 => date # Empty /\ sentAt - date < 2 * Second

(* The caches of the threads disagree by a second at most: unless the      *)
(* clock is set back, no response is dated in the future, and none is      *)
(* dated more than one second before an earlier one of any thread.         *)
DatesInOrder ==
  ~setBack /\ date # Empty =>
    /\ date <= sentAt
    /\ newest - date <= Second
=============================================================================
