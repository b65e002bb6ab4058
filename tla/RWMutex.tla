------------------------------- MODULE RWMutex ------------------------------
(***************************************************************************)
(* sync.RWMutex, as a value.  Any number of readers, or one writer.  Lock  *)
(* first announces the writer and then waits for the readers to leave; an  *)
(* announced writer keeps new readers out, so that it is not starved.      *)
(* TryLock never announces: it takes the mutex when nobody has it.         *)
(***************************************************************************)

Unlocked == [readers |-> {}, writer |-> FALSE, announced |-> FALSE]

Mutex(Reader) == [readers: SUBSET Reader, writer: BOOLEAN, announced: BOOLEAN]

\* RLock goes on, TryRLock succeeds.
MayRead(m) == ~m.writer /\ ~m.announced

RLocked(m, c) == [m EXCEPT !.readers = @ \cup {c}]
RUnlocked(m, c) == [m EXCEPT !.readers = @ \ {c}]

\* Lock is called: at most one caller of Lock here, see restartMu.
Announced(m) == [m EXCEPT !.announced = TRUE]

\* Lock returns.
MayWrite(m) == m.readers = {} /\ ~m.writer
Locked(m) == [m EXCEPT !.writer = TRUE, !.announced = FALSE]

MayTryWrite(m) == MayWrite(m) /\ ~m.announced

WUnlocked(m) == [m EXCEPT !.writer = FALSE]

=============================================================================
