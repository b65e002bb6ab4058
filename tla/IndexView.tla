----------------------------- MODULE IndexView ------------------------------
(***************************************************************************)
(* What the derived index promises to its readers.  For each setting a     *)
(* process can have (configuration, extraction configuration, extractor)   *)
(* there is either no readable index or one complete content: what a       *)
(* rebuild from a single scan would produce.  A read sees one content from *)
(* its first query to its last, and contents are replaced only while       *)
(* nobody reads.                                                           *)
(***************************************************************************)
CONSTANTS
  Request,      \* the readers
  Setting,
  ReaderSetting, \* [Request -> Setting]
  CompleteFor,  \* [Setting -> the complete contents for that setting]
  NoView        \* no readable index; not reading

VARIABLES
  view,     \* [Setting -> a complete content or NoView]
  reading   \* [Request -> the content this read sees or NoView]

vars == <<view, reading>>

Idle == \A r \in Request : reading[r] = NoView

Init ==
  /\ view = [s \in Setting |-> NoView]
  /\ reading = [r \in Request |-> NoView]

\* An update begins to replace what is there.
Retract ==
  /\ Idle
  /\ view' = [s \in Setting |-> NoView]
  /\ UNCHANGED reading

\* An update ends.
Publish(s, content) ==
  /\ Idle
  /\ content \in CompleteFor[s]
  /\ view' = [t \in Setting |-> IF t = s THEN content ELSE NoView]
  /\ UNCHANGED reading

Start(r) ==
  /\ reading[r] = NoView
  /\ view[ReaderSetting[r]] # NoView
  /\ reading' = [reading EXCEPT ![r] = view[ReaderSetting[r]]]
  /\ UNCHANGED view

\* Reads end, one at a time or all those of a dying process.
Finish(ended) ==
  /\ reading' = [r \in Request |-> IF r \in ended THEN NoView ELSE reading[r]]
  /\ UNCHANGED view

Next ==
  \/ Retract
  \/ \E s \in Setting : \E content \in CompleteFor[s] : Publish(s, content)
  \/ \E r \in Request : Start(r)
  \/ \E ended \in SUBSET Request : Finish(ended)

Spec == Init /\ [][Next]_vars

=============================================================================
