---------------------------- MODULE MCIndexCycle ----------------------------
(* Small instances of IndexCycle: two processes whose settings differ.     *)
EXTENDS IndexCycle, TLC

CONSTANTS r1, r2, r3, p1, p2, f, m

MCRequest == {r1, r2}
MCProcess == {p1, p2}
MCHome == (r1 :> p1) @@ (r2 :> p2)
ThreeRequests == {r1, r2, r3}
SharedHome == (r1 :> p1) @@ (r2 :> p1) @@ (r3 :> p2)
MCHash == {"c1", "c2", "e1", "e2", "x1"}
\* The second process runs another configuration; f is excluded under it.
S1 == [config |-> "c1", extraction |-> "e1", extractor |-> "x1"]
S2 == [config |-> "c2", extraction |-> "e1", extractor |-> "x1"]
S3 == [config |-> "c2", extraction |-> "e2", extractor |-> "x1"]
MCSetting == {S1, S2}
MCSettingOf == (p1 :> S1) @@ (p2 :> S2)
MCSelected == (S1 :> {f, m}) @@ (S2 :> {m})
\* The second process extracts differently, but scans the same files.
OtherExtraction == {S1, S3}
OtherExtractionOf == (p1 :> S1) @@ (p2 :> S3)
MCPath == {f, m}
MCBroken == {<<f, 2>>}
\* One file, that every process scans and none fails on.
OneFile == {m}
OneFileSelected == [s \in OtherExtraction |-> OneFile]
NoneBroken == {}

=============================================================================
