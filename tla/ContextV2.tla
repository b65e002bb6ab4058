----------------------------- MODULE ContextV2 ------------------------------
(***************************************************************************)
(* The compact form of a packet that a client may negotiate: a table of    *)
(* paths and rows that refer to it and to one another by position, and the *)
(* same budget, settled again for this form (context_v2.go).  And Validate,*)
(* which both directions ask.                                              *)
(*                                                                         *)
(* An item's identifier is its place in the packet ("e1", "e2", ...).      *)
(***************************************************************************)
EXTENDS EvidenceCompiler

Failed == [schema |-> "error"]

-----------------------------------------------------------------------------
(* Validate                                                                *)

\* The parts of Validate that do not follow from the kinds of its fields.
Validate(p) ==
  LET handles == [k \in DOMAIN p.evidence |-> p.evidence[k].handle] IN
  /\ p.schema = "v1"
  /\ p.used <= p.limit
  /\ Len(p.limitations) <= 8 /\ Len(p.next) <= 4
  /\ IsInjective(handles) /\ 0 \notin ToSet(handles)
  /\ \A k \in DOMAIN p.evidence : p.evidence[k].tokens > 0 /\ p.evidence[k].span # 0
  /\ \A e \in p.relations : {e.from, e.to} \subseteq ToSet(handles) /\ (e.from # e.to \/ e.kind = "self")

-----------------------------------------------------------------------------
(* Encoding                                                                *)

\* Paths in the order of their first items.
PathTable(evidence) ==
  FoldLeft(LAMBDA paths, item : IF item.path \in ToSet(paths) THEN paths ELSE Append(paths, item.path), <<>>, evidence)

\* makeContextV2Wire, with positions from 0.
MakeWire(p) ==
  LET paths == PathTable(p.evidence)
      PlaceOf(handle) == (CHOOSE k \in DOMAIN p.evidence : p.evidence[k].handle = handle) - 1
      Row(item) == [handle |-> item.handle, role |-> item.role, path |-> Index(paths, item.path) - 1, span |-> item.span,
                    fidelity |-> item.fidelity, tokens |-> item.tokens, meta |-> item.meta]
  IN [schema |-> "v2", limit |-> p.limit, used |-> 0, omitted |-> p.omitted, paths |-> paths,
      evidence |-> [k \in DOMAIN p.evidence |-> Row(p.evidence[k])],
      relations |-> {[e EXCEPT !.from = PlaceOf(e.from), !.to = PlaceOf(e.to)] : e \in p.relations},
      limitations |-> p.limitations, next |-> p.next, skipped |-> p.skipped]

\* The size of a wire with its summary: what Body and Measure count, with one
\* path for each entry of the table and none for each row.
WireBody(w) ==
  2 + SumFunction([k \in DOMAIN w.evidence |-> w.evidence[k].tokens + w.evidence[k].meta])
    + Len(w.paths) + Cardinality(w.relations) + Len(w.limitations) + Len(w.next)
    + 2 * Digits(w.omitted) + (IF w.skipped > 0 THEN 1 ELSE 0)

WireSize(w) == WireBody(w) + 2 * Digits(w.used)

\* Faulty variant: as the other form was used.
SettleAsBefore(w, p) == [w EXCEPT !.used = p.used]

\* At most six rounds until it agrees with itself, and then once more.
SettleWire(w, p) ==
  [w EXCEPT !.used = FoldLeft(LAMBDA used, n : WireSize([w EXCEPT !.used = used]), @, <<1, 2, 3, 4, 5, 6, 7>>)]

\* EncodeContextV2.
EncodeContextV2(p) ==
  LET Within(w) == IF ~Validate(p) \/ w.used > p.limit THEN Failed ELSE w IN Within(SettleWire(MakeWire(p), p))

-----------------------------------------------------------------------------
(* Decoding                                                                *)

\* DecodeContextV2 of a wire whose fields have their kinds.
DecodeContextV2(w) ==
  LET HandleAt(k) == w.evidence[k + 1].handle
      Item(row) == [handle |-> row.handle, path |-> w.paths[row.path + 1], span |-> row.span, role |-> row.role,
                    fidelity |-> row.fidelity, tokens |-> row.tokens, meta |-> row.meta]
      p == [schema |-> "v1", limit |-> w.limit, used |-> w.used, omitted |-> w.omitted,
            evidence |-> [k \in DOMAIN w.evidence |-> Item(w.evidence[k])],
            relations |-> {[e EXCEPT !.from = HandleAt(e.from), !.to = HandleAt(e.to)] : e \in w.relations},
            limitations |-> w.limitations, next |-> w.next, skipped |-> w.skipped]
  IN IF \/ ~IsInjective(w.paths)
        \/ \E row \in ToSet(w.evidence) : row.path \notin 0 .. Len(w.paths) - 1
        \/ \E e \in w.relations : {e.from, e.to} \ (0 .. Len(w.evidence) - 1) # {}
     THEN Failed
     ELSE IF Validate(p) THEN p ELSE Failed

\* PreferContextV2 and negotiatedContextOutput: the client that accepts the
\* compact form gets it if it is smaller, and else what any client gets.
Negotiated(p, accepts) ==
  LET Prefer(w, decoded) == IF ~accepts \/ decoded = Failed \/ decoded.used >= Measure(p)
                            THEN [raw |-> p, summary |-> p] ELSE [raw |-> w, summary |-> decoded]
      Decoded(w) == Prefer(w, IF w = Failed THEN Failed ELSE DecodeContextV2(w))
  IN Decoded(EncodeContextV2(p))

-----------------------------------------------------------------------------
(* Properties                                                              *)

\* Every answer can be encoded, and a client that decodes what it negotiated
\* has the packet that was compiled, with the size of the form it was sent in,
\* which is the smaller one and within the budget of the other
\* (context_v2.go 53, 91, server.go 241-250).
Faithful(sent, v2) ==
  /\ v2 # Failed /\ DecodeContextV2(v2) = [packet EXCEPT !.used = v2.used]
  /\ sent.raw.schema = "v2" <=> WireSize(v2) < Measure(packet)
  /\ sent.raw.schema = "v2" => WireSize(sent.raw) = sent.raw.used
  /\ sent.summary.used = sent.raw.used /\ sent.summary.used <= packet.limit

EncodingIsFaithful == PacketGiven => Faithful(Negotiated(packet, TRUE), EncodeContextV2(packet))

=============================================================================
