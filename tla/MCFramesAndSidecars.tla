------------------------- MODULE MCFramesAndSidecars -------------------------
(***************************************************************************)
(* The two ends of a host: FrameDecoder, over streams put together from a  *)
(* few pieces, and AuditStore.  They share no state, so that no            *)
(* interleaving of the two says more than each does alone: a behaviour     *)
(* here is one of the decoder, or one of the store beside an empty stream. *)
(***************************************************************************)
EXTENDS FrameDecoder, AuditStore

CONSTANTS MaxPieces     \* bound on the pieces of a stream

Pieces ==
    {Encode(<<>>), Encode(<<"a">>), Encode(<<"r", "n">>), <<"L">>, <<"U">>, <<"1">>, <<"2">>, <<"9">>,
     <<"0", "0">>, <<"r", "n">>, <<"r">>, <<"n">>, <<"a">>, <<"x">>}

\* Every way to put at most n pieces together.
PiecedTogether[n \in 0 .. MaxPieces] ==
    IF n = 0 THEN {<<>>}
    ELSE PiecedTogether[n - 1] \cup {s \o p : s \in PiecedTogether[n - 1], p \in Pieces}

AllStreams == PiecedTogether[MaxPieces]

StreamIsEmpty == unread = <<>> /\ pushed = <<>> /\ call = "idle"
NobodyPersists == \A p \in Processes : at[p] = "new"

EndsInit == DecoderInit /\ AuditInit
EndsNext ==
    \/ NobodyPersists /\ DecoderNext /\ UNCHANGED auditVars
    \/ StreamIsEmpty /\ AuditNext /\ UNCHANGED decoderVars
EndsSpec == EndsInit /\ [][EndsNext]_<<decoderVars, auditVars>>
=============================================================================
