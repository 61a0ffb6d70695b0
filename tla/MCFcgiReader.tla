--------------------------- MODULE MCFcgiReader ---------------------------
(* Small connections for FcgiReader: one or two requests each, every kind *)
(* of record, content and padding of one to three units.                  *)
EXTENDS FcgiReader

Rec(t, id, len, pad) == [type |-> t, id |-> id, len |-> len, pad |-> pad,
                         role |-> "NONE", keep |-> FALSE]
BeginRec(id, role, keep) == [type |-> "BEGIN", id |-> id, len |-> BeginLen,
                          pad |-> 0, role |-> role, keep |-> keep]
Plain(id, keep) == <<BeginRec(id, "RESPONDER", keep), Rec("PARAMS", id, 2, 1),
                     Rec("PARAMS", id, 0, 0), Rec("STDIN", id, 2, 0),
                     Rec("STDIN", id, 0, 0)>>

\* Parameters and body in several padded records.
Padded == <<BeginRec(1, "RESPONDER", FALSE), Rec("PARAMS", 1, 1, 1),
            Rec("PARAMS", 1, 3, 2), Rec("PARAMS", 1, 0, 0),
            Rec("STDIN", 1, 2, 3), Rec("STDIN", 1, 1, 0), Rec("STDIN", 1, 0, 0)>>
\* Management records before the request and inside a pair.
Asked(n) == <<Rec("GET_VALUES", 0, n, 1), BeginRec(1, "AUTHORIZER", FALSE),
              Rec("PARAMS", 1, 1, 0), Rec("GET_VALUES", 0, 2, 0),
              Rec("OTHER", 0, 0, 0), Rec("PARAMS", 1, 1, 0),
              Rec("PARAMS", 1, 0, 0), Rec("STDIN", 1, 0, 0)>>
\* A second request multiplexed on the connection.
Mixed == <<BeginRec(1, "RESPONDER", FALSE), BeginRec(2, "RESPONDER", FALSE),
           Rec("PARAMS", 2, 2, 1), Rec("PARAMS", 1, 2, 0),
           Rec("PARAMS", 1, 0, 0), Rec("STDIN", 1, 1, 0),
           Rec("STDIN", 2, 3, 0), Rec("STDIN", 1, 1, 0), Rec("STDIN", 1, 0, 0)>>
Filter == <<BeginRec(1, "FILTER", FALSE), Rec("PARAMS", 1, 0, 0),
            Rec("STDIN", 1, 1, 0), Rec("STDIN", 1, 0, 0),
            Rec("DATA", 1, 2, 1), Rec("DATA", 1, 0, 0)>>
Aborted == <<BeginRec(1, "RESPONDER", FALSE), Rec("PARAMS", 1, 0, 0),
             Rec("STDIN", 1, 1, 0), Rec("ABORT", 1, 0, 0)>>
\* A read that fails in the second header leaves a filter between records.
Skewed == <<BeginRec(1, "FILTER", FALSE), Rec("DATA", 1, 1, 0), Rec("DATA", 1, 1, 0),
            Rec("DATA", 1, 0, 0)>>
Cut == <<BeginRec(1, "RESPONDER", FALSE), Rec("PARAMS", 1, 1, 0),
         Rec("PARAMS", 1, 0, 0)>>
Stranger == <<BeginRec(1, "OTHER", FALSE)>>
Early == <<Rec("STDIN", 1, 1, 0)>>
Malformed == <<Rec("BEGIN", 1, 1, 0)>>
\* The shapes the reader does not follow.
Loose == <<BeginRec(1, "RESPONDER", FALSE), Rec("PARAMS", 2, 0, 0),
           Rec("PARAMS", 1, 2, 0), Rec("PARAMS", 1, 0, 1),
           Rec("OTHER", 0, 1, 0), Rec("STDIN", 1, 1, 0), Rec("STDIN", 1, 0, 0)>>

MCConnections == {<<Padded>>, <<Asked(2)>>, <<Asked(1)>>, <<Mixed>>, <<Filter>>,
                  <<Aborted>>, <<Cut>>, <<Skewed>>, <<Stranger>>, <<Early>>, <<Malformed>>,
                  <<Loose>>, <<Plain(1, TRUE), Plain(1, FALSE)>>,
                  <<Plain(1, TRUE), Plain(2, FALSE)>>}
===========================================================================
