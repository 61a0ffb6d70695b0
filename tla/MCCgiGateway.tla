-------------------------- MODULE MCCgiGateway ----------------------------
(***************************************************************************)
(* Finite instances of CgiGateway for TLC.                                 *)
(***************************************************************************)
EXTENDS CgiGateway

CONSTANTS r1, r2

\* r1 is for a CGI program and sends a cookie, r2 posts a form to a
\* fastcgi one that is longer than its pipe.
MixedKinds == [r \in Requests |-> IF r = r1 THEN "cgi" ELSE "fastcgi"]
MixedHeaders ==
  [r \in Requests |-> IF r = r1 THEN {"HTTP_COOKIE", "CONTENT_LENGTH"}
                      ELSE {"QUERY_STRING", "CONTENT_LENGTH"}]
FormLengths == [r \in Requests |-> IF r = r1 THEN 1 ELSE 3]

\* A cookie and a path that may have no conversion, and what all can convert.
OddTexts   == [r \in Requests |-> IF r = r1 THEN {"HTTP_COOKIE"}
                                  ELSE {"path", "SCRIPT_NAME"}]

AllFailures == {"pipe", "create", "write"}
AllOutputs  == {"page", "error", "badStatus", "garbled", "nothing"}
===========================================================================
