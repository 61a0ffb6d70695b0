------------------------------ MODULE MCHttp ------------------------------
(* HTTP: a behaviour is one of the requests for a static file, or one of the *)
(* bytes of a connection.                                                    *)
EXTENDS MCMimeResource, RequestStream

Header(name, text, says) == [name |-> <<name>>, text |-> text, says |-> says]
Asked(method, path, handler, headers, body, input, sound) ==
  [method |-> <<method>>, path |-> path, handler |-> handler,
   headers |-> headers, body |-> body, input |-> input, sound |-> sound]
Post(handler, extension, length, body, input, sound) ==
  Asked("POST", <<"/p", ".", extension>>, handler,
       <<Header("Content-Length", <<length>>, <<length>>)>>, body, input, sound)

Page == Asked("GET", <<"/p", ".", "html", "?", "q", ".", "php">>, "mime",
             <<Header("Host", <<"h", ":", "0", "SP">>, <<"h", ":", "0">>)>>,
             <<>>, <<>>, TRUE)
LastPage == Asked("GET", <<"/">>, "document",
                 <<Header("Connection", <<"close">>, <<"close">>),
                   Header("connection", <<"open">>, <<"open">>)>>, <<>>, <<>>, TRUE)
Directory == Asked("GET", <<"/", "p", ".">>, "error", <<>>, <<>>, <<>>, TRUE)

MCSendable ==
  {Page, LastPage, Directory,
   Post("fastcgi", "php", "2", <<"a", "+">>, <<"a", "SP">>, TRUE),
   Post("cgi", "exe", "3", <<"%", "41", "LF">>, <<"A">>, TRUE),
   Post("cgi", "exe", "0", <<>>, <<>>, TRUE),
   Post("cgi", "exe", "-2", <<>>, <<>>, FALSE),
   Post("fastcgi", "php", "2", <<"%", "ff">>, <<>>, FALSE),
   Post("fastcgi", "php", "1", <<"%">>, <<>>, FALSE)}
MCHandlers == (<<".", "html">> :> "mime") @@ (<<".", "php">> :> "fastcgi")
                @@ (<<".", "exe">> :> "cgi")

VARIABLE part

httpVars == <<vars, codecVars, part>>

HttpInit == Init /\ CodecInit /\ part \in {"file", "bytes"}
HttpNext ==
  \/ part = "file" /\ Next /\ UNCHANGED <<codecVars, part>>
  \/ part = "bytes" /\ CodecNext /\ UNCHANGED <<vars, part>>
HttpSpec == HttpInit /\ [][HttpNext]_httpVars
===========================================================================
