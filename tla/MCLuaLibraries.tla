--------------------------- MODULE MCLuaLibraries ---------------------------
(***************************************************************************)
(* LuaLibraries for TLC.                                                   *)
(***************************************************************************)
EXTENDS LuaLibraries, TLC

(* The socket bus: requests of two parts, of which one may be empty.        *)
CONSTANTS k1, k2
MCRequestOf == (k1 :> <<<<7>>, <<8>>>>) @@ (k2 :> <<<<>>, <<9>>>>)
MCResponseOf == (k1 :> <<<<5>>>>) @@ (k2 :> <<<<6>>, <<4>>>>)

(* Replies of one line, pipelined, and of several lines at every place; all *)
(* messages of up to three characters.                                      *)
Text(code, lines) == [code |-> code, lines |-> lines]
MCReplySets ==
    {<<Text("250", <<<<"a">>>>), Text("550", <<<<"b">>>>), Text("250", <<<<>>>>)>>,
     <<Text("250", <<<<"a">>>>), Text("250", <<<<"b">>, <<"c">>>>), Text("354", <<<<"d">>>>)>>,
     <<Text("250", <<<<"a">>, <<"b">>, <<"c">>>>), Text("354", <<<<"d">>>>)>>}
MCMessages == UNION {[1 .. n -> {"x", ".", "\n", "\r"}] : n \in 0 .. 3}

(* Sessions: every call with every verdict, and longer ones in which mail   *)
(* is sent and transactions are started anew.                               *)
AllCalls == {"EHLO", "HELO", "STARTTLS", "MAIL", "RCPT", "DATA", "send_data", "send_empty_data", "RSET",
             "CUSTOM", "QUIT"}
MCSessions ==
    {[calls |-> AllCalls, max |-> 6, extensions |-> {"PIPELINING", "STARTTLS", "SIZE"}, refuses |-> TRUE],
     [calls |-> {"EHLO", "MAIL", "RCPT", "DATA", "send_data", "RSET"}, max |-> 8,
      extensions |-> {"PIPELINING"}, refuses |-> FALSE]}

(* Queries with and without data, a length of zero, two lengths, more or    *)
(* less data than announced, and data that looks like headers or their end. *)
Http1(headers, data) == [headers |-> headers, data |-> data]
MCContentLen == ("x" :> -1) @@ ("c0" :> 0) @@ ("c2" :> 2)
MCQueries ==
    {Http1(<<>>, <<>>), Http1(<<"x">>, <<"\r", "\n">>), Http1(<<"c2">>, <<"b", "b">>),
     Http1(<<"x", "c2">>, <<"\r", "\n">>), Http1(<<"c0", "x">>, <<>>), Http1(<<"c2", "c0">>, <<"b">>),
     Http1(<<"c2">>, <<"b", "\r", "\n">>),
     Http1(<<>>, <<"x", "\r", "\n", "c2", "\r", "\n", "\r", "\n", "b", "b">>)}
MCHttpResponses ==
    {Http1(<<>>, <<"\r", "\n", "\r", "\n", "b">>), Http1(<<"x">>, <<>>),
     Http1(<<"x">>, <<"x", "\r", "\n", "x", "b", "\r", "\n", "c0">>)}

(* Message data alone. *)
DataSpec == LuaSpec /\ part = "data"
=============================================================================
