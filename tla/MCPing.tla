------------------------------- MODULE MCPing -------------------------------
(***************************************************************************)
(* ping_server for TLC, with the timeouts of the code in units of 100 ms.  *)
(***************************************************************************)
EXTENDS PingWithQuery

\* Whole statistics with and without values and players; statistics that are
\* cut off in a key or in a value, or hold a text that is no UTF-8.
Replies ==
    {<<"empty">>, <<"text", "text", "empty">>,
     <<"text", "empty", "text", "text", "empty", "text", "text">>,
     <<"text", "text", "cut">>, <<"text", "cut">>, <<"text", "text", "text">>,
     <<"bad", "text", "empty">>, <<"text", "bad", "empty">>}

=============================================================================
