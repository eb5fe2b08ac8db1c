----------------------------- MODULE MCSxeJitson -----------------------------
(* Model checking of SxeJitsonApi on small values and texts, and of Containers; a
   behaviour is about one of the two. *)
EXTENDS SxeJitsonApi, Containers

VARIABLE focus      \* "jitson" or "containers"

MCStrLen  == <<1, 9, 9>>
MCStrRev  == <<1, 3, 2>>
MCStrHash == <<1, 3, 2>>
MCHash64  == [k \in 1 .. 8 |-> k % 5]
MCSymKey  == [name \in {"true", "false", "null", "range", "c", "x"} |->
    CASE name = "true" -> 1 [] name = "false" -> 2 [] name = "null" -> 3
      [] name = "range" -> 4 [] name = "c" -> 5 [] OTHER -> 6]
MCConstants == << <<"c", << Token("string", {}, 9, 3), Token("text", {}, 0, 0) >> >> >>
MCIdentLen == [name \in {"x"} |-> 8]
MCWithin   == [s \in 1 .. 3 |-> s .. 3]

MCCalls == { <<"null">>, <<"bool", 1>>, <<"uint", 1>>, <<"uint", 2>>, <<"number", 3>>, <<"number", 5>>,
             <<"string", 1>>, <<"string", 2>>, <<"string_ref", 3>>, <<"range", 1, 2>>, <<"dup", 1>>, <<"dup", 2>>, <<"reference", 1>> }
MCLexemes == { <<"[">>, <<"]">>, <<"{">>, <<"}">>, <<",">>, <<":">>, <<"(">>, <<")">>,
               <<"str", 2>>, <<"num", "UINT", 2>>, <<"num", "UINT", 6>>, <<"num", "BAD", 0>>, <<"id", "c">>, <<"id", "true">>,
               <<"id", "range">>, <<"id", "x">> }
MCBrackets == { <<"[">>, <<"]">>, <<",">>, <<"num", "UINT", 2>>, <<"num", "UINT", 6>> }
MCStarts == { <<>>, << <<"id", "range">>, <<"(">>, <<"[">>, <<"num", "UINT", 4>>, <<",">> >> }
Lex(values) == << <<"[">> >> \o values \o << <<"]">> >>
MCOthers == { Lex(<<>>), Lex(<< <<"str", 3>> >>), Lex(<< <<"num", "UINT", 4>>, <<",">>, <<"num", "UINT", 2>> >>),
              Lex(<< <<"num", "UINT", 2>>, <<",">>, <<"num", "UINT", 4>>, <<",">>, <<"num", "UINT", 4>> >>),
              Lex(<< <<"str", 1>>, <<",">>, <<"id", "null">>, <<",">>, <<"num", "UINT", 2>> >>),
              Lex(<< <<"str", 2>>, <<",">>, <<"str", 3>> >>) }

MCPieces == {<<7>>, <<7, 8, 9>>, <<7, 8, 9, 7, 8, 9, 7>>}

MCInit ==
    /\ focus \in {"jitson", "containers"} /\ Init /\ ContainersInit
    /\ focus = "jitson" => subject = "registry"
    /\ focus = "containers" => mode = "calls" /\ flags = {} /\ stack = stack_make(1, 1)

MCNext ==
    \/ focus = "jitson" /\ Next /\ UNCHANGED <<focus, containerVars>>
    \/ focus = "containers" /\ ContainersNext /\ UNCHANGED <<focus, vars>>

MCSpec == MCInit /\ [][MCNext]_<<focus, vars, containerVars>>
=============================================================================
