--------------------------- MODULE MCChatRequests ---------------------------
(***************************************************************************)
(* Small instances of ChatRequests for TLC.                                 *)
(***************************************************************************)
EXTENDS ChatRequests, TLC

CONSTANTS r1, r2, r3

\* Requests are interchangeable; only safety runs use this.
Symmetry == Permutations(Requests)

MCSymbol == Requests \cup {":", "a", "c", "d", "fallback"}
MCFallbackId == <<"fallback">>

Ask(m, h, d) == [model_id |-> m, header |-> h, metadata |-> d]

\* Two models, of which one continues the other behind the delimiter: a with c:d
\* and a:c with d are stored under the same text.  A request that sends no
\* identifier, requests that send the uuid of another one after its answer, and
\* one whose header cannot be read.
ColonModels == {<<"a">>, <<"a", ":", "c">>}
ColonIds == {<<"d">>, <<"c", ":", "d">>} \cup {<<r>> : r \in Requests}
SharedAndPrivate ==
  {Ask(<<"a">>, <<"c", ":", "d">>, None), Ask(<<"a", ":", "c">>, None, <<"d">>), Ask(<<"a">>, None, None)}
    \cup {Ask(<<"a">>, <<r>>, None) : r \in Requests}
    \cup {Ask(<<"a">>, Unreadable, <<"d">>)}

\* One conversation.
OneModel == {<<"a">>}
OneId == {<<"c">>}
OneConversation == {Ask(<<"a">>, <<"c">>, None)}

=============================================================================
