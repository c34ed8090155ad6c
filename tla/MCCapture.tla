------------------------------ MODULE MCCapture ------------------------------
(***************************************************************************)
(* Two words; an answer with an error page, a header that names HTTP and a *)
(* body that does, one whose body quotes a status line, and one with a     *)
(* blank line inside; a DNS reply with an alias before the address; on the *)
(* stack nothing, a scan that was there before, or the body of one, with   *)
(* or without a row of dashes.                                             *)
(***************************************************************************)
EXTENDS BodyCapture

Body(sig, quote, weight) ==
  [Line("text", "body", 0) EXCEPT !.sig = sig, !.quote = quote, !.weight = weight]

Wall  == Body(TRUE, 0, 1)
Prose == Body(FALSE, 0, 1)
Quote == Body(FALSE, 404, 1)
Naming == Body(FALSE, -1, 1)
Wide  == Body(FALSE, 0, 3)

MCTargets    == {"w1", "w2"}
MCCap        == 3
MCWordLists  == {<<"w1">>, <<"w1", "w2">>}
MCPorts      == {"443", "80", "other"}
MCAnswers    == {[code |-> 200, via |-> 0, body |-> <<Quote, Wall>>],
                 [code |-> 200, via |-> 0, body |-> <<Wall, Blank, Prose>>],
                 [code |-> 500, via |-> -1, body |-> <<Wall, Naming>>]}
MCDnsReplies == {<<[address |-> FALSE, len |-> 6], [address |-> TRUE, len |-> 4]>>}
MCLeftovers  == {[target |-> "", status |-> 0, body |-> <<>>],
                 [target |-> "w1", status |-> 200, body |-> <<Wide, Dashes, Wall>>],
                 [target |-> "", status |-> 200, body |-> <<Wall, Prose>>],
                 [target |-> "", status |-> 200, body |-> <<Dashes, Wall, Dashes>>]}
MCFull       == 3
MCMaxHead    == 2
MCMaxBatches == 1

\* A second report over the first.
MCReportBatches == 2
=============================================================================
