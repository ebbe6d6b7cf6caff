----------------------------- MODULE MCSession ------------------------------
(* Command lines for Session: every way dispatch refuses one, and for those *)
(* it accepts, every namespace flag with and without --watch, a timeout and *)
(* the kubeconfig's namespace.                                              *)
EXTENDS Session

MCNS == {"a", "b"}

Flags == { [kind |-> "none", match |-> {}], [kind |-> "literal", match |-> {"a"}],
           [kind |-> "glob", match |-> {"a", "b"}], [kind |-> "bad", match |-> {}] }

Good == [known : {TRUE}, parses : {TRUE}, watchable : {TRUE}, watch : BOOLEAN,
         tty : {TRUE}, interval : {1}, ignoresNS : BOOLEAN, all : BOOLEAN,
         currentNS : BOOLEAN, deadline : BOOLEAN, ns : Flags]

Typical == [known |-> TRUE, parses |-> TRUE, watchable |-> TRUE, watch |-> TRUE,
            tty |-> TRUE, interval |-> 1, ignoresNS |-> FALSE, all |-> FALSE,
            currentNS |-> FALSE, deadline |-> TRUE,
            ns |-> [kind |-> "none", match |-> {}]]

Bad == { [Typical EXCEPT !.known = FALSE], [Typical EXCEPT !.parses = FALSE],
         [Typical EXCEPT !.watchable = FALSE], [Typical EXCEPT !.tty = FALSE],
         [Typical EXCEPT !.interval = 0] }

MCInvocations == Good \cup Bad
=============================================================================
