---------------------------- MODULE MCAgentCall ----------------------------
(***************************************************************************)
(* AgentCall for TLC: one variable that is set and one that is not, and    *)
(* the messages that differ in what the server does with them.             *)
(***************************************************************************)
EXTENDS AgentCall, TLC

CONSTANTS password, address, a, b

MCOrder    == (password :> 1) @@ (address :> 2)
MCStartEnv == (password :> Unset) @@ (address :> b)

Bare(line) ==
    [line |-> line, env |-> [v \in Vars |-> Unset], link |-> "none", named |-> TRUE]

Unnamed(m) == [m EXCEPT !.named = FALSE]

MCMessages ==
    {Bare(line) : line \in Lines \ {"call", "prepare"}}
      \cup {Unnamed(Bare(line)) : line \in {"note", "initialize", "plain", "call"}}
      \cup {[Bare("call") EXCEPT !.link = link] : link \in Links}
      \cup {[Bare("prepare") EXCEPT !.env = (password :> p) @@ (address :> Unset)] :
                p \in {a, Unset}}
      \cup {[Bare("call") EXCEPT !.env = (password :> a) @@ (address :> p)] :
                p \in {a, Unset, Unsettable}}

\* For the report of the latest session.
MCTwo == {Bare("call"), Bare("latest")}
=============================================================================
