------------------------------ MODULE MCCommand ------------------------------
(***************************************************************************)
(* Every command line that names a key or --integrity-only with at most    *)
(* one profile or envelope too many, over every vector and every           *)
(* alteration of it.                                                       *)
(***************************************************************************)
EXTENDS Command

NoExtra == [f \in DOMAIN Owner |-> NoOption]

Keys == {[key |-> k, integrity |-> n] :
           k \in {NoOption, "", "issuer", "other", "-dash"}, n \in BOOLEAN}

\* Which rules: nothing, an envelope, a profile, or both.
Rules ==
  {[envelope |-> e, profile |-> NoOption] : e \in {NoOption, "", "anchor-v1", "ACTION-v1"}}
  \cup {[envelope |-> NoOption, profile |-> p] : p \in {"", "odd", "action-1", "chain", "complete", "witnessed"}}
  \cup {[envelope |-> "anchor-v1", profile |-> "action-1"]}

\* One option of a draft profile at most.
Drafts ==
  {[extra |-> NoExtra, approvers |-> NoOption], [extra |-> NoExtra, approvers |-> "other"]}
  \cup {[extra |-> [NoExtra EXCEPT ![f] = "text"], approvers |-> NoOption] : f \in DOMAIN Owner}
  \cup {[extra |-> [NoExtra EXCEPT !.tolerance = "3600"], approvers |-> NoOption]}

Line(k, s, r, d, o) ==
  [key |-> k.key, integrity |-> k.integrity, strict |-> s, envelope |-> r.envelope,
   profile |-> r.profile, extra |-> d.extra, approvers |-> d.approvers, output |-> o]

\* The ways of printing are tried where no other option is given.
MCCommandLines ==
  {Line(k, s, r, d, "line") : k \in Keys, s \in BOOLEAN, r \in Rules, d \in Drafts}
  \cup {Line(k, TRUE, r, [extra |-> NoExtra, approvers |-> NoOption], o) :
           k \in Keys, r \in Rules, o \in {"quiet and machine", "gone"}}
=============================================================================
