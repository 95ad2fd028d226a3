------------------------------ MODULE Resource ------------------------------
(***************************************************************************)
(* A resource from its URL to its use: Fetch gets the text, and what was   *)
(* got completely goes to SubText (a subscription) or to Template (a       *)
(* template); a profile goes to Compiler, which is a model of its own.     *)
(* A world of Fetch has a field more, the text its upstream serves, and a  *)
(* template world also what is to be put into it:                          *)
(*   text     as in SubText or in Template                                 *)
(*   target, blocks   as in Template                                       *)
(***************************************************************************)
EXTENDS Fetch, Template, SubText

ASSUME SubscriptionsAreText == \A w \in Worlds : w.kind = "subscription" => IsText(w.text)
ASSUME TemplatesAreText == \A w \in Worlds : w.kind = "template" =>
  IsTemplate(w.text) /\ w.target \in {"clash", "shadowrocket", "surge", "quanx"} /\ AreBlocks(w.blocks)

vars == <<fetchVars, templateVars, subVars>>

Init == FetchInit /\ TemplateInit /\ SubInit

\* FetchText returns the text: its call, with its timer, is over.
HandOver ==
  /\ call = "over" /\ verdict = "OK"
  /\ call' = "used" /\ via' = 0 /\ got' = 0 /\ timer' = FALSE /\ ctx' = "live"
  /\ UNCHANGED <<world, verdict>>

UseSubscription ==
  /\ world.kind = "subscription"
  /\ HandOver /\ OpenText(world.text)
  /\ UNCHANGED templateVars

UseTemplate ==
  /\ world.kind = "template"
  /\ HandOver /\ Open(world.text, world.target, world.blocks)
  /\ UNCHANGED subVars

\* The error goes to the caller, or the call is over with what was asked for.
Finished ==
  \/ call = "over" /\ (verdict # "OK" \/ world.kind = "profile")
  \/ call = "used" /\ (step = "done" \/ lineStep = "done")

Next ==
  \/ FetchNext /\ UNCHANGED <<templateVars, subVars>>
  \/ UseSubscription
  \/ UseTemplate
  \/ SubStep /\ UNCHANGED <<fetchVars, templateVars>>
  \/ TemplateStep /\ UNCHANGED <<fetchVars, subVars>>
  \/ Finished /\ UNCHANGED vars

Spec == Init /\ [][Next]_vars

\* What is computed goes on by itself; see FetchFairness for the rest.
FairSpec ==
  /\ Spec
  /\ WF_vars(FetchStep /\ UNCHANGED <<templateVars, subVars>>)
  /\ WF_vars(TimerFires /\ UNCHANGED <<templateVars, subVars>>)
  /\ WF_vars(UseSubscription \/ UseTemplate)
  /\ WF_vars(SubStep /\ UNCHANGED <<fetchVars, templateVars>>)
  /\ WF_vars(TemplateStep /\ UNCHANGED <<fetchVars, subVars>>)
=============================================================================
