-------------------------- MODULE SequentialFetch --------------------------
(***************************************************************************)
(* What fetchAndParseSubs promises: the result, the error and the recorded *)
(* snapshots of a plain loop over the list that passes over the URLs it    *)
(* has handled, fetches the others one after the other and stops at the    *)
(* first error.                                                            *)
(***************************************************************************)
EXTENDS Naturals, Sequences, SequencesExt

VARIABLES
  list,      \* the URLs of the request
  answers,   \* what each URL answers
  handled,   \* the URLs whose nodes the loop has
  nodes,     \* nodes found so far
  snaps,     \* resources recorded so far
  verdict,   \* what the loop returns
  ended      \* the request's context has ended

loopVars == <<list, answers, handled, nodes, snaps, verdict, ended>>

Nothing == [kind |-> "none", at |-> <<>>, nodes |-> <<>>]
Fails(kind, at) == [kind |-> kind, at |-> at, nodes |-> <<>>]

Done(found) == IF found = <<>> THEN Fails("sub_parse_error", <<>>)
                               ELSE [kind |-> "proxies", at |-> <<>>, nodes |-> found]

LoopInit ==
  /\ handled = {} /\ nodes = <<>> /\ snaps = <<>>
  /\ verdict = Nothing /\ ended = FALSE

\* The loop is at the URL u, the first of the list it has not handled.
At(u) ==
  /\ verdict = Nothing
  /\ \E i \in DOMAIN list :
       /\ list[i] = u /\ u \notin handled
       /\ \A j \in 1..(i - 1) : list[j] \in handled

TakeNodes(u) ==
  /\ At(u) /\ answers[u] = "nodes"
  /\ nodes' = Append(nodes, u)
  /\ snaps' = Append(snaps, u)
  /\ handled' = handled \cup {u}
  /\ UNCHANGED <<list, answers, verdict, ended>>

StopAtBadText(u) ==
  /\ At(u) /\ answers[u] = "bad_text"
  /\ snaps' = Append(snaps, u)
  /\ verdict' = Fails("parse", <<u>>)
  /\ UNCHANGED <<list, answers, handled, nodes, ended>>

StopAtBadFetch(u) ==
  /\ At(u) /\ answers[u] = "unreachable"
  /\ verdict' = Fails("fetch", <<u>>)
  /\ UNCHANGED <<list, answers, handled, nodes, snaps, ended>>

\* Only the end of the request itself can interrupt a fetch.
StopInterrupted(u) ==
  /\ At(u) /\ ended
  /\ verdict' = Fails("ctx", <<u>>)
  /\ UNCHANGED <<list, answers, handled, nodes, snaps, ended>>

FinishLoop ==
  /\ verdict = Nothing /\ ToSet(list) \subseteq handled
  /\ verdict' = Done(nodes)
  /\ UNCHANGED <<list, answers, handled, nodes, snaps, ended>>

EndRequest ==
  /\ ended' = TRUE
  /\ UNCHANGED <<list, answers, handled, nodes, snaps, verdict>>

LoopNext ==
  \/ \E u \in ToSet(list) :
       TakeNodes(u) \/ StopAtBadText(u) \/ StopAtBadFetch(u) \/ StopInterrupted(u)
  \/ FinishLoop
  \/ EndRequest

LoopSpec == LoopInit /\ [][LoopNext]_loopVars
=============================================================================
