-------------------------- MODULE MCBrowserService --------------------------
(***************************************************************************)
(* The browser service's modules in one model: a behaviour is one of the   *)
(* session registry, of a single session's live view, or of the takeover   *)
(* of a parked run; the others stay where they start, and a component that *)
(* stays there enables none of its fair steps.  The live view is run once  *)
(* with the control plane's calls one after the other, screenshots and all *)
(* gates included, and once with two of them open at a time.               *)
(***************************************************************************)
EXTENDS BrowserSessions, Takeover, TLC

CONSTANTS
    Lead,       \* the call that is open when only one is
    PairGen     \* bound: the gates of a session that two calls share

VARIABLE part

\* An ordinary service, and one whose operations outlast the drain and whose
\* callers close a session twice.
MCRegimes == {[timely |-> TRUE, clean |-> TRUE, single |-> TRUE],
              [timely |-> FALSE, clean |-> TRUE, single |-> FALSE]}

MCInit ==
    /\ part \in {"registry", "session", "calls", "takeover"}
    /\ Init /\ TakeoverInit
    /\ part # "registry" => regime.timely

\* Calls are interchangeable: the first to open is Lead.  An observe changes nothing and
\* an act ends as a failed navigation does: neither is needed as one of two calls.
LeadOpens ==
    /\ \A c \in Calls \ {Lead} :
        OpAt(c, "idle") /\ op'[c].pc # "idle" => ~OpAt(Lead, "idle")
    /\ \A c \in Calls : op'[c].verb \notin {"observe", "act"}

MCNext ==
    /\ UNCHANGED part
    /\ \/ part = "registry" /\ Next /\ UNCHANGED <<viewVars, crossed, takeoverVars>>
       \/ part = "session" /\ ViewNext /\ Watch /\ UNCHANGED <<takeoverVars, vars>>
          /\ \A c \in Calls \ {Lead} : op'[c].pc = "idle"
       \/ part = "calls" /\ ViewNext /\ Watch /\ UNCHANGED <<takeoverVars, vars>>
          /\ LeadOpens /\ hitl'.gen <= PairGen /\ shot' = "idle"
       \/ part = "takeover" /\ TakeoverNext /\ Watch /\ UNCHANGED vars

MCSpec ==
    /\ MCInit /\ [][MCNext]_<<part, vars, viewVars, crossed, takeoverVars>>
    /\ Fairness /\ TakeoverFairness

-----------------------------------------------------------------------------
\* Closing under a busy session: an operation that ends within the drain is not cut
\* off, and a session that is due is closed in the end.  Sessions are
\* interchangeable: one stands for all.
ClosingIsTimely == TimelyActionsAreSpared /\ ClosesInTime(CHOOSE s \in Sessions : TRUE)

\* One page, one hand: the agent and a person never drive it together, nobody watches
\* while a credential is captured, and the debt a person left is the one recorded.  A
\* call loses this only to a second one open beside it, never to people, grants,
\* screenshots or the sweep.
ViewSafety ==
    /\ part # "registry" =>
        /\ ViewTypeOK /\ TakeoverTypeOK
        /\ AgentXorHuman /\ CaptureIsUnwatched /\ DebtIsCurrent
    /\ part = "session" => crossed = Uncrossed

\* The takeover sweep reads a session and acts on the run later: it continues only
\* the pause it read, and a run whose session is gone is paused for its owner.
TakeoverSafety == ContinuesWhatWasRead /\ LostSessionIsPaused
=============================================================================
