-------------------------- MODULE SessionContract --------------------------
(***************************************************************************)
(* What a chat session promises to its user: one run at a time has it, and *)
(* what is asked of the user or said in it comes from that run.  A message *)
(* that is queued becomes part of the conversation once, or is dropped and *)
(* never said.  The one exception is a run that lost the session before it *)
(* began: it does not know, and may go on beside the next one.  How runs   *)
(* notice that they have lost the session, and in which order a queue is   *)
(* served, is not visible here.                                            *)
(***************************************************************************)
EXTENDS Naturals

CONSTANTS
    Run, None,
    Input         \* messages that are sent while a run has the session

VARIABLES
    holder,       \* the run that has the session, or None
    awaits,       \* what its user is asked for
    place,        \* of each input: not yet sent, waiting, or out of the queue
    messages,     \* so many messages has each input become
    late          \* the runs that lost the session before they began

cvars == <<holder, awaits, place, messages, late>>

Waits == {"none", "confirm", "question"}
Waiting == {i \in Input : place[i] = "waiting"}
Speakers == {r \in Run : r = holder} \cup late

CInit ==
    /\ holder = None /\ awaits = "none" /\ late = {}
    /\ place = [i \in Input |-> "new"]
    /\ messages = [i \in Input |-> 0]

Open(r) ==
    /\ holder = None
    /\ holder' = r
    /\ UNCHANGED <<awaits, place, messages, late>>

Submit(i) ==
    /\ holder # None /\ place[i] = "new"
    /\ place' = [place EXCEPT ![i] = "waiting"]
    /\ UNCHANGED <<holder, awaits, messages, late>>

Drop(S) ==
    /\ S \subseteq Waiting
    /\ place' = [i \in Input |-> IF i \in S THEN "gone" ELSE place[i]]
    /\ UNCHANGED messages

Delete(i) == Drop({i}) /\ UNCHANGED <<holder, awaits, late>>

Ask(r) ==
    /\ r \in Speakers
    /\ awaits' \in Waits
    /\ UNCHANGED <<holder, place, messages, late>>

Say(r, i) ==
    /\ r \in Speakers /\ i \in Waiting
    /\ place' = [place EXCEPT ![i] = "gone"]
    /\ messages' = [messages EXCEPT ![i] = @ + 1]
    /\ UNCHANGED <<holder, awaits, late>>

Release(r) ==
    /\ holder = r
    /\ holder' = None
    /\ UNCHANGED <<awaits, place, messages, late>>

\* Nothing is asked any more, and the queue is not served.
Terminate(r) ==
    /\ holder = r
    /\ holder' = None /\ awaits' = "none"
    /\ \E S \in SUBSET Waiting : Drop(S)
    /\ late' \in {late, late \cup {r}}

LateEnds(r) ==
    /\ r \in late
    /\ late' = late \ {r}
    /\ \E S \in SUBSET Waiting : Drop(S)
    /\ UNCHANGED <<holder, awaits>>

CNext ==
    \/ \E i \in Input : Submit(i) \/ Delete(i)
    \/ \E r \in Run : Open(r) \/ Ask(r) \/ Release(r) \/ Terminate(r) \/ LateEnds(r)
    \/ \E r \in Run, i \in Input : Say(r, i)

CSpec == CInit /\ [][CNext]_cvars
=============================================================================
