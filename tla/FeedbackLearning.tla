--------------------------- MODULE FeedbackLearning ---------------------------
(***************************************************************************)
(* What is learned from decisions and executions (backend/app/feedback/       *)
(* collector.py, analyzer.py): each is an event, kept in memory and rewritten *)
(* to one file, and a recommendation's confidence follows the events of its   *)
(* action type.  Confidences are percentages.                                *)
(***************************************************************************)
EXTENDS Integers, Sequences, SequencesExt, FiniteSets, FiniteSetsExt

CONSTANTS
  Type,        \* action types
  Window,      \* window_days, in ticks
  Proven,      \* events that make a high rate proven (20)
  Enough,      \* events an auto-approval candidate needs (10)
  MaxEvents    \* bound: events recorded

VARIABLES
  feedback,    \* _feedback: the events in memory, [type, kind, age]
  file,        \* the events on disk, or Torn
  writing,     \* the file is being rewritten
  recorded,    \* history: all events
  lossy        \* history: a rewrite did not end

feedbackVars == <<feedback, file, writing, recorded, lossy>>

Kind == {"approved", "rejected", "executed", "failed"}
Torn == <<[type |-> "torn", kind |-> "torn", age |-> 0]>>
Init == feedback = <<>> /\ file = <<>> /\ writing = FALSE /\ recorded = <<>>
        /\ lossy = FALSE

-----------------------------------------------------------------------------
\* record_event appends, and _save_feedback opens the file for writing.
Record(type, kind) ==
  /\ ~writing /\ Len(recorded) < MaxEvents
  /\ LET event == [type |-> type, kind |-> kind, age |-> 0]
     IN  feedback' = Append(feedback, event) /\ recorded' = Append(recorded, event)
  /\ file' = Torn /\ writing' = TRUE
  /\ UNCHANGED lossy

\* A plausible slip: only the new event is written.
SaveLast ==
  /\ writing /\ writing' = FALSE /\ file' = <<Last(feedback)>>
  /\ UNCHANGED <<feedback, recorded, lossy>>
Save ==
  /\ writing /\ writing' = FALSE /\ file' = feedback
  /\ UNCHANGED <<feedback, recorded, lossy>>

\* An error is logged; the memory keeps what the file lacks until the next save.
SaveFails ==
  /\ writing /\ writing' = FALSE /\ lossy' = TRUE
  /\ UNCHANGED <<feedback, file, recorded>>

\* A new process reads the file; one it cannot read is taken for an empty one.
Restart ==
  /\ feedback' = IF file = Torn THEN <<>> ELSE file
  /\ writing' = FALSE /\ lossy' = (lossy \/ writing)
  /\ UNCHANGED <<file, recorded>>

Aged(events) == [i \in DOMAIN events |-> [events[i] EXCEPT !.age = Min({@ + 1, Window})]]
Tick ==
  /\ ~writing
  /\ feedback' = Aged(feedback) /\ recorded' = Aged(recorded) 
  /\ file' = IF file = Torn THEN Torn ELSE Aged(file)
  /\ UNCHANGED <<writing, lossy>>

Next == \/ \E type \in Type, kind \in Kind : Record(type, kind)
        \/ Save \/ SaveFails \/ Restart \/ Tick
Spec == Init /\ [][Next]_feedbackVars

-----------------------------------------------------------------------------
\* analyze_approval_rates: the events of one type in the window, every event,
\* an execution as well, counting for the total.
Count(type, kinds) ==
  Cardinality({i \in DOMAIN feedback : /\ feedback[i].type = type /\ feedback[i].kind \in kinds
                                       /\ feedback[i].age < Window})
Total(type) == Count(type, Kind)
AtLeast(type, percent) == 100 * Count(type, {"approved"}) >= percent * Total(type)
ConfidenceLevel(type) ==
  IF AtLeast(type, 95) THEN "high" ELSE IF AtLeast(type, 70) THEN "medium" ELSE "low"
Succeeds(type, percent) ==
  LET ended == Count(type, {"executed", "failed"})
  IN  ended > 0 /\ 100 * Count(type, {"executed"}) >= percent * ended

\* get_auto_approval_candidates and get_patterns_needing_review.
Seen == {type \in Type : Total(type) > 0}
AutoApprovalCandidates == {type \in Seen : AtLeast(type, 99) /\ Total(type) >= Enough}
NeedReview == {type \in Seen : ConfidenceLevel(type) = "low" \/ ~Succeeds(type, 80)}

\* calculate_recommended_confidence.
RecommendedConfidence(type, base) ==
  LET weight == Min({30, Total(type)})
      rate == (100 * Count(type, {"approved"})) \div Total(type)
  IN  CASE type \notin Seen -> base
        [] type \in Seen /\ ConfidenceLevel(type) = "high" /\ Total(type) >= Proven ->
             Min({100, base + 10})
        [] type \in Seen /\ ConfidenceLevel(type) = "low" -> Max({0, base - 20})
        [] OTHER -> (base * (100 - weight) + rate * weight) \div 100

-----------------------------------------------------------------------------
(* Nothing that was decided or executed is forgotten by a restart unless a    *)
(* rewrite of the file did not end, and nothing counts twice; and what is      *)
(* learned moves a confidence the right way: it stays a percentage, a type    *)
(* that was only rejected is never raised and never a candidate, one that is   *)
(* raised was approved nearly always (collector.py 62-106, analyzer.py         *)
(* 92-255).                                                                  *)
FeedbackIsKept ==
  /\ ~lossy => feedback = recorded
  /\ \A type \in Type, base \in {0, 50, 100} :
       LET learned == RecommendedConfidence(type, base)
       IN  /\ learned \in 0..100
           /\ Count(type, {"approved"}) = 0 =>
                learned <= base /\ type \notin AutoApprovalCandidates
           /\ type \in Seen /\ ConfidenceLevel(type) = "low" => type \in NeedReview /\ learned <= base
=============================================================================
