--------------------------- MODULE EvalRunsProofs ---------------------------
(***************************************************************************)
(* What EvalRuns keeps for any number of runs, handlers and losses.        *)
(*                                                                         *)
(* PlanKept is inductive once the plans in the hands of the handlers are   *)
(* acceptable requests that read back as those of their clients            *)
(* (PlansHeld).  The verdict and the files need that a run belongs to one  *)
(* handler, which has not completed it (RunsOwned), that transitions are   *)
(* decided as the table allows (MovesAllowed), and that a handler's run    *)
(* has touched no file before its report (FilesOwned).                     *)
(***************************************************************************)
EXTENDS EvalRuns, TLAPS

PlansHeld ==
  /\ \A r \in Runs : status[r] # "none" =>
       /\ payload[r] \in PayloadType
       /\ asked[r] \in Accepted \cup {NoPlan}
       /\ PlanOf(payload[r]) = Repeated(asked[r])
  /\ \A h \in Handlers : handler[h].pc # "idle" =>
       handler[h].run \in Runs /\ status[handler[h].run] # "none"
  /\ \A h \in Handlers : handler[h].pc \notin {"idle", "retry"} =>
       /\ handler[h].plan \in Accepted
       /\ Repeated(handler[h].plan) = Repeated(asked[handler[h].run])

MovesAllowed ==
  /\ \A m \in Movers : mover[m].run # NoRun =>
       /\ status[mover[m].run] # "none"
       /\ mover[m].run \notin made =>
            mover[m].from = "running" /\ mover[m].target \in Ended
  /\ \A r \in Runs : status[r] = "queued" => r \in made
  /\ \A r \in made : status[r] # "none"

RunsOwned ==
  /\ \A h \in Handlers : Working(h) =>
       /\ handler[h].run \notin made
       /\ payload[handler[h].run].result = "absent"
  /\ \A g, h \in Handlers :
       Working(g) /\ Working(h) /\ handler[g].run = handler[h].run => g = h
  /\ \A r \in Runs \ made :
       /\ status[r] = "running" => payload[r].result = "absent"
       /\ payload[r].result = "absent" => payload[r].paths \notin Files
  /\ \A h \in Handlers : handler[h].pc = "complete" =>
       /\ handler[h].result \in {"passed", "failed"}
       /\ handler[h].paths \in Files => json[handler[h].paths] # NoRun

FilesOwned ==
  /\ \A f \in Files : json[f] # NoRun => status[json[f]] # "none"
  /\ \A f \in Files : json[f] = NoRun => text[f] = NoRun
  /\ \A r \in Runs \ made : payload[r].paths \in Files => json[payload[r].paths] # NoRun
  /\ \A h \in Handlers, f \in Files :
       handler[h].pc = "suite" => json[f] # handler[h].run
  /\ \A h \in Handlers, f \in Files :
       handler[h].pc = "complete" /\ json[f] = handler[h].run =>
         text[f] = handler[h].run

\* The files of two runs are where the run that wrote the .json did not complete.
MixedIsCutShort ==
  \A f \in Files : json[f] # text[f] => payload[json[f]].result = "absent"

IInv == TypeOK /\ PlansHeld /\ MovesAllowed /\ RunsOwned /\ VerdictTellsReport
          /\ FilesOwned /\ MixedIsCutShort

-----------------------------------------------------------------------------
(***************************************************************************)
(* Plans and payloads.                                                     *)
(***************************************************************************)

\* A plan is a suite with the options of that suite.
LEMMA PlanShape ==
  ASSUME NEW plan \in PlanType
  PROVE  /\ plan.suite \in Suites
         /\ plan.options \in [Options[plan.suite] -> Values]
         /\ plan = [suite |-> plan.suite, options |-> plan.options]
         /\ plan # NoPlan
<1>1. PICK s \in Suites : plan \in [suite : {s}, options : [Options[s] -> Values]]
  BY DEF PlanType
<1>2. plan.suite = s
  BY <1>1
<1>3. plan # NoPlan
  BY EvalConstants
<1>. QED BY <1>1, <1>2, <1>3

LEMMA AcceptedShape ==
  ASSUME NEW plan \in Accepted
  PROVE  /\ plan \in PlanType /\ plan # NoPlan
         /\ \A k \in Options[plan.suite] : plan.options[k] # "refused"
         /\ "dataset_path" \in Options[plan.suite] =>
              Trimmed[plan.options["dataset_path"]] # "default"
<1>1. plan \in PlanType
  BY DEF Accepted
<1>2. DOMAIN plan.options = Options[plan.suite]
  BY <1>1, PlanShape
<1>. QED BY <1>1, <1>2, PlanShape DEF Accepted

\* A suite with options of its own is a plan, acceptable if its options are.
LEMMA PlanBuilt ==
  ASSUME NEW s \in Suites, NEW o \in [Options[s] -> Values],
         \A k \in Options[s] : o[k] # "refused",
         "dataset_path" \in Options[s] => Trimmed[o["dataset_path"]] # "default"
  PROVE  [suite |-> s, options |-> o] \in Accepted
<1>1. [suite |-> s, options |-> o] \in PlanType
  BY DEF PlanType
<1>. QED BY <1>1 DEF Accepted

\* Texts are read as values, and a text that was read reads the same again.
LEMMA ReadAgain ==
  ASSUME NEW k, NEW v \in Values
  PROVE  /\ Read(k, v) \in Values /\ Read(k, Read(k, v)) = Read(k, v)
         /\ v # "refused" => Read(k, v) # "refused"
BY EvalConstants DEF Read

\* The payload of a run that was just queued, and that of a completed one.
LEMMA KeptType ==
  ASSUME NEW plan \in PlanType, NEW origin \in Runs \cup {NoRun},
         NEW paths \in Files \cup {"absent", "null"},
         NEW res \in {"absent", "passed", "failed"}
  PROVE  /\ Kept(plan, origin) \in PayloadType
         /\ [Kept(plan, origin) EXCEPT !.result = res, !.paths = paths] \in PayloadType
<1>. DEFINE All == UNION {Options[s] : s \in Suites}
<1>1. plan.suite \in Suites /\ plan.options \in [Options[plan.suite] -> Values]
  BY PlanShape
<1>2. Options[plan.suite] \in SUBSET All
  BY <1>1
<1>3. plan.options \in OptionsKept
  BY <1>1, <1>2 DEF OptionsKept
<1>. QED BY <1>1, <1>3 DEF Kept, PayloadType

\* A payload with the suite and the options of an accepted plan reads back as
\* that plan with its texts stripped.
LEMMA ReadsBack ==
  ASSUME NEW plan \in Accepted, NEW p, p.suite = plan.suite, p.options = plan.options
  PROVE  Rerunnable(p) /\ PlanOf(p) = Repeated(plan)
<1>1. /\ plan \in PlanType /\ plan # NoPlan
      /\ \A k \in Options[plan.suite] : plan.options[k] # "refused"
      /\ "dataset_path" \in Options[plan.suite] =>
           Trimmed[plan.options["dataset_path"]] # "default"
  BY AcceptedShape
<1>2. /\ p.suite \in Suites /\ DOMAIN p.options = Options[p.suite]
      /\ \A k \in Options[p.suite] : p.options[k] \in Values
  BY <1>1, PlanShape
<1>3. \A k \in Options[p.suite] : Field(p, k) = Read(k, plan.options[k])
  BY <1>2 DEF Field
<1>4. \A k \in Options[p.suite] : Field(p, k) # "refused"
  BY <1>1, <1>2, <1>3, ReadAgain
<1>5. "dataset_path" \in Options[p.suite] => Field(p, "dataset_path") # "default"
  BY <1>1, <1>3 DEF Read, Texts
<1>6. Rerunnable(p)
  BY <1>2, <1>4, <1>5 DEF Rerunnable
<1>7. [k \in Options[p.suite] |-> Field(p, k)]
        = [k \in Options[plan.suite] |-> Read(k, plan.options[k])]
  BY <1>3
<1>. QED BY <1>1, <1>6, <1>7 DEF PlanOf, Repeated

\* What a rerun reads from a payload is a request that is accepted.
LEMMA ReadIsAccepted ==
  ASSUME NEW p \in PayloadType, Rerunnable(p)
  PROVE  PlanOf(p) \in Accepted
<1>. DEFINE o == [k \in Options[p.suite] |-> Field(p, k)]
<1>1. \A k \in DOMAIN p.options : p.options[k] \in Values
  BY DEF PayloadType, OptionsKept
<1>2. \A k \in Options[p.suite] : Field(p, k) \in Values
  BY <1>1, ReadAgain, EvalConstants DEF Field
<1>3. p.suite \in Suites /\ \A k \in Options[p.suite] : Field(p, k) # "refused"
  BY DEF Rerunnable
<1>4. o \in [Options[p.suite] -> Values] /\ \A k \in Options[p.suite] : o[k] # "refused"
  BY <1>2, <1>3
<1>5. ASSUME "dataset_path" \in Options[p.suite]
      PROVE  Trimmed[o["dataset_path"]] # "default"
  <2>1. o["dataset_path"] = Field(p, "dataset_path") /\ o["dataset_path"] # "default"
    BY <1>5 DEF Rerunnable
  <2>2. "dataset_path" \in DOMAIN p.options
    BY <2>1 DEF Field
  <2>3. o["dataset_path"] = Trimmed[p.options["dataset_path"]]
    BY <2>1, <2>2 DEF Field, Read, Texts
  <2>. QED BY <1>1, <2>1, <2>2, <2>3, EvalConstants
<1>. HIDE DEF o
<1>6. [suite |-> p.suite, options |-> o] \in Accepted
  BY <1>3, <1>4, <1>5, PlanBuilt
<1>. QED BY <1>6 DEF PlanOf, o

\* Reading twice is reading once.
LEMMA RepeatedAgain ==
  ASSUME NEW plan \in Accepted \cup {NoPlan}
  PROVE  Repeated(Repeated(plan)) = Repeated(plan)
<1>1. CASE plan = NoPlan
  BY <1>1 DEF Repeated
<1>2. CASE plan \in Accepted
  <2>. DEFINE o == [k \in Options[plan.suite] |-> Read(k, plan.options[k])]
              again == [suite |-> plan.suite, options |-> o]
  <2>1. plan \in PlanType /\ plan # NoPlan /\ plan.suite \in Suites
        /\ \A k \in Options[plan.suite] : plan.options[k] \in Values
    BY <1>2, AcceptedShape, PlanShape
  <2>2. o \in [Options[plan.suite] -> Values]
    BY <2>1, ReadAgain
  <2>3. again \in PlanType
    BY <2>1, <2>2 DEF PlanType
  <2>4. again # NoPlan
    BY <2>3, EvalConstants
  <2>5. [k \in Options[plan.suite] |-> Read(k, o[k])] = o
    BY <2>1, ReadAgain
  <2>6. Repeated(plan) = again
    BY <2>1 DEF Repeated
  <2>7. Repeated(again) = [suite |-> plan.suite,
                           options |-> [k \in Options[plan.suite] |-> Read(k, o[k])]]
    BY <2>4 DEF Repeated
  <2>. QED BY <2>5, <2>6, <2>7
<1>. QED BY <1>1, <1>2

\* Nor does a plan change that was read from a payload.
LEMMA PlanReadAgain ==
  ASSUME NEW p \in PayloadType
  PROVE  PlanOf(p) \in Accepted \cup {NoPlan} /\ Repeated(PlanOf(p)) = PlanOf(p)
<1>1. CASE ~ Rerunnable(p)
  BY <1>1 DEF PlanOf, Repeated
<1>2. CASE Rerunnable(p)
  <2>. DEFINE o == [k \in Options[p.suite] |-> Field(p, k)]
              plan == [suite |-> p.suite, options |-> o]
  <2>1. PlanOf(p) = plan /\ PlanOf(p) \in Accepted
    BY <1>2, ReadIsAccepted DEF PlanOf
  <2>2. plan # NoPlan
    BY <2>1, AcceptedShape
  <2>3. \A k \in DOMAIN p.options : p.options[k] \in Values
    BY DEF PayloadType, OptionsKept
  <2>4. \A k \in Options[p.suite] : Read(k, Field(p, k)) = Field(p, k)
    <3>. SUFFICES ASSUME NEW k \in Options[p.suite]
                  PROVE  Read(k, Field(p, k)) = Field(p, k)
      OBVIOUS
    <3>1. CASE k \in DOMAIN p.options
      BY <3>1, <2>3, ReadAgain DEF Field
    <3>2. CASE k \notin DOMAIN p.options
      BY <3>2, EvalConstants DEF Field, Read, Texts
    <3>. QED BY <3>1, <3>2
  <2>5. [k \in Options[p.suite] |-> Read(k, o[k])] = o
    BY <2>4
  <2>6. Repeated(plan) = [suite |-> p.suite,
                          options |-> [k \in Options[p.suite] |-> Read(k, o[k])]]
    BY <2>2 DEF Repeated
  <2>. QED BY <2>1, <2>5, <2>6
<1>. QED BY <1>1, <1>2

\* A plan that may be queued, and what its rerun asks for.
LEMMA ReadsAsAsked ==
  ASSUME IInv, NEW r \in Runs, status[r] # "none", Rerunnable(payload[r])
  PROVE  /\ PlanOf(payload[r]) \in Accepted
         /\ Repeated(PlanOf(payload[r])) = Repeated(asked[r])
<1>1. /\ payload[r] \in PayloadType
      /\ PlanOf(payload[r]) = Repeated(asked[r])
  BY DEF IInv, PlansHeld
<1>. QED BY <1>1, ReadIsAccepted, PlanReadAgain

-----------------------------------------------------------------------------
(***************************************************************************)
(* The steps: queueing a run.                                              *)
(***************************************************************************)
LEMMA QueueStep ==
  ASSUME IInv, NEW h \in Handlers, NEW r \in Runs, NEW plan \in Accepted,
         NEW origin \in Runs \cup {NoRun}, NEW wanted \in Accepted \cup {NoPlan},
         Repeated(plan) = Repeated(wanted),
         ~ Working(h), Queue(h, r, plan, origin, wanted)
  PROVE  IInv'
<1>. USE DEF IInv
<1>1. /\ status[r] = "none" /\ status' = [status EXCEPT ![r] = "running"]
      /\ payload' = [payload EXCEPT ![r] = Kept(plan, origin)]
      /\ handler' = [handler EXCEPT ![h] =
           [IdleHandler EXCEPT !.pc = "suite", !.run = r, !.plan = plan]]
      /\ asked' = [asked EXCEPT ![r] = wanted]
      /\ UNCHANGED <<json, text, mover, losses, made, lost, contested, endedBy>>
  BY DEF Queue, IsNext, files
<1>2. r # NoRun /\ plan \in PlanType /\ wanted \in PlanType \cup {NoPlan} /\ r \notin made
  BY <1>1, AcceptedShape, EvalConstants DEF Runs, MovesAllowed
<1>3. /\ Kept(plan, origin) \in PayloadType
      /\ Kept(plan, origin).suite = plan.suite
      /\ Kept(plan, origin).options = plan.options
      /\ Kept(plan, origin).result = "absent"
      /\ Kept(plan, origin).paths = "absent"
  BY <1>2, KeptType DEF Kept
<1>. DEFINE begun == [IdleHandler EXCEPT !.pc = "suite", !.run = r, !.plan = plan]
<1>4. /\ begun \in HandlerType
      /\ begun.pc = "suite" /\ begun.run = r /\ begun.plan = plan
  BY <1>2 DEF IdleHandler, HandlerType
<1>. HIDE DEF begun
<1>5. /\ handler'[h].pc = "suite" /\ handler'[h].run = r /\ handler'[h].plan = plan
      /\ \A g \in Handlers \ {h} : handler'[g] = handler[g]
  BY <1>1, <1>4 DEF TypeOK, begun
<1>6. TypeOK'
  <2>1. handler' \in [Handlers -> HandlerType]
    BY <1>1, <1>4 DEF TypeOK, begun
  <2>. QED BY <1>1, <1>2, <1>3, <2>1 DEF TypeOK
<1>7. \A q \in Runs : q # r =>
        status'[q] = status[q] /\ payload'[q] = payload[q] /\ asked'[q] = asked[q]
  BY <1>1 DEF TypeOK
<1>8. status'[r] = "running" /\ payload'[r] = Kept(plan, origin) /\ asked'[r] = wanted
  BY <1>1 DEF TypeOK
<1>9. \A g \in Handlers : handler[g].pc # "idle" =>
        handler[g].run \in Runs /\ handler[g].run # r
  BY <1>1 DEF PlansHeld
<1>10. PlansHeld'
  <2>1. PlanOf(Kept(plan, origin)) = Repeated(wanted)
    BY <1>3, ReadsBack
  <2>2. \A q \in Runs : status'[q] # "none" =>
          /\ payload'[q] \in PayloadType
          /\ asked'[q] \in Accepted \cup {NoPlan}
          /\ PlanOf(payload'[q]) = Repeated(asked'[q])
    BY <1>3, <1>7, <1>8, <2>1 DEF PlansHeld
  <2>3. \A g \in Handlers : handler'[g].pc # "idle" =>
          handler'[g].run \in Runs /\ status'[handler'[g].run] # "none"
    BY <1>5, <1>7, <1>8, <1>9 DEF PlansHeld
  <2>4. \A g \in Handlers : handler'[g].pc \notin {"idle", "retry"} =>
          /\ handler'[g].plan \in Accepted
          /\ Repeated(handler'[g].plan) = Repeated(asked'[handler'[g].run])
    BY <1>5, <1>7, <1>8, <1>9 DEF PlansHeld
  <2>. QED BY <2>2, <2>3, <2>4 DEF PlansHeld
<1>11. MovesAllowed'
  BY <1>1, <1>7, <1>8 DEF MovesAllowed, TypeOK
<1>12. \A g \in Handlers : Working(g)' => g = h \/ Working(g)
  BY <1>5 DEF Working
<1>13. \A g \in Handlers : Working(g) => handler[g].run \in Runs \ {r}
  BY <1>9 DEF Working
<1>14. RunsOwned'
  <2>1. "absent" \notin Files
    BY EvalConstants
  <2>2. \A g \in Handlers : Working(g)' =>
          /\ handler'[g].run \notin made'
          /\ payload'[handler'[g].run].result = "absent"
    BY <1>1, <1>2, <1>3, <1>5, <1>7, <1>8, <1>12, <1>13 DEF RunsOwned
  <2>3. \A e, g \in Handlers :
          Working(e)' /\ Working(g)' /\ handler'[e].run = handler'[g].run => e = g
    BY <1>5, <1>12, <1>13 DEF RunsOwned
  <2>4. \A q \in Runs \ made' :
          /\ status'[q] = "running" => payload'[q].result = "absent"
          /\ payload'[q].result = "absent" => payload'[q].paths \notin Files
    BY <1>1, <1>3, <1>7, <1>8, <2>1 DEF RunsOwned
  <2>5. \A g \in Handlers : handler'[g].pc = "complete" =>
          /\ handler'[g].result \in {"passed", "failed"}
          /\ handler'[g].paths \in Files => json'[handler'[g].paths] # NoRun
    BY <1>1, <1>5 DEF RunsOwned
  <2>. QED BY <2>2, <2>3, <2>4, <2>5 DEF RunsOwned
<1>15. VerdictTellsReport'
  BY <1>1, <1>3, <1>7, <1>8 DEF VerdictTellsReport
<1>16. FilesOwned'
  <2>1. \A f \in Files : json[f] # r
    BY <1>1, <1>2 DEF FilesOwned
  <2>2. \A f \in Files : json[f] \in Runs \cup {NoRun}
    BY DEF TypeOK
  <2>3. "absent" \notin Files
    BY EvalConstants
  <2>. QED BY <1>1, <1>2, <1>3, <1>5, <1>7, <1>8, <2>1, <2>2, <2>3 DEF FilesOwned
<1>17. MixedIsCutShort'
  <2>1. \A f \in Files : json[f] # text[f] => json[f] \in Runs \ {r}
    BY <1>1, <1>2 DEF FilesOwned, TypeOK
  <2>. QED BY <1>1, <1>7, <2>1 DEF MixedIsCutShort
<1>. QED BY <1>6, <1>10, <1>11, <1>14, <1>15, <1>16, <1>17

LEMMA AskStep ==
  ASSUME IInv, NEW h \in Handlers, NEW r \in Runs, Ask(h, r)
  PROVE  IInv'
<1>1. PICK plan \in Plans : Queue(h, r, plan, NoRun, plan)
  BY DEF Ask
<1>2. ~ Working(h) /\ plan \in Accepted
  BY EvalConstants DEF Ask, Working
<1>. QED BY <1>1, <1>2, QueueStep

LEMMA RerunStep ==
  ASSUME IInv, NEW h \in Handlers, NEW r \in Runs, Rerun(h, r)
  PROVE  IInv'
<1>1. handler[h].pc = "rerun" /\ ~ Working(h)
  BY DEF Rerun, Working
<1>2. /\ handler[h].run \in Runs /\ handler[h].plan \in Accepted
      /\ Repeated(handler[h].plan) = Repeated(asked[handler[h].run])
      /\ asked[handler[h].run] \in Accepted \cup {NoPlan}
  BY <1>1 DEF IInv, PlansHeld
<1>. QED BY <1>1, <1>2, QueueStep DEF Rerun

\* A run made by hand belongs to no handler, and nobody has written its files.
LEMMA MakeStep ==
  ASSUME IInv, NEW r \in Runs, Make(r)
  PROVE  IInv'
<1>. USE DEF IInv
<1>1. PICK p \in PayloadType :
        payload' = [payload EXCEPT ![r] = p] /\ asked' = [asked EXCEPT ![r] = PlanOf(p)]
  <2>1. PICK d \in Drafts :
          LET p == [suite |-> d.suite, options |-> d.options, origin |-> NoRun,
                    paths |-> d.paths, result |-> d.result] IN
          /\ payload' = [payload EXCEPT ![r] = p]
          /\ asked' = [asked EXCEPT ![r] = PlanOf(p)]
    BY DEF Make
  <2>2. d \in DraftType
    BY EvalConstants
  <2>3. [suite |-> d.suite, options |-> d.options, origin |-> NoRun,
         paths |-> d.paths, result |-> d.result] \in PayloadType
    BY <2>2 DEF DraftType, PayloadType
  <2>. QED BY <2>1, <2>3
<1>2. /\ status[r] = "none" /\ status' = [status EXCEPT ![r] = "queued"]
      /\ made' = made \cup {r}
      /\ UNCHANGED <<json, text, handler, mover, losses, lost, contested, endedBy>>
  BY DEF Make, IsNext, files
<1>3. /\ status'[r] = "queued" /\ payload'[r] = p /\ asked'[r] = PlanOf(p)
      /\ \A q \in Runs \ {r} :
           status'[q] = status[q] /\ payload'[q] = payload[q] /\ asked'[q] = asked[q]
  BY <1>1, <1>2 DEF TypeOK
<1>4. PlanOf(p) \in Accepted \cup {NoPlan} /\ Repeated(PlanOf(p)) = PlanOf(p)
  BY PlanReadAgain
<1>5. TypeOK'
  <2>1. PlanOf(p) \in PlanType \cup {NoPlan}
    BY <1>4, AcceptedShape
  <2>. QED BY <1>1, <1>2, <2>1 DEF TypeOK
<1>6. \A g \in Handlers : handler[g].pc # "idle" => handler[g].run \in Runs \ {r}
  BY <1>2 DEF PlansHeld
<1>7. PlansHeld'
  <2>1. \A q \in Runs : status'[q] # "none" =>
          /\ payload'[q] \in PayloadType
          /\ asked'[q] \in Accepted \cup {NoPlan}
          /\ PlanOf(payload'[q]) = Repeated(asked'[q])
    BY <1>3, <1>4 DEF PlansHeld
  <2>2. \A g \in Handlers : handler'[g].pc # "idle" =>
          handler'[g].run \in Runs /\ status'[handler'[g].run] # "none"
    BY <1>2, <1>3, <1>6 DEF PlansHeld
  <2>3. \A g \in Handlers : handler'[g].pc \notin {"idle", "retry"} =>
          /\ handler'[g].plan \in Accepted
          /\ Repeated(handler'[g].plan) = Repeated(asked'[handler'[g].run])
    BY <1>2, <1>3, <1>6 DEF PlansHeld
  <2>. QED BY <2>1, <2>2, <2>3 DEF PlansHeld
<1>8. MovesAllowed'
  BY <1>2, <1>3 DEF MovesAllowed, TypeOK
<1>9. \A g \in Handlers : Working(g) => handler[g].run \in Runs \ {r}
  BY <1>6 DEF Working
<1>10. RunsOwned'
  BY <1>2, <1>3, <1>9 DEF RunsOwned, Working
<1>11. VerdictTellsReport'
  BY <1>2, <1>3 DEF VerdictTellsReport
<1>12. FilesOwned'
  BY <1>2, <1>3 DEF FilesOwned, TypeOK
<1>13. MixedIsCutShort'
  <2>1. \A f \in Files : json[f] # text[f] => json[f] \in Runs \ {r}
    BY <1>2 DEF FilesOwned, TypeOK
  <2>. QED BY <1>2, <1>3, <2>1 DEF MixedIsCutShort
<1>. QED BY <1>5, <1>7, <1>8, <1>10, <1>11, <1>12, <1>13

-----------------------------------------------------------------------------
(***************************************************************************)
(* The steps that only change a handler which is not running a suite.      *)
(***************************************************************************)
LEMMA OutsideStep ==
  ASSUME IInv, NEW h \in Handlers, NEW n \in HandlerType,
         n.pc \in {"idle", "retry", "rerun"},
         n.pc # "idle" => n.run \in Runs /\ status[n.run] # "none",
         n.pc = "rerun" =>
           n.plan \in Accepted /\ Repeated(n.plan) = Repeated(asked[n.run]),
         handler' = [handler EXCEPT ![h] = n],
         losses' \in 0..MaxLosses, lost' \subseteq Runs,
         UNCHANGED <<rows, files, mover, asked, made, contested, endedBy>>
  PROVE  IInv'
<1>. USE DEF IInv, rows, files
<1>1. handler'[h] = n /\ \A g \in Handlers \ {h} : handler'[g] = handler[g]
  BY DEF TypeOK
<1>2. TypeOK'
  BY DEF TypeOK
<1>3. PlansHeld'
  BY <1>1 DEF PlansHeld
<1>4. \A g \in Handlers : Working(g)' => g # h /\ Working(g)
  BY <1>1 DEF Working
<1>5. RunsOwned'
  BY <1>1, <1>4 DEF RunsOwned
<1>6. MovesAllowed' /\ VerdictTellsReport' /\ MixedIsCutShort'
  BY DEF MovesAllowed, VerdictTellsReport, MixedIsCutShort
<1>7. FilesOwned'
  BY <1>1 DEF FilesOwned
<1>. QED BY <1>2, <1>3, <1>5, <1>6, <1>7

\* What a handler that is done has become.
LEMMA IdleType == IdleHandler \in HandlerType /\ IdleHandler.pc = "idle"
BY DEF IdleHandler, HandlerType

LEMMA RetryStep ==
  ASSUME IInv, NEW h \in Handlers, NEW r \in Runs, Retry(h, r)
  PROVE  IInv'
<1>. DEFINE n == [IdleHandler EXCEPT !.pc = "retry", !.run = r]
<1>1. n \in HandlerType /\ n.pc = "retry" /\ n.run = r
  BY DEF IdleHandler, HandlerType
<1>2. handler' = [handler EXCEPT ![h] = n] /\ status[r] # "none"
  BY DEF Retry
<1>3. losses' \in 0..MaxLosses /\ lost' \subseteq Runs
      /\ UNCHANGED <<rows, files, mover, asked, made, contested, endedBy>>
  BY DEF Retry, history, IInv, TypeOK
<1>. HIDE DEF n
<1>. QED BY <1>1, <1>2, <1>3, OutsideStep

LEMMA RefuseStep ==
  ASSUME IInv, NEW h \in Handlers, Refuse(h)
  PROVE  IInv'
<1>1. losses' \in 0..MaxLosses /\ lost' \subseteq Runs
      /\ UNCHANGED <<rows, files, mover, asked, made, contested, endedBy>>
  BY DEF Refuse, history, IInv, TypeOK
<1>. QED BY <1>1, IdleType, OutsideStep DEF Refuse

LEMMA RereadStep ==
  ASSUME IInv, NEW h \in Handlers, NEW r \in Runs, Reread(h, r)
  PROVE  IInv'
<1>1. status[r] # "none"
  BY DEF Reread, IInv, PlansHeld
<1>2. losses' \in 0..MaxLosses /\ lost' \subseteq Runs
      /\ UNCHANGED <<rows, files, mover, asked, made, contested, endedBy>>
  BY DEF Reread, history, IInv, TypeOK
<1>3. CASE Rerunnable(payload[r])
  <2>. DEFINE n == [IdleHandler EXCEPT !.pc = "rerun", !.run = r, !.plan = PlanOf(payload[r])]
  <2>1. PlanOf(payload[r]) \in Accepted
        /\ Repeated(PlanOf(payload[r])) = Repeated(asked[r])
    BY <1>1, <1>3, ReadsAsAsked
  <2>2. PlanOf(payload[r]) \in PlanType
    BY <2>1, AcceptedShape
  <2>3. /\ n \in HandlerType
        /\ n.pc = "rerun" /\ n.run = r /\ n.plan = PlanOf(payload[r])
    BY <2>2 DEF IdleHandler, HandlerType
  <2>4. handler' = [handler EXCEPT ![h] = n]
    BY <1>3 DEF Reread
  <2>. HIDE DEF n
  <2>. QED BY <1>1, <1>2, <2>1, <2>3, <2>4, OutsideStep
<1>4. CASE ~ Rerunnable(payload[r])
  <2>1. handler' = [handler EXCEPT ![h] = IdleHandler]
    BY <1>4 DEF Reread
  <2>. QED BY <1>2, <2>1, IdleType, OutsideStep
<1>. QED BY <1>3, <1>4

LEMMA LoseTransactionStep ==
  ASSUME IInv, NEW h \in Handlers, LoseTransaction(h)
  PROVE  IInv'
<1>1. handler[h].run \in Runs
  BY DEF LoseTransaction, IInv, PlansHeld
<1>2. lost' \subseteq Runs
  BY <1>1 DEF LoseTransaction, IInv, TypeOK
<1>3. losses' \in 0..MaxLosses
  BY EvalConstants DEF LoseTransaction, IInv, TypeOK
<1>. QED BY <1>2, <1>3, IdleType, OutsideStep DEF LoseTransaction

-----------------------------------------------------------------------------
(***************************************************************************)
(* The end of a suite.                                                     *)
(***************************************************************************)
LEMMA SuiteStep ==
  ASSUME IInv, NEW h \in Handlers, handler[h].pc = "suite",
         NEW p \in {"complete", "fail"}, NEW res \in {"absent", "passed", "failed"},
         p = "complete" => res # "absent",
         NEW paths \in Files \cup {"absent", "null"}, NEW f \in Files,
         To(h, p, res, paths),
         \/ /\ json' = json /\ text' = text
            /\ p = "complete" => paths \notin Files
         \/ /\ json' = [json EXCEPT ![f] = handler[h].run]
            /\ text' = [text EXCEPT ![f] = handler[h].run]
            /\ p = "complete" => paths = f
         \/ /\ p = "fail" /\ text' = text
            /\ json' = [json EXCEPT ![f] = handler[h].run],
         UNCHANGED <<rows, mover, losses, history>>
  PROVE  IInv'
<1>. USE DEF IInv, rows, history
<1>. DEFINE r == handler[h].run
<1>1. r \in Runs /\ status[r] # "none" /\ r # NoRun
  BY EvalConstants DEF PlansHeld, Runs
<1>2. /\ handler'[h].pc = p /\ handler'[h].run = r
      /\ handler'[h].plan = handler[h].plan
      /\ handler'[h].result = res /\ handler'[h].paths = paths
      /\ \A g \in Handlers \ {h} : handler'[g] = handler[g]
  BY DEF To, TypeOK, HandlerType
<1>3. TypeOK'
  <2>1. handler[h] \in HandlerType
    BY DEF TypeOK
  <2>2. handler' = [handler EXCEPT ![h] =
          [handler[h] EXCEPT !.pc = p, !.result = res, !.paths = paths]]
    BY DEF To, TypeOK
  <2>3. [handler[h] EXCEPT !.pc = p, !.result = res, !.paths = paths] \in HandlerType
    BY <2>1 DEF HandlerType
  <2>4. handler' \in [Handlers -> HandlerType]
    BY <2>2, <2>3 DEF TypeOK
  <2>5. json' \in [Files -> Runs \cup {NoRun}] /\ text' \in [Files -> Runs \cup {NoRun}]
    BY <1>1 DEF TypeOK
  <2>. QED BY <2>4, <2>5 DEF TypeOK
<1>4. PlansHeld'
  BY <1>1, <1>2 DEF PlansHeld
<1>5. MovesAllowed' /\ VerdictTellsReport'
  BY DEF MovesAllowed, VerdictTellsReport
<1>6. \A g \in Handlers : Working(g)' <=> Working(g)
  BY <1>2 DEF Working
<1>7. \A e \in Files : json[e] \in Runs \cup {NoRun} /\ json[e] # r
  BY DEF TypeOK, FilesOwned
<1>8. \A g \in Handlers \ {h} :
        handler[g].pc \in {"suite", "complete"} => handler[g].run # r
  BY DEF RunsOwned, Working
<1>9. CASE json' = json /\ text' = text
  <2>1. p = "complete" => paths \notin Files
    BY <1>1, <1>7, <1>9 DEF TypeOK
  <2>2. RunsOwned'
    BY <1>2, <1>6, <1>9, <2>1 DEF RunsOwned
  <2>3. FilesOwned' /\ MixedIsCutShort'
    BY <1>2, <1>7, <1>9 DEF FilesOwned, MixedIsCutShort
  <2>. QED BY <1>3, <1>4, <1>5, <2>2, <2>3
<1>10. CASE /\ json' = [json EXCEPT ![f] = r]
            /\ \/ text' = text /\ p = "fail"
               \/ /\ text' = [text EXCEPT ![f] = r]
                  /\ p = "complete" => paths = f
  <2>1. /\ json'[f] = r /\ \A e \in Files \ {f} : json'[e] = json[e]
        /\ \A e \in Files \ {f} : text'[e] = text[e]
        /\ p = "complete" => paths = f /\ text'[f] = r
    BY <1>10 DEF TypeOK
  <2>2. RunsOwned'
    BY <1>1, <1>2, <1>6, <2>1 DEF RunsOwned
  <2>3. FilesOwned'
    BY <1>1, <1>2, <1>7, <1>8, <2>1 DEF FilesOwned
  <2>4. payload[r].result = "absent"
    BY DEF RunsOwned, Working
  <2>5. MixedIsCutShort'
    BY <2>1, <2>4 DEF MixedIsCutShort
  <2>. QED BY <1>3, <1>4, <1>5, <2>2, <2>3, <2>5
<1>. QED BY <1>9, <1>10

\* A plan that writes a report names a file; there is a file for any plan.
LEMMA PlanFile ==
  ASSUME NEW plan \in Accepted
  PROVE  (Writes(plan) => FileOf(plan) \in Files) /\ \E f \in Files : TRUE
<1>1. plan.suite \in Suites /\ plan.options \in [Options[plan.suite] -> Values]
  BY AcceptedShape, PlanShape
<1>2. ReportFile[plan.suite]["default"] \in Files
  BY <1>1, EvalConstants DEF Files
<1>3. Writes(plan) => plan.options["report_stem"] \in Values
  <2>1. DOMAIN plan.options = Options[plan.suite]
    BY <1>1
  <2>2. Writes(plan) => "report_stem" \in Options[plan.suite]
    BY <1>1, <2>1, EvalConstants DEF Writes
  <2>. QED BY <1>1, <2>2
<1>4. Writes(plan) => ReportFile[plan.suite][plan.options["report_stem"]] \in Files
  BY <1>1, <1>3 DEF Files
<1>. QED BY <1>2, <1>4 DEF FileOf

LEMMA ReportSteps ==
  ASSUME IInv, NEW h \in Handlers,
         SuiteRaises(h) \/ Report(h) \/ ReportWithFiles(h) \/ WriteFails(h)
  PROVE  IInv'
<1>. DEFINE f == FileOf(handler[h].plan)
<1>1. handler[h].pc = "suite"
  BY DEF SuiteRaises, Report, ReportWithFiles, WriteFails
<1>2. handler[h].plan \in Accepted
  BY <1>1 DEF IInv, PlansHeld
<1>3. Writes(handler[h].plan) => f \in Files
  BY <1>2, PlanFile
<1>4. PICK e \in Files : TRUE
  BY <1>2, PlanFile
<1>5. {"absent", "null"} \cap Files = {}
  BY EvalConstants
<1>. HIDE DEF f
<1>6. CASE SuiteRaises(h)
  BY <1>1, <1>4, <1>6, SuiteStep DEF SuiteRaises, files
<1>7. CASE Report(h)
  BY <1>1, <1>4, <1>5, <1>7, SuiteStep DEF Report, files
<1>8. CASE ReportWithFiles(h)
  BY <1>1, <1>3, <1>8, SuiteStep DEF ReportWithFiles, f
<1>9. CASE WriteFails(h)
  BY <1>1, <1>3, <1>9, SuiteStep DEF WriteFails, files, f
<1>. QED BY <1>6, <1>7, <1>8, <1>9

-----------------------------------------------------------------------------
(***************************************************************************)
(* The end of a run.                                                       *)
(***************************************************************************)
LEMMA EndStep ==
  ASSUME IInv, NEW h \in Handlers, NEW v \in {"succeeded", "failed"},
         EndedAs(h, v),
         \/ /\ handler[h].pc = "complete" /\ v = Verdict(handler[h].result)
            /\ payload' = [payload EXCEPT ![handler[h].run] = Completed(h)]
         \/ handler[h].pc = "fail" /\ v = "failed" /\ UNCHANGED payload
  PROVE  IInv'
<1>. USE DEF IInv
<1>. DEFINE r == handler[h].run
<1>1. /\ Working(h) /\ r \in Runs /\ r # NoRun /\ status[r] # "none"
      /\ handler[h].plan \in Accepted
      /\ Repeated(handler[h].plan) = Repeated(asked[r])
  BY EvalConstants DEF PlansHeld, Working, Runs
<1>2. /\ status' = [status EXCEPT ![r] = v]
      /\ handler' = [handler EXCEPT ![h] = IdleHandler]
      /\ endedBy' = [endedBy EXCEPT ![r] = "handler"]
      /\ contested' = contested \cup Unexpected(r, "running")
      /\ UNCHANGED <<json, text, mover, losses, asked, made, lost>>
  BY DEF EndedAs, files
<1>3. /\ handler'[h] = IdleHandler /\ status'[r] = v /\ endedBy'[r] = "handler"
      /\ \A g \in Handlers \ {h} : handler'[g] = handler[g]
      /\ \A q \in Runs \ {r} : status'[q] = status[q] /\ payload'[q] = payload[q]
                                 /\ endedBy'[q] = endedBy[q]
  <2>1. \A q \in Runs \ {r} : payload'[q] = payload[q]
    <3>1. CASE payload' = [payload EXCEPT ![r] = Completed(h)]
      BY <3>1 DEF TypeOK
    <3>2. CASE payload' = payload
      BY <3>2
    <3>. QED BY <3>1, <3>2
  <2>. QED BY <1>1, <1>2, <2>1 DEF TypeOK
<1>4. payload[r].result = "absent" /\ payload[r].paths \notin Files /\ r \notin made
      /\ payload[r] \in PayloadType
  BY <1>1 DEF RunsOwned, PlansHeld
<1>5. handler[h].pc = "complete" =>
        /\ handler[h].result \in {"passed", "failed"}
        /\ payload'[r] \in PayloadType
        /\ payload'[r].result = handler[h].result
        /\ payload'[r].paths = handler[h].paths
        /\ PlanOf(payload'[r]) = Repeated(asked[r])
  <2>1. payload[r].origin \in Runs \cup {NoRun}
    BY <1>4 DEF PayloadType
  <2>2. /\ handler[h].paths \in Files \cup {"absent", "null"}
        /\ handler[h].result \in {"absent", "passed", "failed"}
    BY DEF TypeOK, HandlerType
  <2>. SUFFICES ASSUME handler[h].pc = "complete"
                PROVE  /\ handler[h].result \in {"passed", "failed"}
                       /\ Completed(h) \in PayloadType
                       /\ Completed(h).result = handler[h].result
                       /\ Completed(h).paths = handler[h].paths
                       /\ PlanOf(Completed(h)) = Repeated(asked[r])
    BY <1>1 DEF TypeOK
  <2>3. Completed(h) \in PayloadType
    BY <1>1, <2>1, <2>2, KeptType, AcceptedShape DEF Completed
  <2>4. handler[h].result \in {"passed", "failed"}
    BY DEF RunsOwned
  <2>5. /\ Completed(h).suite = handler[h].plan.suite
        /\ Completed(h).options = handler[h].plan.options
        /\ Completed(h).result = handler[h].result
        /\ Completed(h).paths = handler[h].paths
    BY DEF Completed, Kept
  <2>6. PlanOf(Completed(h)) = Repeated(handler[h].plan)
    BY <1>1, <2>5, ReadsBack
  <2>. QED BY <1>1, <2>3, <2>4, <2>5, <2>6
<1>6. handler[h].pc # "complete" => v = "failed" /\ payload' = payload
  OBVIOUS
<1>7. TypeOK'
  <2>1. payload' \in [Runs -> PayloadType \cup {NoPayload}]
    BY <1>1, <1>5 DEF TypeOK
  <2>2. handler' \in [Handlers -> HandlerType]
    BY <1>2, IdleType DEF TypeOK
  <2>3. contested' \subseteq Runs
    BY <1>1, <1>2 DEF TypeOK, Unexpected
  <2>. QED BY <1>1, <1>2, <2>1, <2>2, <2>3 DEF TypeOK, Ended
<1>8. PlansHeld'
  <2>1. \A q \in Runs : status'[q] # "none" =>
          /\ payload'[q] \in PayloadType
          /\ asked'[q] \in Accepted \cup {NoPlan}
          /\ PlanOf(payload'[q]) = Repeated(asked'[q])
    BY <1>1, <1>2, <1>3, <1>5, <1>6 DEF PlansHeld
  <2>2. \A g \in Handlers : handler'[g].pc # "idle" =>
          handler'[g].run \in Runs /\ status'[handler'[g].run] # "none"
    BY <1>1, <1>3, IdleType DEF PlansHeld
  <2>3. \A g \in Handlers : handler'[g].pc \notin {"idle", "retry"} =>
          /\ handler'[g].plan \in Accepted
          /\ Repeated(handler'[g].plan) = Repeated(asked'[handler'[g].run])
    BY <1>2, <1>3, IdleType DEF PlansHeld
  <2>. QED BY <2>1, <2>2, <2>3 DEF PlansHeld
<1>9. MovesAllowed'
  BY <1>1, <1>2, <1>3 DEF MovesAllowed, TypeOK
<1>10. \A g \in Handlers : Working(g)' =>
        g # h /\ Working(g) /\ handler[g].run \in Runs \ {r}
  BY <1>1, <1>3, IdleType DEF Working, RunsOwned, PlansHeld
<1>11. RunsOwned'
  BY <1>2, <1>3, <1>4, <1>5, <1>6, <1>10, IdleType DEF RunsOwned
<1>12. VerdictTellsReport'
  <2>1. r \notin contested' => status[r] = "running"
    BY <1>2 DEF Unexpected
  <2>2. \A q \in Runs : q \notin contested' => q \notin contested
    BY <1>2
  <2>. QED BY <1>2, <1>3, <1>4, <1>5, <1>6, <2>1, <2>2 DEF VerdictTellsReport, Verdict
<1>13. FilesOwned'
  BY <1>1, <1>2, <1>3, <1>4, <1>5, <1>6, IdleType DEF FilesOwned, RunsOwned, TypeOK
<1>14. MixedIsCutShort'
  <2>1. \A f \in Files : json[f] # text[f] =>
          json[f] \in Runs /\ (handler[h].pc = "complete" => json[f] # r)
    BY DEF FilesOwned, TypeOK
  <2>. QED BY <1>2, <1>3, <1>6, <2>1 DEF MixedIsCutShort
<1>. QED BY <1>7, <1>8, <1>9, <1>11, <1>12, <1>13, <1>14

LEMMA CompleteStep ==
  ASSUME IInv, NEW h \in Handlers, Complete(h) \/ MarkFailed(h)
  PROVE  IInv'
<1>1. CASE Complete(h)
  <2>1. Verdict(handler[h].result) \in {"succeeded", "failed"}
    BY DEF Verdict
  <2>. QED BY <1>1, <2>1, EndStep DEF Complete
<1>2. CASE MarkFailed(h)
  BY <1>2, EndStep DEF MarkFailed
<1>. QED BY <1>1, <1>2

-----------------------------------------------------------------------------
(***************************************************************************)
(* Transitions by hand, and the end of the process.                        *)
(***************************************************************************)
LEMMA IdleMoverType == IdleMover \in MoverType /\ IdleMover.run = NoRun
BY DEF IdleMover, MoverType, Ended

LEMMA DecideStep ==
  ASSUME IInv, NEW m \in Movers, NEW r \in Runs, Decide(m, r)
  PROVE  IInv'
<1>. USE DEF IInv
<1>1. PICK target \in Transitions[status[r]] :
        mover' = [mover EXCEPT ![m] = [run |-> r, from |-> status[r], target |-> target]]
  BY DEF Decide
<1>2. UNCHANGED <<rows, files, handler, losses, history>>
  BY DEF Decide
<1>3. \/ status[r] = "queued" /\ target \in {"running", "cancelled"} /\ r \in made
      \/ status[r] = "running" /\ target \in Ended
  BY <1>1 DEF Transitions, TypeOK, Ended, MovesAllowed
<1>. DEFINE n == [run |-> r, from |-> status[r], target |-> target]
<1>4. n \in MoverType
  BY <1>3 DEF MoverType, Ended
<1>5. TypeOK'
  BY <1>1, <1>2, <1>4 DEF TypeOK, rows, files, history
<1>6. MovesAllowed'
  BY <1>1, <1>2, <1>3 DEF MovesAllowed, TypeOK, rows, history
<1>7. PlansHeld' /\ RunsOwned' /\ VerdictTellsReport' /\ FilesOwned' /\ MixedIsCutShort'
  BY <1>2 DEF PlansHeld, RunsOwned, Working,
              VerdictTellsReport, FilesOwned, MixedIsCutShort, rows, files, history
<1>. QED BY <1>5, <1>6, <1>7

LEMMA MoveStep ==
  ASSUME IInv, NEW m \in Movers, Move(m)
  PROVE  IInv'
<1>. USE DEF IInv
<1>. DEFINE r == mover[m].run
<1>1. r \in Runs /\ status[r] # "none" /\ mover[m].target \in {"running"} \cup Ended
        /\ (r \notin made => mover[m].from = "running" /\ mover[m].target \in Ended)
  BY DEF Move, MovesAllowed, TypeOK, MoverType
<1>2. /\ status' = [status EXCEPT ![r] = mover[m].target]
      /\ endedBy' = [endedBy EXCEPT ![r] = "hand"]
      /\ contested' = contested \cup Unexpected(r, mover[m].from)
      /\ mover' = [mover EXCEPT ![m] = IdleMover]
      /\ UNCHANGED <<payload, json, text, handler, losses, asked, made, lost>>
  BY <1>1 DEF Move, files
<1>3. /\ status'[r] = mover[m].target /\ endedBy'[r] = "hand"
      /\ \A q \in Runs \ {r} : status'[q] = status[q] /\ endedBy'[q] = endedBy[q]
  BY <1>1, <1>2 DEF TypeOK
<1>4. \A q \in Runs : status'[q] = "none" <=> status[q] = "none"
  BY <1>1, <1>3 DEF Ended
<1>5. TypeOK'
  <2>1. contested' \subseteq Runs
    BY <1>1, <1>2 DEF TypeOK, Unexpected
  <2>. QED BY <1>1, <1>2, <2>1, IdleMoverType DEF TypeOK
<1>6. PlansHeld'
  BY <1>2, <1>4 DEF PlansHeld
<1>7. MovesAllowed'
  <2>1. \A n \in Movers : mover'[n].run # NoRun =>
          mover'[n] = mover[n] /\ mover[n].run \in Runs
    BY <1>2, IdleMoverType DEF TypeOK, MoverType
  <2>2. \A q \in Runs : status'[q] = "queued" => status[q] = "queued"
    BY <1>1, <1>3 DEF Ended
  <2>. QED BY <1>2, <1>4, <2>1, <2>2 DEF MovesAllowed, TypeOK
<1>8. RunsOwned'
  BY <1>1, <1>2, <1>3 DEF RunsOwned, Working, Ended
<1>9. VerdictTellsReport'
  <2>1. r \notin made \cup contested' => status[r] = "running" /\ payload[r].result = "absent"
    BY <1>1, <1>2 DEF Unexpected, RunsOwned
  <2>2. \A q \in Runs : q \notin contested' => q \notin contested
    BY <1>2
  <2>. QED BY <1>2, <1>3, <2>1, <2>2 DEF VerdictTellsReport
<1>10. FilesOwned' /\ MixedIsCutShort'
  BY <1>2, <1>4 DEF FilesOwned, MixedIsCutShort, TypeOK
<1>. QED BY <1>5, <1>6, <1>7, <1>8, <1>9, <1>10

LEMMA CrashStep ==
  ASSUME IInv, Crash
  PROVE  IInv'
<1>. USE DEF IInv
<1>1. /\ handler' = [h \in Handlers |-> IdleHandler]
      /\ mover' = [m \in Movers |-> IdleMover]
      /\ UNCHANGED <<status, payload, text, asked, made, contested, endedBy>>
  BY DEF Crash, rows
<1>2. lost' \subseteq Runs
  BY DEF Crash, Working, PlansHeld, TypeOK
<1>3. losses' \in 0..MaxLosses
  BY EvalConstants DEF Crash, TypeOK
<1>4. \/ json' = json
      \/ \E f \in Files, r \in Runs :
           /\ json' = [json EXCEPT ![f] = r]
           /\ status[r] # "none" /\ payload[r].result = "absent"
  <2>1. CASE json' = json
    BY <2>1
  <2>2. CASE json' # json
    <3>1. PICK h \in Handlers :
            /\ handler[h].pc = "suite" /\ Writes(handler[h].plan)
            /\ json' = [json EXCEPT ![FileOf(handler[h].plan)] = handler[h].run]
      BY <2>2 DEF Crash
    <3>2. handler[h].run \in Runs /\ status[handler[h].run] # "none"
            /\ handler[h].plan \in Accepted /\ payload[handler[h].run].result = "absent"
      BY <3>1 DEF PlansHeld, RunsOwned, Working
    <3>3. FileOf(handler[h].plan) \in Files
      BY <3>1, <3>2, PlanFile
    <3>. QED BY <3>1, <3>2, <3>3
  <2>. QED BY <2>1, <2>2
<1>5. TypeOK'
  <2>1. json' \in [Files -> Runs \cup {NoRun}]
    BY <1>4 DEF TypeOK
  <2>2. handler' \in [Handlers -> HandlerType]
    BY <1>1, IdleType
  <2>3. mover' \in [Movers -> MoverType]
    BY <1>1, IdleMoverType
  <2>. QED BY <1>1, <1>2, <1>3, <2>1, <2>2, <2>3 DEF TypeOK
<1>6. PlansHeld'
  BY <1>1, IdleType DEF PlansHeld
<1>7. MovesAllowed' /\ RunsOwned' /\ VerdictTellsReport'
  BY <1>1, IdleType, IdleMoverType DEF MovesAllowed, RunsOwned, Working, VerdictTellsReport
<1>8. FilesOwned' /\ MixedIsCutShort'
  <2>1. CASE json' = json
    BY <2>1, <1>1, IdleType DEF FilesOwned, MixedIsCutShort
  <2>2. CASE json' # json
    <3>1. PICK f \in Files, r \in Runs :
            /\ json' = [json EXCEPT ![f] = r]
            /\ status[r] # "none" /\ payload[r].result = "absent"
      BY <2>2, <1>4
    <3>2. r # NoRun
      BY EvalConstants DEF Runs
    <3>3. json'[f] = r /\ \A e \in Files \ {f} : json'[e] = json[e]
      BY <3>1 DEF TypeOK
    <3>. QED BY <1>1, <3>1, <3>2, <3>3, IdleType DEF FilesOwned, MixedIsCutShort
  <2>. QED BY <2>1, <2>2
<1>. QED BY <1>5, <1>6, <1>7, <1>8

-----------------------------------------------------------------------------
LEMMA Initially == Init => IInv
<1>. SUFFICES ASSUME Init
              PROVE  IInv
  OBVIOUS
<1>1. TypeOK
  <2>1. handler \in [Handlers -> HandlerType]
    BY IdleType DEF Init
  <2>2. mover \in [Movers -> MoverType]
    BY IdleMoverType DEF Init
  <2>. QED BY <2>1, <2>2, EvalConstants DEF Init, TypeOK
<1>2. PlansHeld /\ MovesAllowed /\ RunsOwned
  <2>1. NoPayload.paths \notin Files /\ NoPayload.result = "absent"
    BY EvalConstants DEF NoPayload
  <2>. QED BY <2>1, IdleType, IdleMoverType DEF Init, PlansHeld, MovesAllowed, RunsOwned, Working
<1>3. VerdictTellsReport /\ MixedIsCutShort
  BY DEF Init, NoPayload, VerdictTellsReport, MixedIsCutShort
<1>4. FilesOwned
  <2>1. NoPayload.paths \notin Files
    BY EvalConstants DEF NoPayload
  <2>. QED BY <2>1, IdleType DEF Init, FilesOwned
<1>. QED BY <1>1, <1>2, <1>3, <1>4 DEF IInv

LEMMA Step == IInv /\ [Next]_vars => IInv'
<1>. SUFFICES ASSUME IInv, [Next]_vars
              PROVE  IInv'
  OBVIOUS
<1>1. CASE UNCHANGED vars
  BY <1>1 DEF vars, rows, files, history, IInv, TypeOK, PlansHeld,
              MovesAllowed, RunsOwned, Working, VerdictTellsReport, FilesOwned,
              MixedIsCutShort
<1>2. ASSUME NEW h \in Handlers, Finish(h)
      PROVE  IInv'
  BY <1>2, ReportSteps, CompleteStep DEF Finish
<1>3. ASSUME NEW h \in Handlers, Refuse(h) \/ LoseTransaction(h)
      PROVE  IInv'
  BY <1>3, RefuseStep, LoseTransactionStep
<1>4. ASSUME NEW h \in Handlers, NEW r \in Runs,
             Ask(h, r) \/ Retry(h, r) \/ Reread(h, r) \/ Rerun(h, r)
      PROVE  IInv'
  BY <1>4, AskStep, RetryStep, RereadStep, RerunStep
<1>5. ASSUME NEW m \in Movers, Move(m) \/ \E r \in Runs : Decide(m, r)
      PROVE  IInv'
  BY <1>5, MoveStep, DecideStep
<1>. QED BY <1>1, <1>2, <1>3, <1>4, <1>5, MakeStep, CrashStep DEF Next

LEMMA Invariance == Spec => []IInv
BY Initially, Step, PTL DEF Spec

\* Rows, files and calls keep their types; a handler holds a plan of a suite that
\* exists.
THEOREM TypeCorrect == Spec => []TypeOK
<1>1. IInv => TypeOK
  BY DEF IInv
<1>. QED BY <1>1, Invariance, PTL

\* A run says what the first run of its chain was asked for, as far as a rerun
\* reads it: for any number of reruns and retries, however the runs in between
\* ended, and for chains that begin with a run made by hand.
THEOREM PlansAreKept == Spec => []PlanKept
<1>1. IInv => PlanKept
  BY DEF IInv, PlansHeld, PlanKept
<1>. QED BY <1>1, Invariance, PTL

\* The status of a run tells its report, unless a handler or a transition wrote
\* it over a status that had changed meanwhile.
THEOREM VerdictsTellReports == Spec => []VerdictTellsReport
<1>1. IInv => VerdictTellsReport
  BY DEF IInv
<1>. QED BY <1>1, Invariance, PTL

\* The files of a completed run are there and of one run, unless the run that
\* wrote the .json last has not completed.
THEOREM ReportsAreWhole == Spec => []ReportIsWhole
<1>1. IInv => ReportIsWhole
  <2>. SUFFICES ASSUME IInv, NEW r \in Runs \ made, payload[r].paths \in Files
                PROVE  LET f == payload[r].paths IN
                       /\ json[f] \in Runs
                       /\ payload[json[f]].result # "absent" => text[f] = json[f]
    BY DEF ReportIsWhole
  <2>. QED BY DEF IInv, TypeOK, FilesOwned, MixedIsCutShort
<1>. QED BY <1>1, Invariance, PTL

=============================================================================
