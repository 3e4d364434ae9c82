--------------------------- MODULE ImageMcpProofs ---------------------------
(***************************************************************************)
(* The safety of ImageMcp for any number of processes, calls, ids and      *)
(* output files.  The inductive invariant says of each stage of a call     *)
(* what it has submitted, which answer is under way and whose its file is; *)
(* a step touches one call and at most the file at its path, which nobody  *)
(* else owns.                                                              *)
(***************************************************************************)
EXTENDS ImageMcp, TLAPS

Before == {"unsent", "refusing", "loading", "probing", "placing"}
Holding == {"reserved", "fetching", "reading", "writing", "syncing", "closing", "unlinking"}
Submitted == {"fetching", "reading", "writing", "syncing"}
AfterRequest == {"interrupted", "rejected", "uncertain", "image", "internal", "saved"}

\* What a call has done and will say.
CallOK(c) ==
    /\ call[c].posts \in {0, 1}
    /\ call[c].stage \in Before \cup {"reserved"} => call[c].posts = 0
    /\ call[c].stage \in Submitted => call[c].posts = 1
    /\ call[c].stage \in {"closing", "unlinking"} => call[c].outcome \in AfterRequest
    /\ call[c].stage = "unlinking" => call[c].outcome # "saved"
    /\ call[c].stage \in {"closing", "done"} /\ call[c].outcome = "saved" => call[c].posts = 1
    /\ call[c].stage = "done" /\ call[c].outcome \in Unsubmitted => call[c].posts = 0
    /\ call[c].answers = IF call[c].stage = "done" THEN 1 ELSE 0
    /\ InProgress(c) => call[c].server \in Servers

\* What a call owns.
FileOK(c) ==
    /\ \A p \in Paths : file[p].by = c => p = call[c].path
    /\ call[c].stage \in Before => file[call[c].path].by # c
    /\ call[c].stage \in Holding => file[call[c].path].by = c
    /\ \/ call[c].stage = "syncing"
       \/ call[c].stage \in {"closing", "done"} /\ call[c].outcome = "saved"
       => file[call[c].path] = [is |-> "whole", by |-> c]
    /\ call[c].stage = "done" /\ (sound \/ call[c].outcome \in Unsubmitted)
         /\ call[c].outcome # "saved" => file[call[c].path].by # c

\* A process that does not run knows no calls.
DownKnowsNone ==
    \A s \in Servers : ~server[s].up => \A i \in Ids : server[s].active[i] = None

IInv ==
    /\ TypeOK /\ Cancellable /\ DownKnowsNone
    /\ \A c \in Calls : CallOK(c) /\ FileOK(c)

-----------------------------------------------------------------------------
LEMMA InitIInv == Init => IInv
<1>. SUFFICES ASSUME Init PROVE IInv
  OBVIOUS
<1>1. TypeOK
  <2>1. server \in [Servers -> Server] /\ file \in [Paths -> File] /\ sound \in BOOLEAN
    BY DEF Init, Server, File, NoFile, Fresh
  <2>2. ASSUME NEW c \in Calls PROVE call[c] \in Call
    <3>1. PICK i \in Ids, p \in Paths, t \in {"get_status", "generate_image"} :
            call[c] = [stage |-> "unsent", server |-> None, id |-> i, path |-> p,
                       tool |-> t, aborted |-> FALSE, posts |-> 0, outcome |-> None,
                       answers |-> 0]
      BY DEF Init
    <3>. QED BY <3>1 DEF Call, Stages
  <2>3. call \in [Calls -> Call]
    BY <2>2 DEF Init
  <2>. QED BY <2>1, <2>3 DEF TypeOK
<1>2. Cancellable /\ DownKnowsNone
  BY NoneAssumption DEF Init, Cancellable, DownKnowsNone, InProgress, Fresh
<1>3. ASSUME NEW c \in Calls PROVE CallOK(c) /\ FileOK(c)
  BY NoneAssumption DEF Init, CallOK, FileOK, InProgress, Before, Holding, Submitted, NoFile
<1>. QED BY <1>1, <1>2, <1>3 DEF IInv

-----------------------------------------------------------------------------
(* Steps of one call *)

\* A step of c writes to no file, or to one that is nobody's or its own.
OwnFileOnly(c) ==
    \/ file' = file
    \/ /\ file[call[c].path].by \in {None, c}
       /\ \E x \in File : x.by \in {None, c} /\ file' = [file EXCEPT ![call[c].path] = x]

\* The calls that a step is not of keep what they have.
LEMMA OthersKeep ==
    ASSUME IInv, NEW c \in Calls, sound' = sound, OwnFileOnly(c),
           \A d \in Calls \ {c} : call'[d] = call[d]
    PROVE  \A d \in Calls \ {c} : CallOK(d)' /\ FileOK(d)'
<1>. SUFFICES ASSUME NEW d \in Calls \ {c} PROVE CallOK(d)' /\ FileOK(d)'
  OBVIOUS
<1>0. call'[d] = call[d] /\ CallOK(d) /\ FileOK(d) /\ d # None
  BY NoneAssumption DEF IInv
<1>1. CallOK(d)'
  BY <1>0 DEF CallOK, InProgress
<1>2. call[c].path \in Paths /\ call[d].path \in Paths /\ file \in [Paths -> File]
  BY DEF IInv, TypeOK, Call
<1>3. CASE file' = file
  BY <1>0, <1>1, <1>3 DEF FileOK
<1>4. CASE /\ file[call[c].path].by \in {None, c}
           /\ \E x \in File : x.by \in {None, c} /\ file' = [file EXCEPT ![call[c].path] = x]
  <2>1. PICK x \in File : x.by \in {None, c} /\ file' = [file EXCEPT ![call[c].path] = x]
    BY <1>4
  <2>2. \A p \in Paths : file[p].by = d => file'[p] = file[p]
    BY <1>0, <1>2, <1>4, <2>1
  <2>3. \A p \in Paths : file'[p].by = d => file[p].by = d
    BY <1>0, <1>2, <2>1
  <2>. QED BY <1>0, <1>1, <1>2, <2>2, <2>3 DEF FileOK
<1>. QED BY <1>3, <1>4 DEF OwnFileOnly

LEMMA FilesTyped == ASSUME IInv, NEW c \in Calls, OwnFileOnly(c) PROVE file' \in [Paths -> File]
BY DEF IInv, TypeOK, OwnFileOnly

\* A call in progress that goes on stays in the table.
LEMMA StaysInTable ==
    ASSUME IInv, NEW c \in Calls, call' \in [Calls -> Call],
           \A d \in Calls \ {c} : call'[d] = call[d],
           call'[c].id = call[c].id, call'[c].server = call[c].server,
           InProgress(c) <=> InProgress(c)', UNCHANGED server
    PROVE  Cancellable' /\ DownKnowsNone'
<1>1. ASSUME NEW s \in Servers, NEW d \in Calls
      PROVE  (server'[s].active[call'[d].id] = d) <=> (InProgress(d)' /\ call'[d].server = s)
  <2>1. (server[s].active[call[d].id] = d) <=> (InProgress(d) /\ call[d].server = s)
    BY DEF IInv, Cancellable
  <2>2. /\ call'[d].id = call[d].id /\ call'[d].server = call[d].server
        /\ InProgress(d) <=> InProgress(d)'
    BY DEF InProgress
  <2>. QED BY <2>1, <2>2
<1>2. DownKnowsNone'
  BY DEF IInv, DownKnowsNone
<1>. QED BY <1>1, <1>2 DEF Cancellable

LEMMA GoesKeeps ==
    ASSUME IInv, NEW c \in Calls, InProgress(c), sound' = sound, OwnFileOnly(c),
           NEW stage \in Stages \ {"unsent", "done", "lost"},
           NEW outcome \in Outcomes \cup {None}, Goes(c, stage, outcome)
    PROVE  /\ call'[c] = [call[c] EXCEPT !.stage = stage, !.outcome = outcome]
           /\ CallOK(c)' /\ FileOK(c)' => IInv'
<1>1. /\ call \in [Calls -> Call] /\ call[c] \in Call /\ stage \in Stages
      /\ call'[c] = [call[c] EXCEPT !.stage = stage, !.outcome = outcome]
      /\ \A d \in Calls \ {c} : call'[d] = call[d]
      /\ DOMAIN call' = Calls /\ call' = [d \in Calls |-> call'[d]]
  BY DEF IInv, TypeOK, Goes
<1>2. call'[c] \in Call
  BY <1>1 DEF Call
<1>3. call' \in [Calls -> Call]
  BY <1>1, <1>2
<1>4. call'[c].id = call[c].id /\ call'[c].server = call[c].server /\ call'[c].stage = stage
  BY <1>1 DEF Call
<1>5. Cancellable' /\ DownKnowsNone'
  BY <1>1, <1>3, <1>4, StaysInTable DEF Goes, InProgress
<1>6. TypeOK'
  BY <1>3, FilesTyped DEF IInv, TypeOK, Goes
<1>. QED BY <1>1, <1>5, <1>6, OthersKeep DEF IInv

\* An answered call leaves the table, and no other does.
LEMMA AnswerKeeps ==
    ASSUME IInv, NEW c \in Calls, InProgress(c), sound' = sound, OwnFileOnly(c),
           NEW outcome \in Outcomes, Answer(c, outcome)
    PROVE  /\ call'[c] = [call[c] EXCEPT !.stage = "done", !.outcome = outcome,
                                         !.answers = call[c].answers + 1]
           /\ CallOK(c)' /\ FileOK(c)' => IInv'
<1>. DEFINE s == call[c].server
            i == call[c].id
<1>1. /\ s \in Servers /\ i \in Ids /\ server[s].active[i] = c
      /\ server \in [Servers -> Server] /\ call \in [Calls -> Call]
  BY DEF IInv, CallOK, TypeOK, Call, Cancellable
<1>2. TypeOK'
  BY <1>1, FilesTyped DEF IInv, TypeOK, Call, Server, Answer, Stages
<1>3. \A d \in Calls \ {c} : call'[d] = call[d] /\ (InProgress(d)' <=> InProgress(d))
  BY <1>1 DEF Answer, InProgress
<1>4. /\ call'[c].id = i /\ call'[c].server = s /\ ~InProgress(c)'
      /\ call'[c] = [call[c] EXCEPT !.stage = "done", !.outcome = outcome,
                                         !.answers = call[c].answers + 1]
  BY <1>1 DEF Answer, InProgress, Call
<1>5. \A t \in Servers, j \in Ids :
        server'[t].active[j] = IF t = s /\ j = i THEN None ELSE server[t].active[j]
  BY <1>1 DEF Answer, Server
<1>6. \A t \in Servers : server'[t].up = server[t].up
  BY <1>1 DEF Answer, Server
<1>7. DownKnowsNone'
  BY <1>5, <1>6 DEF IInv, DownKnowsNone
<1>8. ASSUME NEW t \in Servers, NEW d \in Calls
      PROVE  (server'[t].active[call'[d].id] = d) <=> (InProgress(d)' /\ call'[d].server = t)
  <2>1. CASE d = c
    <3>1. server'[t].active[i] = IF t = s THEN None ELSE server[t].active[i]
      BY <1>1, <1>5
    <3>2. server[t].active[i] = c => t = s
      BY DEF IInv, Cancellable
    <3>3. server'[t].active[i] # c
      BY <3>1, <3>2, NoneAssumption
    <3>. QED BY <1>4, <2>1, <3>3
  <2>2. CASE d # c
    <3>1. call'[d] = call[d] /\ call[d].id \in Ids
      BY <1>1, <1>3, <2>2 DEF Call
    <3>2. server[t].active[call[d].id] = d <=> InProgress(d) /\ call[d].server = t
      BY DEF IInv, Cancellable
    <3>3. server'[t].active[call[d].id] = d <=> server[t].active[call[d].id] = d
      BY <1>1, <1>5, <2>2, <3>1, NoneAssumption
    <3>. QED BY <1>3, <2>2, <3>1, <3>2, <3>3
  <2>. QED BY <2>1, <2>2
<1>9. Cancellable'
  BY <1>8 DEF Cancellable
<1>. QED BY <1>2, <1>3, <1>4, <1>7, <1>9, OthersKeep DEF IInv

\* What is known of a call before one of its steps.
LEMMA OfCall ==
    ASSUME IInv, NEW c \in Calls
    PROVE  /\ call[c] \in Call /\ call[c].path \in Paths /\ c # None
           /\ file \in [Paths -> File] /\ CallOK(c) /\ FileOK(c)
BY NoneAssumption DEF IInv, TypeOK, Call

\* A call that owns nothing is answered.
LEMMA AnsweredBefore ==
    ASSUME IInv, NEW c \in Calls, call[c].stage \in Before \ {"unsent"}, UNCHANGED <<file, sound>>,
           NEW outcome \in Outcomes \ {"saved"}, Answer(c, outcome)
    PROVE  IInv'
<1>1. InProgress(c) /\ OwnFileOnly(c) /\ outcome \in Outcomes
  BY DEF InProgress, OwnFileOnly, Before
<1>2. /\ call'[c] = [call[c] EXCEPT !.stage = "done", !.outcome = outcome,
                                    !.answers = call[c].answers + 1]
      /\ CallOK(c)' /\ FileOK(c)' => IInv'
  BY <1>1, AnswerKeeps
<1>3. CallOK(c)'
  BY <1>2, OfCall DEF CallOK, Before, Submitted, InProgress, Call
<1>4. FileOK(c)'
  BY <1>2, OfCall DEF FileOK, Before, Holding, Call
<1>. QED BY <1>2, <1>3, <1>4

\* A call that owns its file fails.
LEMMA FailsAfter ==
    ASSUME IInv, NEW c \in Calls, call[c].stage \in Submitted \cup {"reserved"},
           UNCHANGED <<file, sound>>,
           NEW outcome \in AfterRequest \ {"saved"}, Goes(c, "closing", outcome)
    PROVE  IInv'
<1>1. /\ InProgress(c) /\ OwnFileOnly(c) /\ outcome \in Outcomes \cup {None}
      /\ "closing" \in Stages \ {"unsent", "done", "lost"}
  BY DEF InProgress, OwnFileOnly, Submitted, Outcomes, AfterRequest, Stages
<1>2. /\ call'[c] = [call[c] EXCEPT !.stage = "closing", !.outcome = outcome]
      /\ CallOK(c)' /\ FileOK(c)' => IInv'
  BY <1>1, GoesKeeps
<1>3. CallOK(c)'
  BY <1>1, <1>2, OfCall DEF CallOK, Before, Submitted, InProgress, Call
<1>4. FileOK(c)'
  BY <1>2, OfCall DEF FileOK, Before, Holding, Submitted, Call
<1>. QED BY <1>2, <1>3, <1>4

\* A call goes on and leaves the files alone.
LEMMA GoesOn ==
    ASSUME IInv, NEW c \in Calls, UNCHANGED <<file, sound>>,
           NEW stage \in Stages, NEW outcome \in Outcomes \cup {None}, Goes(c, stage, outcome),
           \/ call[c].stage = "loading" /\ stage \in {"probing", "placing"} /\ outcome = None
           \/ call[c].stage = "fetching" /\ stage = "reading" /\ outcome = None
           \/ call[c].stage = "syncing" /\ stage = "closing" /\ outcome = "saved"
           \/ /\ call[c].stage = "closing" /\ stage = "unlinking"
              /\ outcome = call[c].outcome /\ outcome # "saved"
    PROVE  IInv'
<1>1. InProgress(c) /\ OwnFileOnly(c) /\ stage \in Stages \ {"unsent", "done", "lost"}
  BY DEF InProgress, OwnFileOnly
<1>2. /\ call'[c] = [call[c] EXCEPT !.stage = stage, !.outcome = outcome]
      /\ CallOK(c)' /\ FileOK(c)' => IInv'
  BY <1>1, GoesKeeps
<1>3. CallOK(c)'
  BY <1>1, <1>2, OfCall DEF CallOK, Before, Submitted, AfterRequest, InProgress, Call
<1>4. FileOK(c)'
  BY <1>2, OfCall DEF FileOK, Before, Holding, Call
<1>. QED BY <1>2, <1>3, <1>4

\* A call goes on and writes its file, which is nobody's before.
LEMMA GoesWriting ==
    ASSUME IInv, NEW c \in Calls, sound' = sound,
           NEW stage, NEW content, Goes(c, stage, None), Puts(c, content),
           \/ /\ call[c].stage = "placing" /\ file[call[c].path] = NoFile
              /\ stage = "reserved" /\ content = "empty"
           \/ call[c].stage = "reading" /\ stage = "writing" /\ content = "partial"
           \/ call[c].stage = "writing" /\ stage = "syncing" /\ content = "whole"
    PROVE  IInv'
<1>0. [is |-> content, by |-> c] \in File
  BY DEF File
<1>1. /\ InProgress(c) /\ OwnFileOnly(c)
      /\ stage \in Stages \ {"unsent", "done", "lost"} /\ None \in Outcomes \cup {None}
  <2>1. file[call[c].path].by \in {None, c}
    <3>1. CASE call[c].stage \in Holding
      BY <3>1, OfCall DEF FileOK
    <3>2. CASE call[c].stage \notin Holding
      BY <3>2 DEF NoFile, Holding
    <3>. QED BY <3>1, <3>2
  <2>. QED BY <1>0, <2>1 DEF OwnFileOnly, Puts, InProgress, Stages
<1>2. /\ call'[c] = [call[c] EXCEPT !.stage = stage, !.outcome = None]
      /\ CallOK(c)' /\ FileOK(c)' => IInv'
  BY <1>1, GoesKeeps
<1>3. CallOK(c)'
  BY <1>2, OfCall DEF CallOK, Before, Submitted, InProgress, Call, Outcomes, Unsubmitted
<1>4. file'[call[c].path] = [is |-> content, by |-> c]
      /\ \A p \in Paths : p # call[c].path => file'[p] = file[p]
  BY OfCall DEF Puts
<1>5. FileOK(c)'
  BY <1>2, <1>4, OfCall DEF FileOK, Before, Holding, Call
<1>. QED BY <1>2, <1>3, <1>5

\* A call ends that has been to the endpoint, or has given up before.
LEMMA AnsweredAfter ==
    ASSUME IInv, NEW c \in Calls, sound' = sound, NEW outcome, Answer(c, outcome),
           \/ /\ call[c].stage = "closing" /\ file' = file
              /\ \/ ~sound /\ outcome = "internal"
                 \/ call[c].outcome = "saved" /\ outcome = "saved"
           \/ /\ call[c].stage = "unlinking" /\ outcome = call[c].outcome
              /\ \/ file' = [file EXCEPT ![call[c].path] = NoFile]
                 \/ ~sound /\ file' = file
    PROVE  IInv'
<1>1. /\ InProgress(c) /\ call[c].stage \in Holding
      /\ outcome \in AfterRequest /\ outcome \in Outcomes /\ outcome \notin Unsubmitted
  BY OfCall DEF CallOK, InProgress, Holding, AfterRequest, Outcomes, Unsubmitted
<1>2. file[call[c].path].by = c /\ NoFile \in File /\ NoFile.by = None
  BY <1>1, OfCall DEF FileOK, NoFile, File
<1>3. OwnFileOnly(c)
  BY <1>2 DEF OwnFileOnly
<1>4. /\ call'[c] = [call[c] EXCEPT !.stage = "done", !.outcome = outcome,
                                    !.answers = call[c].answers + 1]
      /\ CallOK(c)' /\ FileOK(c)' => IInv'
  BY <1>1, <1>3, AnswerKeeps
<1>5. CallOK(c)'
  BY <1>1, <1>4, OfCall DEF CallOK, Before, Submitted, InProgress, Call
<1>6. FileOK(c)'
  <2>0. /\ call'[c].stage = "done" /\ call'[c].outcome = outcome
        /\ call'[c].path = call[c].path /\ outcome \notin Unsubmitted
    BY <1>1, <1>4, OfCall DEF Call
  <2>1. CASE file' = file
    <3>1. outcome = "saved" => call[c].stage = "closing" /\ call[c].outcome = "saved"
      BY OfCall DEF CallOK
    <3>2. outcome # "saved" => ~sound
      BY <2>1, <1>2, OfCall
    <3>. QED BY <2>0, <2>1, <3>1, <3>2, OfCall DEF FileOK, Before, Holding
  <2>2. CASE file' = [file EXCEPT ![call[c].path] = NoFile]
    BY <1>1, <1>2, <1>4, <2>2, OfCall DEF FileOK, CallOK, Before, Holding, Call
  <2>. QED BY <2>1, <2>2
<1>. QED BY <1>4, <1>5, <1>6

LEMMA SubmitIInv == ASSUME IInv, NEW c \in Calls, Submit(c), sound' = sound PROVE IInv'
<1>1. CASE call[c].aborted
  BY <1>1, FailsAfter DEF Submit, Live, AfterRequest
<1>2. CASE ~call[c].aborted
  <2>1. /\ call'[c] = [call[c] EXCEPT !.stage = "fetching", !.posts = call[c].posts + 1]
        /\ \A d \in Calls \ {c} : call'[d] = call[d]
        /\ call' = [d \in Calls |-> call'[d]] /\ call \in [Calls -> Call]
        /\ UNCHANGED <<server, file>> /\ call[c].stage = "reserved"
    BY <1>2 DEF Submit, Live, IInv, TypeOK
  <2>0. /\ call[c] \in Call /\ call[c].posts = 0 /\ call[c].answers = 0
        /\ call[c].server \in Servers
    BY <2>1, OfCall DEF CallOK, InProgress
  <2>2. /\ call'[c] \in Call /\ call'[c].posts = 1 /\ call'[c].answers = 0
        /\ call'[c].stage = "fetching" /\ call'[c].path = call[c].path
        /\ call'[c].server = call[c].server
    <3>1. call'[c] = [call[c] EXCEPT !.stage = "fetching", !.posts = 1]
      BY <2>0, <2>1
    <3>2. "fetching" \in Stages /\ 1 \in Nat
      BY DEF Stages
    <3>. QED BY <2>0, <3>1, <3>2 DEF Call
  <2>3. call' \in [Calls -> Call]
    BY <2>1, <2>2
  <2>4. CallOK(c)' /\ FileOK(c)'
    <3>1. CallOK(c)'
      BY <2>0, <2>2 DEF CallOK, Before, Submitted, InProgress
    <3>2. FileOK(c)'
      BY <2>1, <2>2, OfCall DEF FileOK, Before, Holding
    <3>. QED BY <3>1, <3>2
  <2>5. call'[c].id = call[c].id /\ call'[c].server = call[c].server
        /\ (InProgress(c) <=> InProgress(c)')
    BY <2>1, OfCall DEF InProgress, Call
  <2>6. Cancellable' /\ DownKnowsNone'
    BY <2>1, <2>3, <2>5, StaysInTable
  <2>7. TypeOK' /\ OwnFileOnly(c)
    BY <2>1, <2>3 DEF IInv, TypeOK, OwnFileOnly
  <2>. QED BY <2>1, <2>4, <2>6, <2>7, OthersKeep DEF IInv
<1>. QED BY <1>1, <1>2

\* Every step of a call, and of the endpoint.
LEMMA CallSteps ==
    ASSUME IInv, NEW c \in Calls, Step(c) \/ Respond(c) \/ BodyEnds(c), sound' = sound
    PROVE  IInv'
<1>0. /\ Unsubmitted \cup {"status", "internal"} \subseteq Outcomes \ {"saved"}
      /\ {"interrupted", "rejected", "uncertain", "image", "internal"}
           \subseteq AfterRequest \ {"saved"}
      /\ AfterRequest \subseteq Outcomes
  BY DEF Unsubmitted, Outcomes, AfterRequest
<1>1. CASE Refuse(c)
  BY <1>0, <1>1, AnsweredBefore DEF Refuse, Live, Before, Unsubmitted
<1>2. CASE LoadConnection(c)
  <2>1. CASE Answer(c, "profile")
    BY <1>0, <1>2, <2>1, AnsweredBefore DEF LoadConnection, Live, Before, Unsubmitted
  <2>2. CASE Goes(c, IF call[c].tool = "get_status" THEN "probing" ELSE "placing", None)
    BY <1>2, <2>2, GoesOn DEF LoadConnection, Live, Stages
  <2>. QED BY <1>2, <2>1, <2>2 DEF LoadConnection
<1>3. CASE Probe(c)
  BY <1>0, <1>3, AnsweredBefore DEF Probe, Live, Before
<1>4. CASE ReserveOutput(c)
  <2>1. CASE \E code \in {"output", "internal"} : Answer(c, code) /\ UNCHANGED file
    BY <1>0, <1>4, <2>1, AnsweredBefore DEF ReserveOutput, Live, Before, Unsubmitted
  <2>2. CASE /\ file[call[c].path] = NoFile
             /\ Goes(c, "reserved", None) /\ Puts(c, "empty")
    BY <1>4, <2>2, GoesWriting DEF ReserveOutput, Live
  <2>. QED BY <1>4, <2>1, <2>2 DEF ReserveOutput
<1>5. CASE Submit(c)
  BY <1>5, SubmitIInv
<1>6. CASE FetchFails(c)
  BY <1>0, <1>6, FailsAfter DEF FetchFails, Live, Submitted
<1>7. CASE Respond(c)
  <2>1. CASE \E code \in {"rejected", "internal"} : Goes(c, "closing", code)
    BY <1>0, <1>7, <2>1, FailsAfter DEF Respond, Live, Submitted
  <2>2. CASE Goes(c, "reading", None)
    BY <1>7, <2>2, GoesOn DEF Respond, Live, Stages
  <2>. QED BY <1>7, <2>1, <2>2 DEF Respond
<1>8. CASE BodyIsCut(c)
  BY <1>0, <1>8, FailsAfter DEF BodyIsCut, Live, Submitted
<1>9. CASE BodyEnds(c)
  <2>1. CASE Goes(c, "closing", "image") /\ UNCHANGED file
    BY <1>0, <1>9, <2>1, FailsAfter DEF BodyEnds, Live, Submitted
  <2>2. CASE Goes(c, "writing", None) /\ Puts(c, "partial")
    BY <1>9, <2>2, GoesWriting DEF BodyEnds, Live
  <2>. QED BY <1>9, <2>1, <2>2 DEF BodyEnds
<1>10. CASE WriteFile(c)
  <2>1. CASE Goes(c, "closing", "internal") /\ UNCHANGED file
    BY <1>0, <1>10, <2>1, FailsAfter DEF WriteFile, Live, Submitted
  <2>2. CASE Goes(c, "syncing", None) /\ Puts(c, "whole")
    BY <1>10, <2>2, GoesWriting DEF WriteFile, Live
  <2>. QED BY <1>10, <2>1, <2>2 DEF WriteFile
<1>11. CASE Sync(c)
  <2>1. CASE Goes(c, "closing", "internal")
    BY <1>0, <1>11, <2>1, FailsAfter DEF Sync, Live, Submitted
  <2>2. CASE Goes(c, "closing", "saved")
    BY <1>0, <1>11, <2>2, GoesOn DEF Sync, Live, Stages, AfterRequest
  <2>. QED BY <1>11, <2>1, <2>2 DEF Sync
<1>12. CASE Close(c)
  <2>1. CASE ~sound /\ Answer(c, "internal")
    BY <1>12, <2>1, AnsweredAfter DEF Close, Live
  <2>2. CASE call[c].outcome = "saved" /\ Answer(c, "saved")
    BY <1>12, <2>2, AnsweredAfter DEF Close, Live
  <2>3. CASE call[c].outcome # "saved" /\ Goes(c, "unlinking", call[c].outcome)
    <3>1. call[c].outcome \in Outcomes \cup {None}
      BY OfCall DEF Call
    <3>. QED BY <1>12, <2>3, <3>1, GoesOn DEF Close, Live, Stages
  <2>. QED BY <1>12, <2>1, <2>2, <2>3 DEF Close
<1>13. CASE Unlink(c)
  BY <1>13, AnsweredAfter DEF Unlink, Live
<1>. QED
  BY <1>1, <1>2, <1>3, <1>4, <1>5, <1>6, <1>7, <1>8, <1>9, <1>10, <1>11, <1>12, <1>13 DEF Step

-----------------------------------------------------------------------------
(* Lines of input, and processes *)

\* What the steps of a process leave of the calls, but for one of its own.
LEMMA Untouched ==
    ASSUME IInv, UNCHANGED <<file, sound>>, NEW c \in Calls,
           call'[c] = call[c] \/ call'[c] = [call[c] EXCEPT !.aborted = TRUE]
    PROVE  /\ CallOK(c)' /\ FileOK(c)' /\ call'[c] \in Call
           /\ call'[c].id = call[c].id /\ call'[c].server = call[c].server
           /\ call'[c].stage = call[c].stage
<1>1. /\ call'[c] \in Call /\ call'[c].id = call[c].id /\ call'[c].server = call[c].server
      /\ call'[c].stage = call[c].stage /\ call'[c].posts = call[c].posts
      /\ call'[c].outcome = call[c].outcome /\ call'[c].path = call[c].path
      /\ call'[c].answers = call[c].answers
  BY OfCall DEF Call
<1>2. CallOK(c)' /\ FileOK(c)'
  BY <1>1, OfCall DEF CallOK, FileOK, InProgress
<1>. QED BY <1>1, <1>2

\* The table of the processes is unchanged, and so are the stages.
LEMMA TableKept ==
    ASSUME IInv, UNCHANGED <<file, sound>>,
           server' \in [Servers -> Server],
           \A s \in Servers : \/ server'[s].active = server[s].active
                             \/ \A i \in Ids : server[s].active[i] = None
                                             /\ server'[s].active[i] = None,
           \A s \in Servers : ~server'[s].up =>
             ~server[s].up \/ \A i \in Ids : server'[s].active[i] = None,
           DOMAIN call' = Calls, call' = [c \in Calls |-> call'[c]],
           \A c \in Calls : call'[c] = call[c] \/ call'[c] = [call[c] EXCEPT !.aborted = TRUE]
    PROVE  IInv'
<1>1. \A c \in Calls : /\ CallOK(c)' /\ FileOK(c)' /\ call'[c] \in Call
                       /\ call'[c].id = call[c].id /\ call'[c].server = call[c].server
                       /\ call'[c].stage = call[c].stage
  BY Untouched
<1>2. \A s \in Servers, i \in Ids : server'[s].active[i] = server[s].active[i]
  OBVIOUS
<1>3. ASSUME NEW s \in Servers, NEW c \in Calls
      PROVE  (server'[s].active[call'[c].id] = c) <=> (InProgress(c)' /\ call'[c].server = s)
  <2>1. (server[s].active[call[c].id] = c) <=> (InProgress(c) /\ call[c].server = s)
    BY DEF IInv, Cancellable
  <2>2. call[c].id \in Ids
    BY OfCall DEF Call
  <2>. QED BY <1>1, <1>2, <2>1, <2>2 DEF InProgress
<1>4. TypeOK'
  BY <1>1 DEF IInv, TypeOK
<1>5. DownKnowsNone'
  BY <1>2 DEF IInv, DownKnowsNone
<1>. QED BY <1>1, <1>3, <1>4, <1>5 DEF IInv, Cancellable

LEMMA LineSteps ==
    ASSUME IInv, NEW s \in Servers, NEW c \in Calls, ToolCall(s, c), sound' = sound
    PROVE  IInv'
<1>0. /\ call \in [Calls -> Call] /\ server \in [Servers -> Server]
      /\ call[c] \in Call /\ call[c].stage = "unsent" /\ ~InProgress(c)
      /\ server[s] \in Server /\ server[s].up
  BY DEF IInv, TypeOK, ToolCall, InProgress, Listening
<1>1. CASE RefuseLine(s, c)
  <2>1. /\ call'[c] = [call[c] EXCEPT !.stage = "done", !.server = s,
                          !.outcome = "refused", !.answers = call[c].answers + 1]
        /\ \A d \in Calls \ {c} : call'[d] = call[d]
        /\ call' = [d \in Calls |-> call'[d]]
        /\ UNCHANGED <<server, file>>
    BY <1>0, <1>1 DEF RefuseLine
  <2>2. /\ call'[c] \in Call /\ call'[c].stage = "done" /\ call'[c].outcome = "refused"
        /\ call'[c].answers = call[c].answers + 1 /\ call'[c].posts = call[c].posts
        /\ call'[c].path = call[c].path /\ call'[c].id = call[c].id
    <3>1. "done" \in Stages /\ "refused" \in Outcomes
      BY DEF Stages, Outcomes, Unsubmitted
    <3>2. call[c].answers + 1 \in Nat /\ s \in Servers \cup {None}
      BY <1>0 DEF Call
    <3>3. call'[c] \in Call
      <4>. DEFINE k == [call[c] EXCEPT !.stage = "done", !.server = s]
      <4>1. k \in Call /\ k.answers = call[c].answers
        BY <1>0, <3>1, <3>2 DEF Call
      <4>2. call'[c] = [k EXCEPT !.outcome = "refused", !.answers = call[c].answers + 1]
        BY <2>1
      <4>. HIDE DEF k
      <4>. QED BY <4>1, <4>2, <3>1, <3>2 DEF Call
    <3>. QED BY <1>0, <2>1, <3>3 DEF Call
  <2>3. CallOK(c)' /\ FileOK(c)'
    <3>1. CallOK(c)'
      BY <1>0, <2>2, OfCall DEF CallOK, Before, Submitted, InProgress
    <3>2. /\ \A p \in Paths : file[p].by = c => p = call[c].path
          /\ file[call[c].path].by # c
      BY <1>0, OfCall DEF FileOK, Before
    <3>3. FileOK(c)'
      BY <2>1, <2>2, <3>2 DEF FileOK, Before, Holding
    <3>. QED BY <3>1, <3>3
  <2>4. TypeOK' /\ OwnFileOnly(c)
    BY <2>1, <2>2 DEF IInv, TypeOK, OwnFileOnly
  <2>5. ASSUME NEW t \in Servers, NEW d \in Calls
        PROVE  (server'[t].active[call'[d].id] = d) <=> (InProgress(d)' /\ call'[d].server = t)
    <3>1. (server[t].active[call[d].id] = d) <=> (InProgress(d) /\ call[d].server = t)
      BY DEF IInv, Cancellable
    <3>2. CASE d = c
      BY <1>0, <2>1, <2>2, <3>1, <3>2 DEF InProgress
    <3>3. CASE d # c
      BY <2>1, <3>1, <3>3 DEF InProgress
    <3>. QED BY <3>2, <3>3
  <2>. QED BY <2>1, <2>3, <2>4, <2>5, OthersKeep DEF IInv, Cancellable, DownKnowsNone
<1>2. ASSUME NEW stage \in {"refusing", "loading"}, Accept(s, c, stage),
             server[s].active[call[c].id] = None
      PROVE  IInv'
  <2>1. /\ call'[c] = [call[c] EXCEPT !.stage = stage, !.server = s]
        /\ \A d \in Calls \ {c} : call'[d] = call[d]
        /\ call' = [d \in Calls |-> call'[d]]
        /\ UNCHANGED file
    BY <1>0, <1>2 DEF Accept
  <2>2. /\ call'[c] \in Call /\ call'[c].stage = stage /\ call'[c].server = s
        /\ call'[c].answers = call[c].answers /\ call'[c].posts = call[c].posts
        /\ call'[c].outcome = call[c].outcome
        /\ call'[c].path = call[c].path /\ call'[c].id = call[c].id
    <3>1. stage \in Stages
      BY DEF Stages
    <3>. QED BY <1>0, <2>1, <3>1 DEF Call
  <2>3. CallOK(c)' /\ FileOK(c)'
    BY <1>0, <2>1, <2>2, OfCall DEF CallOK, FileOK, Before, Holding, Submitted, InProgress
  <2>4. /\ server' \in [Servers -> Server]
        /\ \A t \in Servers : server'[t].up = server[t].up
        /\ \A t \in Servers, i \in Ids : server'[t].active[i] =
             IF t = s /\ i = call[c].id THEN c ELSE server[t].active[i]
    BY <1>0, <1>2 DEF Accept, Server, Call
  <2>5. TypeOK' /\ OwnFileOnly(c)
    BY <2>1, <2>2, <2>4 DEF IInv, TypeOK, OwnFileOnly
  <2>6. ASSUME NEW t \in Servers, NEW d \in Calls
        PROVE  (server'[t].active[call'[d].id] = d) <=> (InProgress(d)' /\ call'[d].server = t)
    <3>1. /\ (server[t].active[call[d].id] = d) <=> (InProgress(d) /\ call[d].server = t)
          /\ call[d].id \in Ids /\ d # None
      BY <1>0, NoneAssumption DEF IInv, Cancellable, Call
    <3>2. CASE d = c
      BY <1>0, <2>2, <2>4, <3>1, <3>2 DEF InProgress
    <3>3. CASE d # c
      BY <1>2, <2>1, <2>4, <3>1, <3>3 DEF InProgress
    <3>. QED BY <3>2, <3>3
  <2>7. DownKnowsNone'
    BY <1>0, <2>4 DEF IInv, DownKnowsNone
  <2>. QED BY <2>1, <2>3, <2>5, <2>6, <2>7, OthersKeep DEF IInv, Cancellable
<1>. QED BY <1>1, <1>2 DEF ToolCall

\* A killed process takes its calls with it.
LEMMA CrashIInv == ASSUME IInv, NEW s \in Servers, Crash(s), sound' = sound PROVE IInv'
<1>0. call \in [Calls -> Call] /\ server \in [Servers -> Server]
  BY DEF IInv, TypeOK
<1>1. /\ server' = [server EXCEPT ![s] = Down] /\ Down \in Server
      /\ \A i \in Ids : Down.active[i] = None
      /\ UNCHANGED file
  BY DEF Crash, Down, Fresh, Server
<1>2. ASSUME NEW c \in Calls
      PROVE  /\ call'[c] \in Call /\ CallOK(c)' /\ FileOK(c)'
             /\ call'[c].id = call[c].id /\ call'[c].server = call[c].server
             /\ InProgress(c)' <=> InProgress(c) /\ call[c].server # s
  <2>1. CASE InProgress(c) /\ call[c].server = s
    <3>1. call'[c] = [call[c] EXCEPT !.stage = "lost"]
      BY <2>1 DEF Crash
    <3>2. /\ call'[c] \in Call /\ call'[c].stage = "lost" /\ call'[c].path = call[c].path
          /\ call'[c].posts = call[c].posts /\ call'[c].answers = call[c].answers
          /\ call'[c].id = call[c].id /\ call'[c].server = call[c].server
      BY <3>1, OfCall DEF Call, Stages
    <3>3. CallOK(c)'
      BY <2>1, <3>2, OfCall DEF CallOK, Before, Submitted, InProgress
    <3>4. FileOK(c)'
      BY <1>1, <3>2, OfCall DEF FileOK, Before, Holding
    <3>. QED BY <2>1, <3>2, <3>3, <3>4 DEF InProgress
  <2>2. CASE ~(InProgress(c) /\ call[c].server = s)
    <3>1. call'[c] = call[c]
      BY <2>2 DEF Crash
    <3>2. CallOK(c)' /\ FileOK(c)'
      BY <1>1, <3>1, OfCall DEF CallOK, FileOK, InProgress
    <3>. QED BY <1>0, <2>2, <3>1, <3>2 DEF InProgress
  <2>. QED BY <2>1, <2>2
<1>3. call' \in [Calls -> Call]
  BY <1>2 DEF Crash
<1>4. ASSUME NEW t \in Servers, NEW c \in Calls
      PROVE  (server'[t].active[call'[c].id] = c) <=> (InProgress(c)' /\ call'[c].server = t)
  <2>1. /\ (server[t].active[call[c].id] = c) <=> (InProgress(c) /\ call[c].server = t)
        /\ call[c].id \in Ids /\ c # None
    BY <1>0, NoneAssumption DEF IInv, Cancellable, Call
  <2>. QED BY <1>0, <1>1, <1>2, <2>1
<1>5. TypeOK' /\ DownKnowsNone'
  BY <1>0, <1>1, <1>3 DEF IInv, TypeOK, DownKnowsNone
<1>. QED BY <1>2, <1>4, <1>5 DEF IInv, Cancellable

LEMMA NextIInv == ASSUME IInv, [Next]_vars PROVE IInv'
<1>0. call \in [Calls -> Call] /\ server \in [Servers -> Server] /\ DownKnowsNone
  BY DEF IInv, TypeOK
<1>1. CASE UNCHANGED vars
  BY <1>1 DEF vars, IInv, TypeOK, Cancellable, DownKnowsNone, CallOK, FileOK, InProgress
<1>2. ASSUME NEW s \in Servers, Initialize(s), sound' = sound PROVE IInv'
  BY <1>0, <1>2, TableKept DEF Initialize, Server
<1>3. ASSUME NEW s \in Servers, InputEnds(s), sound' = sound PROVE IInv'
  BY <1>0, <1>3, TableKept DEF InputEnds, Server
<1>4. ASSUME NEW s \in Servers, InputOverflows(s), sound' = sound PROVE IInv'
  BY <1>0, <1>4, TableKept DEF InputOverflows, Server
<1>5. ASSUME NEW s \in Servers, Exit(s), sound' = sound PROVE IInv'
  BY <1>0, <1>5, TableKept DEF Exit, Server, Down, Fresh
<1>6. ASSUME NEW s \in Servers, Restart(s), sound' = sound PROVE IInv'
  BY <1>0, <1>6, TableKept DEF Restart, Server, Fresh, DownKnowsNone
<1>7. ASSUME NEW s \in Servers, NEW i \in Ids, Cancel(s, i), sound' = sound PROVE IInv'
  BY <1>0, <1>7, TableKept DEF Cancel
<1>. QED BY <1>1, <1>2, <1>3, <1>4, <1>5, <1>6, <1>7, CrashIInv, LineSteps, CallSteps DEF Next

\* The invariant is inductive, for any calls, ids and files.
THEOREM Inductive == Spec => []IInv
<1>. QED BY InitIInv, NextIInv, PTL DEF Spec

-----------------------------------------------------------------------------
(* The safety properties *)

\* Type correctness.
THEOREM TypeCorrect == Spec => []TypeOK
<1>1. IInv => TypeOK
  BY DEF IInv
<1>. QED BY <1>1, Inductive, PTL

\* A notification reaches the one call in progress that has its id.
THEOREM CancellableHolds == Spec => []Cancellable
<1>1. IInv => Cancellable
  BY DEF IInv
<1>. QED BY <1>1, Inductive, PTL

\* A call submits once, and has reserved its output before.
THEOREM SubmissionOwnsFileHolds == Spec => []SubmissionOwnsFile
<1>1. IInv => SubmissionOwnsFile
  <2>. SUFFICES ASSUME IInv, NEW c \in Calls
                PROVE  /\ call[c].posts <= 1
                       /\ InProgress(c) /\ call[c].posts > 0 => file[call[c].path].by = c
    BY DEF SubmissionOwnsFile
  <2>1. call[c].posts \in {0, 1} /\ call[c].stage \in Stages
    BY OfCall DEF CallOK, Call
  <2>2. InProgress(c) /\ call[c].posts > 0 => call[c].stage \in Holding
    BY <2>1, OfCall DEF CallOK, InProgress, Before, Holding, Stages
  <2>3. call[c].stage \in Holding => file[call[c].path].by = c
    BY OfCall DEF FileOK
  <2>. QED BY <2>1, <2>2, <2>3
<1>. QED BY <1>1, Inductive, PTL

\* One answer, and it is true.
THEOREM AnswersAreHonestHolds == Spec => []AnswersAreHonest
<1>1. IInv => AnswersAreHonest
  BY OfCall DEF AnswersAreHonest, CallOK, FileOK, Unsubmitted
<1>. QED BY <1>1, Inductive, PTL

\* What lies in the output directory was announced, or belongs to a call that
\* runs or was killed.
THEOREM NoDebrisHolds == Spec => []NoDebris
<1>1. IInv => NoDebris
  <2>. SUFFICES ASSUME IInv, sound, NEW p \in Paths, NEW c \in Calls, file[p].by = c
                PROVE  \/ InProgress(c) \/ call[c].stage = "lost"
                       \/ file[p].is = "whole" /\ call[c].outcome = "saved"
    BY OfCall DEF NoDebris, IInv, TypeOK, File
  <2>1. p = call[c].path /\ call[c].stage \in Stages /\ call[c].stage \notin {"unsent"}
    BY OfCall DEF FileOK, Call, Before
  <2>2. ASSUME call[c].stage = "done"
        PROVE  file[p].is = "whole" /\ call[c].outcome = "saved"
    <3>1. call[c].outcome # "saved" => file[call[c].path].by # c
      BY <2>2, OfCall DEF FileOK
    <3>2. call[c].outcome = "saved" => file[call[c].path] = [is |-> "whole", by |-> c]
      BY <2>2, OfCall DEF FileOK
    <3>. QED BY <2>1, <3>1, <3>2
  <2>. QED BY <2>1, <2>2 DEF InProgress
<1>. QED BY <1>1, Inductive, PTL

=============================================================================
