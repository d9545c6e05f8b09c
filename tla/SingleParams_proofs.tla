------------------------ MODULE SingleParams_proofs ------------------------
(***************************************************************************)
(* The single-DNN applications write their parameters in place and without *)
(* a lock.  Whatever configurations arrive, and however the two threads    *)
(* interleave, the parameters are typed, and outside of the callback they  *)
(* are those of one configuration, unless a refused one has written.       *)
(*                                                                         *)
(* Main copies the parameters member by member.  Whatever it gets, the     *)
(* messages are right for the copy: Computed follows the call, and what    *)
(* the analyzers compute is the subject of Analyzers_proofs.               *)
(***************************************************************************)
EXTENDS SingleParams, Analyzers_proofs

-----------------------------------------------------------------------------
(* One member.                                                             *)

Places == DOMAIN Members
Params == IF app = "od" THEN SsdParams ELSE ClsParams
Parsed(c) == IF app = "od" THEN SsdParsed(c) ELSE ClsParsed(c)

LEMMA OdMembers ==
  ASSUME app = "od"
  PROVE  /\ Len(Members) = 5 /\ Places = 1..5
         /\ Members[1] = "dnn_output_detections" /\ Members[2] = "max_detections"
         /\ Members[3] = "threshold" /\ Members[4] = "input_width"
         /\ Members[5] = "input_height"
BY DEF Members, SsdMembers, Places

LEMMA ClsMembersAre ==
  ASSUME app = "cls"
  PROVE  /\ Len(Members) = 2 /\ Places = 1..2
         /\ Members[1] = "dnn_output_classes" /\ Members[2] = "max_predictions"
BY DEF Members, ClsMembers, Places

LEMMA Uint16Type ==
  ASSUME NEW v \in Int
  PROVE  uint16(v) \in 0..Word - 1
BY SingleParamsAssumption DEF uint16

\* What is written for a member of the detection parameters has its type.
LEMMA SsdWritten ==
  ASSUME NEW c \in SsdConfigs, NEW p \in SsdParams,
         NEW f \in {"dnn_output_detections", "max_detections", "threshold",
                    "input_width", "input_height"},
         ~Refused(f, c[f])
  PROVE  [p EXCEPT ![f] = SsdValue(f, c[f], p)] \in SsdParams
<1>1. c[f] \in Int \cup {Absent} /\ (f # "threshold" => c[f] \in Int)
  BY SingleParamsAssumption DEF Texts, Refused
<1>2. CASE f = "threshold"
  <2>1. SsdValue(f, c[f], p) \in 0..Unit
    BY <1>2, SingleParamsAssumption, DetectionsAssumption DEF SsdValue
  <2>. QED
    BY <1>2, <2>1 DEF SsdParams
<1>3. CASE f # "threshold"
  <2>1. uint16(c[f]) \in 0..Word - 1 /\ p.dnn_output_detections \in 0..Word - 1
    BY <1>1, <1>3, Uint16Type DEF SsdParams
  <2>2. SsdValue(f, c[f], p) \in 0..Word - 1
    BY <1>3, <2>1 DEF SsdValue, Least
  <2>. QED
    BY <1>3, <2>2 DEF SsdParams
<1>. QED
  BY <1>2, <1>3

LEMMA ClsWritten ==
  ASSUME NEW c \in ClsConfigs, NEW p \in ClsParams,
         NEW f \in {"dnn_output_classes", "max_predictions"},
         ~Refused(f, c[f])
  PROVE  [p EXCEPT ![f] = ClsValue(f, c[f], p)] \in ClsParams
<1>1. c[f] \in Int
  BY SingleParamsAssumption DEF Texts, Refused
<1>2. uint16(c[f]) \in 0..Word - 1 /\ p.dnn_output_classes \in 0..Word - 1
  BY <1>1, Uint16Type DEF ClsParams
<1>3. ClsValue(f, c[f], p) \in 0..Word - 1
  BY <1>2 DEF ClsValue, Least
<1>. QED
  BY <1>3 DEF ClsParams

-----------------------------------------------------------------------------
(* The inductive invariant.                                                *)

\* The types, without those that are Boolean.
Types ==
    /\ app \in {"od", "cls"}
    /\ param \in Params
    /\ evpPc \in 0..Len(Members)
    /\ config \in Configs \cup {None}
    /\ pc \in {"Frame", "Copy", "Analyze", "Sent"}
    /\ copied \subseteq {Members[i] : i \in Places}
    /\ copy \in Params \cup {None}
    /\ inForce \in Configs \cup {None}

\* The callback has a configuration, and main a copy, while they work on one.
AtWork ==
    /\ evpPc > 0 => config \in Configs
    /\ pc = "Copy" => copy \in Params

\* The members before the one that is next are those of the configuration.
Prefix == \A i \in Places : i < evpPc => param[Members[i]] = Parsed(config)[Members[i]]

\* As long as nothing is written the parameters are those in force.
Whole ==
    evpPc <= 1 /\ ~torn =>
        param = IF app = "od"
                THEN IF inForce = None THEN s_ssd_param ELSE SsdParsed(inForce)
                ELSE IF inForce = None THEN s_cls_param ELSE ClsParsed(inForce)

IInv == Types /\ AtWork /\ Prefix /\ Whole

-----------------------------------------------------------------------------
(* The callback writes the next member.                                    *)

\* The first k members of p are those of c.
SsdAgrees(p, c, k) == \A i \in 1..k : p[Members[i]] = SsdParsed(c)[Members[i]]
ClsAgrees(p, c, k) == \A i \in 1..k : p[Members[i]] = ClsParsed(c)[Members[i]]

\* What the callback writes in place is what parsing the whole text gives, because
\* the bound of a maximum is written before the maximum.
LEMMA SsdWritesParsed ==
  ASSUME NEW c \in SsdConfigs, NEW p \in SsdParams, NEW k \in 1..5, app = "od",
         ~Refused(Members[k], c[Members[k]]),
         SsdAgrees(p, c, k - 1),
         NEW q, q = [p EXCEPT ![Members[k]] = SsdValue(Members[k], c[Members[k]], p)]
  PROVE  q \in SsdParams /\ SsdAgrees(q, c, k)
<1>1. Members[k] \in {"dnn_output_detections", "max_detections", "threshold",
                      "input_width", "input_height"}
  BY OdMembers
<1>2. q \in SsdParams
  BY <1>1, SsdWritten
<1>3. k > 1 => p.dnn_output_detections = uint16(c.dnn_output_detections)
  <2>1. k > 1 => p[Members[1]] = SsdParsed(c)[Members[1]]
    BY DEF SsdAgrees
  <2>. QED
    BY <2>1, OdMembers DEF SsdParsed
<1>4. SsdValue(Members[k], c[Members[k]], p) = SsdParsed(c)[Members[k]]
  <2>1. CASE k = 1
    BY <2>1, OdMembers DEF SsdValue, SsdParsed
  <2>2. CASE k = 2
    BY <2>2, <1>3, OdMembers DEF SsdValue, SsdParsed
  <2>3. CASE k = 3
    BY <2>3, OdMembers DEF SsdValue, SsdParsed
  <2>4. CASE k = 4
    BY <2>4, OdMembers DEF SsdValue, SsdParsed
  <2>5. CASE k = 5
    BY <2>5, OdMembers DEF SsdValue, SsdParsed
  <2>. QED
    BY <2>1, <2>2, <2>3, <2>4, <2>5
<1>5. q[Members[k]] = SsdParsed(c)[Members[k]]
  BY <1>1, <1>4 DEF SsdParams
<1>6. ASSUME NEW i \in 1..k - 1
      PROVE  q[Members[i]] = SsdParsed(c)[Members[i]]
  <2>1. Members[i] # Members[k] /\ i \in 1..5
    BY OdMembers
  <2>2. q[Members[i]] = p[Members[i]]
    BY <2>1, OdMembers DEF SsdParams
  <2>. QED
    BY <2>2 DEF SsdAgrees
<1>. QED
  BY <1>2, <1>5, <1>6 DEF SsdAgrees

LEMMA ClsWritesParsed ==
  ASSUME NEW c \in ClsConfigs, NEW p \in ClsParams, NEW k \in 1..2, app = "cls",
         ~Refused(Members[k], c[Members[k]]),
         ClsAgrees(p, c, k - 1),
         NEW q, q = [p EXCEPT ![Members[k]] = ClsValue(Members[k], c[Members[k]], p)]
  PROVE  q \in ClsParams /\ ClsAgrees(q, c, k)
<1>1. Members[k] \in {"dnn_output_classes", "max_predictions"}
  BY ClsMembersAre
<1>2. q \in ClsParams
  BY <1>1, ClsWritten
<1>3. k > 1 => p.dnn_output_classes = uint16(c.dnn_output_classes)
  <2>1. k > 1 => p[Members[1]] = ClsParsed(c)[Members[1]]
    BY DEF ClsAgrees
  <2>. QED
    BY <2>1, ClsMembersAre DEF ClsParsed
<1>4. ClsValue(Members[k], c[Members[k]], p) = ClsParsed(c)[Members[k]]
  <2>1. CASE k = 1
    BY <2>1, ClsMembersAre DEF ClsValue, ClsParsed
  <2>2. CASE k = 2
    BY <2>2, <1>3, ClsMembersAre DEF ClsValue, ClsParsed
  <2>. QED
    BY <2>1, <2>2
<1>5. q[Members[k]] = ClsParsed(c)[Members[k]]
  BY <1>1, <1>4 DEF ClsParams
<1>6. ASSUME NEW i \in 1..k - 1
      PROVE  q[Members[i]] = ClsParsed(c)[Members[i]]
  <2>1. k = 2 /\ i = 1
    OBVIOUS
  <2>2. q[Members[i]] = p[Members[i]]
    BY <2>1, ClsMembersAre DEF ClsParams
  <2>. QED
    BY <2>2 DEF ClsAgrees
<1>. QED
  BY <1>2, <1>5, <1>6 DEF ClsAgrees

LEMMA WritesParsed ==
  ASSUME IInv, evpPc > 0, ~Refused(Members[evpPc], config[Members[evpPc]]),
         param' = [param EXCEPT ![Members[evpPc]] =
                     Written(Members[evpPc], config[Members[evpPc]], param)]
  PROVE  /\ param' \in Params
         /\ \A i \in 1..evpPc : param'[Members[i]] = Parsed(config)[Members[i]]
<1>1. app \in {"od", "cls"} /\ param \in Params /\ config \in Configs
      /\ evpPc \in 1..Len(Members)
  BY OdMembers, ClsMembersAre DEF IInv, Types, AtWork
<1>2. \A i \in 1..evpPc - 1 : param[Members[i]] = Parsed(config)[Members[i]]
  <2>1. 1..evpPc - 1 \subseteq Places /\ \A i \in 1..evpPc - 1 : i < evpPc
    BY <1>1, OdMembers, ClsMembersAre
  <2>. QED
    BY <2>1 DEF IInv, Prefix
<1>3. CASE app = "od"
  <2>1. config \in SsdConfigs /\ param \in SsdParams /\ evpPc \in 1..5
    BY <1>1, <1>3, OdMembers DEF Configs, Params
  <2>2. SsdAgrees(param, config, evpPc - 1)
    BY <1>2, <1>3 DEF Parsed, SsdAgrees
  <2>3. param' = [param EXCEPT ![Members[evpPc]] =
                     SsdValue(Members[evpPc], config[Members[evpPc]], param)]
    BY <1>3 DEF Written
  <2>4. param' \in SsdParams /\ SsdAgrees(param', config, evpPc)
    BY <1>3, <2>1, <2>2, <2>3, SsdWritesParsed
  <2>. QED
    BY <1>3, <2>4 DEF Params, Parsed, SsdAgrees
<1>4. CASE app = "cls"
  <2>1. config \in ClsConfigs /\ param \in ClsParams /\ evpPc \in 1..2
    BY <1>1, <1>4, ClsMembersAre DEF Configs, Params
  <2>2. ClsAgrees(param, config, evpPc - 1)
    BY <1>2, <1>4 DEF Parsed, ClsAgrees
  <2>3. param' = [param EXCEPT ![Members[evpPc]] =
                     ClsValue(Members[evpPc], config[Members[evpPc]], param)]
    BY <1>4 DEF Written
  <2>4. param' \in ClsParams /\ ClsAgrees(param', config, evpPc)
    BY <1>4, <2>1, <2>2, <2>3, ClsWritesParsed
  <2>. QED
    BY <1>4, <2>4 DEF Params, Parsed, ClsAgrees
<1>. QED
  BY <1>1, <1>3, <1>4

\* Parameters that agree in every member are the same.
LEMMA AllMembers ==
  ASSUME app \in {"od", "cls"}, NEW p \in Params, NEW c,
         \A i \in 1..Len(Members) : p[Members[i]] = Parsed(c)[Members[i]]
  PROVE  p = Parsed(c)
<1>1. CASE app = "od"
  <2>1. p = [dnn_output_detections |-> p.dnn_output_detections,
             max_detections |-> p.max_detections, threshold |-> p.threshold,
             input_width |-> p.input_width, input_height |-> p.input_height]
    BY <1>1 DEF Params, SsdParams
  <2>2. \A i \in 1..5 : p[Members[i]] = SsdParsed(c)[Members[i]]
    BY <1>1, OdMembers DEF Parsed
  <2>3. /\ p[Members[1]] = SsdParsed(c)[Members[1]] /\ p[Members[2]] = SsdParsed(c)[Members[2]]
        /\ p[Members[3]] = SsdParsed(c)[Members[3]] /\ p[Members[4]] = SsdParsed(c)[Members[4]]
        /\ p[Members[5]] = SsdParsed(c)[Members[5]]
    BY <2>2
  <2>4. /\ p.dnn_output_detections = SsdParsed(c).dnn_output_detections
        /\ p.max_detections = SsdParsed(c).max_detections
        /\ p.threshold = SsdParsed(c).threshold
        /\ p.input_width = SsdParsed(c).input_width
        /\ p.input_height = SsdParsed(c).input_height
    BY <1>1, <2>3, OdMembers
  <2>. QED
    BY <1>1, <2>1, <2>4 DEF SsdParsed, Parsed
<1>2. CASE app = "cls"
  <2>1. p = [dnn_output_classes |-> p.dnn_output_classes, max_predictions |-> p.max_predictions]
    BY <1>2 DEF Params, ClsParams
  <2>2. \A i \in 1..2 : p[Members[i]] = ClsParsed(c)[Members[i]]
    BY <1>2, ClsMembersAre DEF Parsed
  <2>3. p[Members[1]] = ClsParsed(c)[Members[1]] /\ p[Members[2]] = ClsParsed(c)[Members[2]]
    BY <2>2
  <2>4. /\ p.dnn_output_classes = ClsParsed(c).dnn_output_classes
        /\ p.max_predictions = ClsParsed(c).max_predictions
    BY <1>2, <2>3, ClsMembersAre
  <2>. QED
    BY <1>2, <2>1, <2>4 DEF ClsParsed, Parsed
<1>. QED
  BY <1>1, <1>2

-----------------------------------------------------------------------------
(* Every step keeps the invariant.                                         *)

LEMMA InitIInv == Init => IInv
<1>. SUFFICES ASSUME Init PROVE IInv
  OBVIOUS
<1>1. Len(Members) \in Nat
  BY OdMembers, ClsMembersAre DEF Init
<1>2. Types
  BY <1>1, SingleParamsAssumption DEF Init, Types, Params
<1>3. AtWork /\ Prefix
  <2>1. \A i \in Places : ~(i < 0)
    BY OdMembers, ClsMembersAre DEF Init
  <2>. QED
    BY <2>1 DEF Init, AtWork, Prefix
<1>4. Whole
  BY DEF Init, Whole
<1>. QED
  BY <1>2, <1>3, <1>4 DEF IInv

\* Nothing of the callback changes in a step of the main thread.
LEMMA MainStep ==
  ASSUME IInv, UNCHANGED <<app, evpVars>>,
         pc' \in {"Frame", "Copy", "Analyze", "Sent"},
         copied' \subseteq {Members[i] : i \in Places},
         copy' \in Params \cup {None}, pc' = "Copy" => copy' \in Params
  PROVE  IInv'
<1>1. Members' = Members /\ Places' = Places /\ Params' = Params /\ Configs' = Configs
  BY DEF Members, Places, Params, Configs, evpVars
<1>2. Types' /\ AtWork'
  BY <1>1 DEF IInv, Types, AtWork, evpVars
<1>3. Prefix'
  BY <1>1 DEF IInv, Prefix, Parsed, evpVars
<1>4. Whole'
  BY DEF IInv, Whole, evpVars
<1>. QED
  BY <1>2, <1>3, <1>4 DEF IInv

\* A new configuration: nothing is written yet.
LEMMA ConfigurationCallbackStep == IInv /\ ConfigurationCallback => IInv'
<1>. SUFFICES ASSUME IInv, ConfigurationCallback PROVE IInv'
  OBVIOUS
<1>1. Members' = Members /\ Places' = Places /\ Params' = Params /\ Configs' = Configs
  BY DEF ConfigurationCallback, Members, Places, Params, Configs
<1>2. 1 \in 0..Len(Members) /\ \A i \in Places : ~(i < 1)
  BY OdMembers, ClsMembersAre DEF IInv, Types
<1>3. Types' /\ AtWork'
  BY <1>1, <1>2 DEF IInv, Types, AtWork, ConfigurationCallback, mainVars
<1>4. Prefix'
  BY <1>1, <1>2 DEF ConfigurationCallback, Prefix
<1>5. Whole'
  BY DEF IInv, Whole, ConfigurationCallback
<1>. QED
  BY <1>3, <1>4, <1>5 DEF IInv

\* The configuration is refused, or its next member is written; with the last one it
\* is in force.
LEMMA ParamInitStep == IInv /\ ParamInit => IInv'
<1>. SUFFICES ASSUME IInv, ParamInit PROVE IInv'
  OBVIOUS
<1>. DEFINE f == Members[evpPc]
<1>1. Members' = Members /\ Places' = Places /\ Params' = Params /\ Configs' = Configs
  BY DEF ParamInit, Members, Places, Params, Configs
<1>2. /\ app \in {"od", "cls"} /\ config \in Configs /\ None \notin Configs
      /\ evpPc \in 1..Len(Members) /\ Len(Members) \in {2, 5} /\ Places = 1..Len(Members)
  <2>1. app \in {"od", "cls"} /\ evpPc > 0 /\ config \in Configs /\ evpPc \in 0..Len(Members)
    BY DEF IInv, Types, AtWork, ParamInit
  <2>2. Len(Members) \in {2, 5} /\ Places = 1..Len(Members)
    BY <2>1, OdMembers, ClsMembersAre
  <2>3. None \notin Configs
    BY SingleParamsAssumption DEF Configs
  <2>. QED
    BY <2>1, <2>2, <2>3
<1>3. CASE Refused(f, config[f])
  <2>1. evpPc' = 0 /\ config' = None /\ torn' = (torn \/ evpPc > 1)
        /\ UNCHANGED <<app, param, inForce, pc, copied, copy>>
    BY <1>3 DEF ParamInit, mainVars
  <2>2. Types' /\ AtWork'
    BY <1>1, <1>2, <2>1 DEF IInv, Types, AtWork
  <2>3. Prefix'
    BY <1>1, <1>2, <2>1 DEF Prefix
  <2>4. Whole'
    <3>1. ~torn' => ~torn /\ ~(evpPc > 1)
      BY <2>1, Zenon
    <3>2. ~torn' => ~torn /\ evpPc <= 1
      BY <1>2, <3>1
    <3>. QED
      BY <2>1, <3>2 DEF IInv, Whole
  <2>. QED
    BY <2>2, <2>3, <2>4 DEF IInv
<1>4. CASE ~Refused(f, config[f])
  <2>1. /\ param' = [param EXCEPT ![f] = Written(f, config[f], param)]
        /\ UNCHANGED <<app, pc, copied, copy>>
        /\ \/ /\ evpPc < Len(Members) /\ evpPc' = evpPc + 1
              /\ UNCHANGED <<config, inForce, torn>>
           \/ /\ evpPc = Len(Members) /\ evpPc' = 0
              /\ config' = None /\ inForce' = config /\ torn' = FALSE
    BY <1>4 DEF ParamInit, mainVars
  <2>2. /\ param' \in Params
        /\ \A i \in 1..evpPc : param'[Members[i]] = Parsed(config)[Members[i]]
    BY <1>2, <1>4, <2>1, WritesParsed
  <2>3. CASE evpPc < Len(Members) /\ evpPc' = evpPc + 1 /\ UNCHANGED <<config, inForce, torn>>
    <3>1. Types' /\ AtWork'
      BY <1>1, <1>2, <2>1, <2>2, <2>3 DEF IInv, Types, AtWork
    <3>2. Prefix'
      <4>1. ASSUME NEW i \in Places, i < evpPc + 1
            PROVE  param'[Members[i]] = Parsed(config)[Members[i]]
        BY <1>2, <2>2, <4>1
      <4>2. Parsed(config)' = Parsed(config)
        BY <2>1, <2>3 DEF Parsed
      <4>. QED
        BY <1>1, <2>3, <4>1, <4>2 DEF Prefix
    <3>3. Whole'
      BY <1>2, <2>3 DEF Whole
    <3>. QED
      BY <3>1, <3>2, <3>3 DEF IInv
  <2>4. CASE /\ evpPc = Len(Members) /\ evpPc' = 0
             /\ config' = None /\ inForce' = config /\ torn' = FALSE
    <3>1. Types' /\ AtWork'
      BY <1>1, <1>2, <2>1, <2>2, <2>4 DEF IInv, Types, AtWork
    <3>2. Prefix'
      BY <1>1, <1>2, <2>4 DEF Prefix
    <3>3. param' = Parsed(config)
      BY <1>2, <2>2, <2>4, AllMembers
    <3>4. Whole'
      BY <1>2, <2>1, <2>4, <3>3 DEF Whole, Parsed
    <3>. QED
      BY <3>1, <3>2, <3>4 DEF IInv
  <2>. QED
    BY <2>1, <2>3, <2>4
<1>. QED
  BY <1>3, <1>4

LEMMA GetRawDataStep == IInv /\ GetRawData => IInv'
<1>. SUFFICES ASSUME IInv, GetRawData PROVE IInv'
  OBVIOUS
<1>. QED
  BY MainStep DEF IInv, Types, GetRawData

LEMMA CopyMemberStep == IInv /\ CopyMember => IInv'
<1>. SUFFICES ASSUME IInv, CopyMember PROVE IInv'
  OBVIOUS
<1>1. PICK f \in {Members[i] : i \in Places} \ copied :
        /\ copy' = [copy EXCEPT ![f] = param[f]]
        /\ copied' = copied \cup {f}
        /\ pc' = IF Cardinality(copied') = Len(Members) THEN "Analyze" ELSE "Copy"
  BY DEF CopyMember, Places
<1>2. app \in {"od", "cls"} /\ copy \in Params /\ param \in Params
      /\ copied \subseteq {Members[i] : i \in Places}
  BY DEF IInv, Types, AtWork, CopyMember
<1>3. copy' \in Params
  <2>1. CASE app = "od"
    BY <1>1, <1>2, <2>1, OdMembers DEF Params, SsdParams
  <2>2. CASE app = "cls"
    BY <1>1, <1>2, <2>2, ClsMembersAre DEF Params, ClsParams
  <2>. QED
    BY <1>2, <2>1, <2>2
<1>. QED
  BY <1>1, <1>2, <1>3, MainStep DEF CopyMember

LEMMA AnalysisStep ==
  IInv /\ (PPL_ObjectDetectionSsdAnalyze \/ PPL_ClassificationAnalyze \/ Sent) => IInv'
<1>1. IInv /\ Skip => IInv'
  BY MainStep DEF Skip
<1>2. ASSUME NEW t, NEW m, IInv, Finish(t, m) PROVE IInv'
  BY <1>2, MainStep DEF Finish, IInv, Types
<1>3. IInv /\ PPL_ObjectDetectionSsdAnalyze => IInv'
  BY <1>1, <1>2 DEF PPL_ObjectDetectionSsdAnalyze
<1>4. IInv /\ PPL_ClassificationAnalyze => IInv'
  BY <1>1, <1>2 DEF PPL_ClassificationAnalyze
<1>. QED
  BY <1>1, <1>3, <1>4 DEF Sent

LEMMA StutterStep == IInv /\ UNCHANGED vars => IInv'
BY MainStep DEF vars, mainVars, IInv, Types, AtWork

THEOREM SpecIInv == Spec => []IInv
<1>1. IInv /\ [Next]_vars => IInv'
  BY ConfigurationCallbackStep, ParamInitStep, GetRawDataStep, CopyMemberStep,
     AnalysisStep, StutterStep DEF Next
<1>. QED
  BY InitIInv, <1>1, PTL DEF Spec

-----------------------------------------------------------------------------
(* The call of the analysis.                                               *)

\* The copy of the parameters.  When nobody has written meanwhile it is the structure
\* as it is, and a whole one: no more predictions are wanted than there are classes.
Copied ==
    /\ pc # "Frame" => copy \in Params
    /\ pc = "Copy" /\ quiet => copy = param
    /\ app = "cls" /\ pc # "Frame" /\ quiet => copy.max_predictions <= copy.dnn_output_classes

\* What is sent is the message of a tensor of the size that the copy asks for.
Computed ==
    pc = "Sent" =>
        /\ tensor \in Seq(Int)
        /\ app = "od" =>
             /\ Len(tensor) = DNN_OUTPUT_TENSOR_SIZE(copy.dnn_output_detections)
             /\ output = SsdMessage(analyzeObjectDetectionSsdOutput(
                    createObjectDetectionSsdData(tensor, copy.dnn_output_detections), copy))
        /\ app = "cls" =>
             /\ Len(tensor) = copy.dnn_output_classes
             /\ output = ClsMessage(ClsItems(tensor, copy.max_predictions))

\* A configuration, and the initial values, want no more than there is.
LEMMA WholeIsBounded ==
  ASSUME IInv, app = "cls", evpPc <= 1, ~torn
  PROVE  param.max_predictions <= param.dnn_output_classes
<1>1. param = IF inForce = None THEN s_cls_param ELSE ClsParsed(inForce)
  BY DEF IInv, Whole
<1>2. param \in ClsParams
  BY DEF IInv, Types, Params
<1>3. CASE inForce = None
  BY <1>1, <1>3, SingleParamsAssumption
<1>4. CASE inForce # None
  <2>1. /\ param.max_predictions = Least(uint16(inForce.max_predictions), param.dnn_output_classes)
        /\ inForce \in ClsConfigs
    BY <1>1, <1>4 DEF ClsParsed, IInv, Types, Configs
  <2>2. param.dnn_output_classes \in Int /\ param.max_predictions \in Int
    BY <1>2 DEF ClsParams
  <2>. QED
    BY <2>1, <2>2 DEF Least
<1>. QED
  BY <1>3, <1>4

\* The callback does not touch the call, and what it writes while main copies is marked.
LEMMA CallbackLeavesCall ==
  ASSUME IInv, Copied, Computed, ConfigurationCallback \/ ParamInit
  PROVE  Copied' /\ Computed'
<1>1. UNCHANGED <<app, pc, copied, copy, tensor, output>> /\ Params' = Params
  BY DEF ConfigurationCallback, ParamInit, mainVars, Params
<1>2. quiet' => quiet
  BY Zenon DEF ConfigurationCallback, ParamInit
<1>3. quiet' /\ pc = "Copy" => param' = param
  BY Zenon DEF ConfigurationCallback, ParamInit
<1>4. Copied'
  BY <1>1, <1>2, <1>3 DEF Copied
<1>5. Computed'
  BY <1>1 DEF Computed
<1>. QED
  BY <1>4, <1>5

LEMMA GetRawDataCall ==
  ASSUME IInv, GetRawData
  PROVE  Copied' /\ Computed'
<1>1. pc' = "Copy" /\ copy' = param /\ UNCHANGED <<app, param>> /\ Params' = Params
  BY DEF GetRawData, evpVars, Params
<1>2. quiet' => evpPc <= 1 /\ ~torn
  BY Zenon DEF GetRawData
<1>3. param \in Params /\ (app = "cls" /\ quiet' => param.max_predictions <= param.dnn_output_classes)
  BY <1>2, WholeIsBounded DEF IInv, Types
<1>. QED
  BY <1>1, <1>3 DEF Copied, Computed

LEMMA CopyMemberCall ==
  ASSUME IInv, Copied, CopyMember
  PROVE  Copied' /\ Computed'
<1>1. IInv'
  BY CopyMemberStep
<1>2. PICK f \in {Members[i] : i \in Places} \ copied : copy' = [copy EXCEPT ![f] = param[f]]
  BY DEF CopyMember, Places
<1>3. pc = "Copy" /\ pc' \in {"Copy", "Analyze"} /\ UNCHANGED <<app, param, quiet>>
      /\ Params' = Params
  BY DEF CopyMember, evpVars, Params
<1>4. app \in {"od", "cls"} /\ copy \in Params /\ param \in Params
  BY <1>3 DEF IInv, Types, AtWork
<1>5. copy' \in Params
  <2>1. CASE app = "od"
    BY <1>2, <1>4, <2>1, OdMembers DEF Params, SsdParams
  <2>2. CASE app = "cls"
    BY <1>2, <1>4, <2>2, ClsMembersAre DEF Params, ClsParams
  <2>. QED
    BY <1>4, <2>1, <2>2
<1>6. copy = param => copy' = copy
  <2>1. CASE app = "od"
    BY <1>2, <1>4, <2>1, OdMembers DEF Params, SsdParams
  <2>2. CASE app = "cls"
    BY <1>2, <1>4, <2>2, ClsMembersAre DEF Params, ClsParams
  <2>. QED
    BY <1>4, <2>1, <2>2
<1>7. Copied'
  BY <1>3, <1>5, <1>6 DEF Copied
<1>8. Computed'
  BY <1>3 DEF Computed
<1>. QED
  BY <1>7, <1>8

LEMMA AnalysisCall ==
  ASSUME IInv, Copied, PPL_ObjectDetectionSsdAnalyze \/ PPL_ClassificationAnalyze \/ Sent
  PROVE  Copied' /\ Computed'
<1>1. ASSUME Skip PROVE Copied' /\ Computed'
  BY <1>1 DEF Skip, Copied, Computed
<1>2. ASSUME NEW t, NEW m, Finish(t, m), pc = "Analyze"
      PROVE  /\ Copied' /\ pc' = "Sent" /\ tensor' = t /\ output' = m
             /\ UNCHANGED <<app, copy>>
  <2>1. pc' = "Sent" /\ tensor' = t /\ output' = m /\ UNCHANGED <<app, copy, quiet, param>>
        /\ Params' = Params
    BY <1>2 DEF Finish, evpVars, Params
  <2>. QED
    BY <1>2, <2>1 DEF Copied
<1>3. CASE PPL_ObjectDetectionSsdAnalyze
  <2>. DEFINE message(t) == SsdMessage(analyzeObjectDetectionSsdOutput(
                                createObjectDetectionSsdData(t, copy.dnn_output_detections), copy))
  <2>1. ASSUME NEW t \in SsdTensors, Len(t) = DNN_OUTPUT_TENSOR_SIZE(copy.dnn_output_detections),
               Finish(t, message(t))
        PROVE  Copied' /\ Computed'
    <3>1. t \in Seq(Int)
      BY SingleParamsAssumption
    <3>2. app = "od" /\ pc = "Analyze"
      BY <1>3 DEF PPL_ObjectDetectionSsdAnalyze
    <3>3. Copied' /\ pc' = "Sent" /\ tensor' = t /\ output' = message(t) /\ UNCHANGED <<app, copy>>
      BY <1>2, <2>1, <3>2
    <3>. QED
      BY <2>1, <3>1, <3>2, <3>3 DEF Computed
  <2>. QED
    BY <1>1, <1>3, <2>1 DEF PPL_ObjectDetectionSsdAnalyze
<1>4. CASE PPL_ClassificationAnalyze
  <2>. DEFINE message(t) == ClsMessage(ClsItems(t, copy.max_predictions))
  <2>1. ASSUME NEW t \in ClsTensors, Len(t) = copy.dnn_output_classes, Finish(t, message(t))
        PROVE  Copied' /\ Computed'
    <3>1. t \in Seq(Int)
      BY SingleParamsAssumption
    <3>2. app = "cls" /\ pc = "Analyze"
      BY <1>4 DEF PPL_ClassificationAnalyze
    <3>3. Copied' /\ pc' = "Sent" /\ tensor' = t /\ output' = message(t) /\ UNCHANGED <<app, copy>>
      BY <1>2, <2>1, <3>2
    <3>. QED
      BY <2>1, <3>1, <3>2, <3>3 DEF Computed
  <2>. QED
    BY <1>1, <1>4, <2>1 DEF PPL_ClassificationAnalyze
<1>. QED
  BY <1>1, <1>3, <1>4 DEF Sent

THEOREM SpecCall == Spec => [](IInv /\ Copied /\ Computed)
<1>1. Init => Copied /\ Computed
  BY DEF Init, Copied, Computed
<1>2. IInv /\ Copied /\ Computed /\ UNCHANGED vars => Copied' /\ Computed'
  BY DEF vars, evpVars, mainVars, Copied, Computed, Params
<1>3. IInv /\ Copied /\ Computed /\ [Next]_vars => Copied' /\ Computed'
  BY <1>2, CallbackLeavesCall, GetRawDataCall, CopyMemberCall, AnalysisCall DEF Next
<1>. QED
  BY SpecIInv, <1>1, <1>3, PTL DEF Spec

-----------------------------------------------------------------------------
(* The theorems.                                                           *)

Marks == torn \in BOOLEAN /\ quiet \in BOOLEAN

LEMMA StepMarks == Marks /\ [Next]_vars => Marks'
<1>. SUFFICES ASSUME Marks, [Next]_vars PROVE Marks'
  OBVIOUS
<1>1. CASE ConfigurationCallback
  BY <1>1, Zenon DEF Marks, ConfigurationCallback
<1>2. CASE ParamInit
  <2>1. torn' \in {torn, FALSE} \/ torn' = (torn \/ evpPc > 1)
    BY <1>2, Zenon DEF ParamInit
  <2>2. quiet' = quiet \/ quiet' = (quiet /\ pc # "Copy")
    BY <1>2, Zenon DEF ParamInit
  <2>3. torn' \in BOOLEAN
    BY <2>1, Zenon DEF Marks
  <2>4. quiet' \in BOOLEAN
    BY <2>2, Zenon DEF Marks
  <2>. QED
    BY <2>3, <2>4, Zenon DEF Marks
<1>3. CASE GetRawData
  BY <1>3, Zenon DEF Marks, GetRawData, evpVars
<1>4. CASE CopyMember
  BY <1>4, Zenon DEF Marks, CopyMember, evpVars
<1>5. ASSUME Skip PROVE Marks'
  BY <1>5, Zenon DEF Marks, Skip, evpVars
<1>6. ASSUME NEW t, NEW m, Finish(t, m) PROVE Marks'
  BY <1>6, Zenon DEF Marks, Finish, evpVars
<1>7. CASE PPL_ObjectDetectionSsdAnalyze
  BY <1>5, <1>6, <1>7 DEF PPL_ObjectDetectionSsdAnalyze
<1>8. CASE PPL_ClassificationAnalyze
  BY <1>5, <1>6, <1>8 DEF PPL_ClassificationAnalyze
<1>9. CASE Sent
  BY <1>5, <1>9 DEF Sent
<1>10. CASE UNCHANGED vars
  BY <1>10, Zenon DEF Marks, vars, evpVars
<1>. QED
  BY <1>1, <1>2, <1>3, <1>4, <1>7, <1>8, <1>9, <1>10 DEF Next

\* The parameters, written in place by one thread and copied by the other, keep the
\* ranges of their C types, a maximum and a threshold included.
THEOREM TypeCorrect == Spec => []TypeOK
<1>1. Init => Marks
  BY DEF Init, Marks
<1>2. IInv /\ Marks => TypeOK
  BY DEF IInv, Types, Marks, TypeOK, Params, Places
<1>. QED
  BY SpecIInv, StepMarks, <1>1, <1>2, PTL DEF Spec

\* Whatever configurations arrive, once the callback is through with one that it
\* accepts, every parameter is that of this configuration alone, as the code reads it
\* (see OneConfiguration on maxima and a missing threshold): nothing of an earlier
\* one, nor of a refused one it replaces, is left.
THEOREM ConfigurationWhole == Spec => []OneConfiguration
<1>1. IInv => OneConfiguration
  BY DEF IInv, Whole, OneConfiguration
<1>. QED
  BY SpecIInv, <1>1, PTL

\* What a classification sends when its copy was whole.
LEMMA ClassificationCall ==
  ASSUME IInv, Copied, Computed, app = "cls", pc = "Sent", quiet
  PROVE  ListsBest(output, tensor, copy.max_predictions)
<1>1. copy \in ClsParams /\ copy.max_predictions <= copy.dnn_output_classes
  BY DEF Copied, Params
<1>2. tensor \in Seq(Int) /\ Len(tensor) = copy.dnn_output_classes
      /\ output = ClsMessage(ClsItems(tensor, copy.max_predictions))
  BY DEF Computed
<1>3. copy.max_predictions \in 0..Len(tensor)
  BY <1>1, <1>2 DEF ClsParams
<1>. QED
  BY <1>2, <1>3, BestPredictions DEF ClsMessage, ClsItems

\* Whatever tensors and configurations arrive, a classification reads nothing from
\* behind the scores when its parameters are those of one configuration.
THEOREM ReadsStayInside == Spec => []ReadsInside
<1>1. IInv /\ Copied /\ Computed => ReadsInside
  <2>. SUFFICES ASSUME IInv, Copied, Computed, app = "cls", pc = "Sent", quiet
                PROVE  \A k \in DOMAIN output : output[k] # Garbage
    BY DEF ReadsInside
  <2>. QED
    BY ClassificationCall DEF ListsBest
<1>. QED
  BY SpecCall, <1>1, PTL

\* Then it lists the best classes, for every number of classes and all scores.
THEOREM PredictionsAreRight == Spec => []PredictionsRight
<1>1. IInv /\ Copied /\ Computed => PredictionsRight
  <2>. SUFFICES ASSUME IInv, Copied, Computed, app = "cls", pc = "Sent", quiet
                PROVE  PredictionsRight
    BY DEF PredictionsRight
  <2>. QED
    BY ClassificationCall DEF ListsBest, PredictionsRight
<1>. QED
  BY SpecCall, <1>1, PTL

\* What a detection sends when a uint8_t counts the detections of its tensor.
LEMMA DetectionCall ==
  ASSUME IInv, Copied, Computed, app = "od", pc = "Sent", copy.dnn_output_detections < Byte
  PROVE  DetectionsRight
<1>. DEFINE n == copy.dnn_output_detections
            t == tensor
            out == createDetectionData(t, n)
            num == out.num_of_detections
            likely == {i \in 1..Least(n, uint8(t[6*n + 1])) : t[5*n + i] >= copy.threshold}
            kept == Truncated(Pushed(out.detections, num, likely), copy.max_detections)
            Box(d) == Rect(d, copy.input_width, copy.input_height)
            Object(i) == GeneralObject(uint8(t[4*n + i]),
                [xmin |-> Pixel(t[n + i], copy.input_width),
                 ymin |-> Pixel(t[i], copy.input_height),
                 xmax |-> Pixel(t[3*n + i], copy.input_width),
                 ymax |-> Pixel(t[2*n + i], copy.input_height)], t[5*n + i], FALSE)
<1>1. /\ n \in Nat /\ copy.max_detections \in Nat
      /\ t \in Seq(Int) /\ Len(t) = DNN_OUTPUT_TENSOR_SIZE(n)
      /\ output = SsdMessage(analyzeObjectDetectionSsdOutput(
                     createObjectDetectionSsdData(t, n), copy))
  <2>1. copy \in SsdParams
    BY DEF Copied, Params
  <2>. QED
    BY <2>1 DEF Computed, SsdParams
<1>. HIDE DEF n
<1>2. uint8(n) = n
  <2>1. n \in 0..Byte - 1
    BY <1>1, DetectionsAssumption DEF n
  <2>. QED
    BY <2>1, Uint8Is
<1>3. /\ num \in 0..n /\ num = Least(uint8(t[6*n + 1]), n)
      /\ \A i \in 1..n :
           out.detections[i] = Detection(t[i], t[n + i], t[2*n + i], t[3*n + i],
                                         t[4*n + i], t[5*n + i])
  <2>1. /\ num \in 0..uint8(n) /\ num = Least(uint8(t[6*uint8(n) + 1]), uint8(n))
        /\ \A i \in 1..uint8(n) : LET total == uint8(n) IN
             out.detections[i] = Detection(t[i], t[total + i], t[2*total + i],
                                           t[3*total + i], t[4*total + i], t[5*total + i])
    BY <1>1, DecodedIs
  <2>. HIDE DEF num, out
  <2>. QED
    BY <1>2, <2>1
<1>4. num = Least(n, uint8(t[6*n + 1]))
  <2>1. t[6*n + 1] \in Int
    BY <1>1 DEF DNN_OUTPUT_TENSOR_SIZE
  <2>2. uint8(t[6*n + 1]) \in Nat
    BY <2>1, Uint8Is, DetectionsAssumption
  <2>. QED
    BY <1>1, <1>3, <2>2, LeastIs
<1>. HIDE DEF num, out
<1>5. {i \in 1..num : out.detections[i].score >= copy.threshold} = likely
  <2>1. \A i \in 1..num : i \in 1..n
    BY <1>1, <1>3
  <2>2. ASSUME NEW i \in 1..num
        PROVE  out.detections[i].score = t[5*n + i]
    <3>1. out.detections[i] = Detection(t[i], t[n + i], t[2*n + i], t[3*n + i],
                                        t[4*n + i], t[5*n + i])
      BY <1>3, <2>1
    <3>. QED
      BY ONLY <3>1 DEF Detection
  <2>. QED
    BY <1>4, <2>2
<1>6. KeepsFirst(kept, out.detections, likely, copy.max_detections)
  <2>1. likely \in SUBSET (1..out.num_of_detections)
    BY <1>4 DEF num
  <2>. DEFINE max == copy.max_detections
  <2>2. max \in Nat
    BY <1>1
  <2>. HIDE DEF likely, max, t
  <2>3. KeepsFirst(Truncated(Pushed(out.detections, out.num_of_detections, likely), max),
                   out.detections, likely, max)
    BY ONLY <1>1, <2>1, <2>2, FirstWanted, Zenon DEF out
  <2>. QED
    BY <2>3 DEF max, num
<1>7. /\ kept \in Seq(Decoded) /\ DOMAIN kept = 1..Len(kept)
      /\ Len(kept) = Least(Cardinality(likely), copy.max_detections)
      /\ \A i \in likely :
           /\ Rank(likely, i) \in Nat \ {0}
           /\ Rank(likely, i) <= Len(kept) => kept[Rank(likely, i)] = out.detections[i]
  <2>. HIDE DEF kept, likely
  <2>1. kept \in Seq(Decoded)
    BY <1>6 DEF KeepsFirst
  <2>2. DOMAIN kept = 1..Len(kept)
    BY <2>1
  <2>. QED
    BY <1>6, <2>1, <2>2 DEF KeepsFirst
<1>8. output = [k \in 1..Len(kept) |->
                 GeneralObject(uint8(kept[k].class), Box(kept[k]), kept[k].score, FALSE)]
  <2>1. analyzeObjectDetectionSsdOutput(out, copy) =
          [k \in 1..Len(kept) |-> [rect |-> Box(kept[k]), score |-> kept[k].score,
                                    class |-> uint8(kept[k].class),
                                    is_used_for_cropping |-> FALSE]]
    BY <1>5, <1>7 DEF analyzeObjectDetectionSsdOutput, num
  <2>2. output = createSSDOutputFlatbuffer(analyzeObjectDetectionSsdOutput(out, copy))
    BY <1>1 DEF SsdMessage, createObjectDetectionSsdData, out
  <2>. HIDE DEF kept, Box
  <2>. QED
    BY <2>1, <2>2 DEF createSSDOutputFlatbuffer
<1>9. Len(output) = Least(Cardinality(likely), copy.max_detections)
  <2>1. Len(kept) \in Nat
    BY <1>7
  <2>. HIDE DEF kept, likely
  <2>2. Len(output) = Len(kept)
    BY <1>8, <2>1
  <2>. QED
    BY <1>7, <2>2
<1>10. ASSUME NEW i \in likely, Rank(likely, i) <= Len(output)
       PROVE  output[Rank(likely, i)] = Object(i)
  <2>. DEFINE k == Rank(likely, i)
  <2>1. k \in 1..Len(kept) /\ kept[k] = out.detections[i]
    BY <1>7, <1>9, <1>10
  <2>2. i \in 1..n
    BY <1>1, <1>3, <1>4
  <2>3. kept[k] = Detection(t[i], t[n + i], t[2*n + i], t[3*n + i], t[4*n + i], t[5*n + i])
    BY <1>3, <2>1, <2>2
  <2>. HIDE DEF kept, k
  <2>4. output[k] = GeneralObject(uint8(kept[k].class), Box(kept[k]), kept[k].score, FALSE)
    BY <1>8, <2>1
  <2>. QED
    BY <2>3, <2>4 DEF Detection, Rect, k
<1>. HIDE DEF likely, Object
<1>. QED
  BY <1>9, <1>10 DEF DetectionsRight, Rank, n, likely, Object

\* Whatever tensors and configurations arrive, a detection lists the first likely ones
\* in the order of the tensor, which the code does not sort, each with its class and its box, for every number that a uint8_t counts.
THEOREM DetectionsAreRight == Spec => []DetectionsRight
<1>1. IInv /\ Copied /\ Computed => DetectionsRight
  <2>1. ~(app = "od" /\ pc = "Sent" /\ copy.dnn_output_detections < Byte) => DetectionsRight
    BY DEF DetectionsRight
  <2>. QED
    BY <2>1, DetectionCall
<1>. QED
  BY SpecCall, <1>1, PTL
=============================================================================
