------------------------------ MODULE MCScanParts ------------------------------
(***************************************************************************)
(* The parts of a scan that share no state, for TLC: the classifier's      *)
(* windows, the loading of the models, the filters behind Presidio, the    *)
(* phrase matcher, and what a trace scan is given.  A behaviour is one of  *)
(* a single part; the variables of the others keep the value they have in  *)
(* Idle, which satisfies none of the properties' premises.                 *)
(***************************************************************************)
EXTENDS Windows, LazyModels, PiiFilter, PiiTexts, Patterns, PatternTexts,
        TraceInputs, TraceTrees

CONSTANT AtWork  \* the parts to be checked

VARIABLE part  \* the part at work

(* Scores below, between and above the two scopes' thresholds.  With three *)
(* texts a model can fail on the first, be skipped on the second, and the  *)
(* others still be loaded, or fail to score, on the third.                 *)
ModelTexts ==
  [documents : {60}, injection : {0, 42, 47}, jailbreak : {0, 43, 47},
   classifier : {95}]

windowsVars == <<length, fits, phrase, taken, best, stage>>
modelsVars == <<imported, holds, failed, prompt, score, todo, texts>>
filterVars == <<text, ignore, found, results, phase>>
phrasingVars == <<passage, place, hits, level, step>>
inputsVars == <<tree, table, given, faults>>
allVars == <<part, windowsVars, modelsVars, filterVars, phrasingVars, inputsVars>>

-----------------------------------------------------------------------------
IdleWindows ==
  /\ length = 0 /\ fits = 1 /\ phrase = [at |-> 0, size |-> 0] /\ taken = 0
  /\ best = FALSE /\ stage = "idle"
IdleModels ==
  /\ prompt = <<>>
  /\ imported = FALSE /\ failed = {} /\ todo = Order /\ texts = 0
  /\ holds = [m \in Models |-> {}]
  /\ score = [m \in Models |-> 0]
IdleFilter == text = <<>> /\ ignore = {} /\ found = {} /\ results = {} /\ phase = "idle"
IdlePhrasing ==
  passage = <<>> /\ place = "prompt" /\ hits = <<>> /\ level = Clean /\ step = "idle"
IdleInputs == tree = {} /\ table = {} /\ given = <<>> /\ faults = 0

PartsInit ==
  /\ part \in AtWork
  /\ IF part = "windows" THEN Init ELSE IdleWindows
  /\ IF part = "models" THEN ModelsInit ELSE IdleModels
  /\ IF part = "filter" THEN FilterInit ELSE IdleFilter
  /\ IF part = "phrasing" THEN PatternsInit ELSE IdlePhrasing
  /\ IF part = "inputs" THEN InputsInit ELSE IdleInputs

PartsNext ==
  \/ /\ part = "windows" /\ Next
     /\ UNCHANGED <<part, modelsVars, filterVars, phrasingVars, inputsVars>>
  \/ /\ part = "models" /\ ModelsNext
     /\ UNCHANGED <<part, windowsVars, filterVars, phrasingVars, inputsVars>>
  \/ /\ part = "filter" /\ FilterNext
     /\ UNCHANGED <<part, windowsVars, modelsVars, phrasingVars, inputsVars>>
  \/ /\ part = "phrasing" /\ PatternsNext
     /\ UNCHANGED <<part, windowsVars, modelsVars, filterVars, inputsVars>>
  \/ /\ part = "inputs" /\ InputsNext
     /\ UNCHANGED <<part, windowsVars, modelsVars, filterVars, phrasingVars>>

PartsSpec == PartsInit /\ [][PartsNext]_allVars
===============================================================================
