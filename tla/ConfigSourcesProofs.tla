------------------------ MODULE ConfigSourcesProofs ------------------------
(***************************************************************************)
(* Proofs of the properties of ConfigSources for every set of settings,    *)
(* and of what the templates of setup.sh promise.                          *)
(***************************************************************************)
EXTENDS ConfigSources, Templates, TLAPS

\* DEFAULTS is as built in until a daemon starts; what is written into it then is an
\* option of this daemon, for a setting that lives in a section.
DefaultsInv ==
    /\ ~up => defaults = BuiltIn
    /\ \A s \in Settings : defaults[s] = "option" => SectionOf[s] # "top"

Inv == TypeOK /\ DefaultsInv

\* What is merged comes from the file or from DEFAULTS.
LEMMA MergedIsFileOrDefault ==
    ASSUME NEW base, NEW f, NEW s \in Settings
    PROVE  DeepMerge(base, f)[s] = IF s \in f.values THEN "file" ELSE base[s]
  BY DEF DeepMerge

\* Options that are given come first; dry_run always counts as given.
LEMMA AppliedIsOptionOrMerged ==
    ASSUME NEW options, NEW raw, NEW s \in Settings
    PROVE  Apply(options, raw)[s] = IF s \in options THEN "option"
                                    ELSE IF s = "dry_run" THEN "default" ELSE raw[s]
  BY DEF Apply, Overriding, Given, OptionValue

LEMMA InitInv == Init => Inv
  BY DEF Init, Inv, TypeOK, DefaultsInv, BuiltIn, Layers

LEMMA StartInv ==
    ASSUME Inv, Start
    PROVE  Inv'
<1> PICK options \in SUBSET (Settings \cap Arguments) :
        /\ args' = options
        /\ config' = Apply(options, DeepMerge(defaults, file))
        /\ defaults' = AppliedToDefaults(options, file)
  BY DEF Start
<1>1. up' = TRUE /\ file' = file /\ source' \in {"path", "<defaults>"} /\ defaults = BuiltIn
  BY DEF Start, SourceOf, Inv, DefaultsInv
<1>2. ASSUME NEW s \in Settings
      PROVE  /\ config'[s] \in Layers
             /\ config'[s] = "option" => s \in args'
  BY <1>1, MergedIsFileOrDefault, AppliedIsOptionOrMerged DEF BuiltIn, Layers
<1>3. config' \in [Settings -> Layers]
  <2>1. config' = [s \in Settings |-> config'[s]]
    BY DEF Apply
  <2> QED BY <1>2, <2>1
<1>4. ASSUME NEW s \in Settings
      PROVE  /\ defaults'[s] \in {"default", "option"}
             /\ defaults'[s] = "option" => s \in args' /\ SectionOf[s] # "top"
  BY <1>1 DEF AppliedToDefaults, BuiltIn, Given, OptionValue, Shared
<1>5. defaults' \in [Settings -> {"default", "option"}]
  <2>1. defaults' = [s \in Settings |-> defaults'[s]]
    BY DEF AppliedToDefaults
  <2> QED BY <1>4, <2>1
<1> QED BY <1>1, <1>2, <1>3, <1>4, <1>5 DEF Inv, TypeOK, DefaultsInv

LEMMA ReloadInv ==
    ASSUME Inv, Reload
    PROVE  Inv'
<1>1. up /\ up' /\ UNCHANGED << file, args, defaults >> /\ source' \in {"path", "<defaults>"}
  BY DEF Reload, Inv, TypeOK, SourceOf
<1>2. ASSUME NEW s \in Settings
      PROVE  config'[s] \in Layers /\ (config'[s] = "option" => s \in args)
  <2>1. config'[s] \in {config[s], DeepMerge(defaults, Reread)[s]}
    BY DEF Reload, CarryOver
  <2>2. DeepMerge(defaults, Reread)[s] \in {"file", defaults[s]}
    BY MergedIsFileOrDefault
  <2> QED BY <2>1, <2>2 DEF Inv, TypeOK, Layers
<1>3. config' \in [Settings -> Layers]
  <2>1. config' = [s \in Settings |-> config'[s]]
    BY DEF Reload, CarryOver
  <2> QED BY <1>2, <2>1
<1> QED BY <1>1, <1>2, <1>3 DEF Inv, TypeOK, DefaultsInv

LEMMA NextInv == Inv /\ [Next]_vars => Inv'
<1> SUFFICES ASSUME Inv, [Next]_vars PROVE Inv'
  OBVIOUS
<1>1. CASE Start
  BY <1>1, StartInv
<1>2. CASE Reload
  BY <1>2, ReloadInv
<1>3. CASE Stop
  BY <1>3 DEF Stop, Inv, TypeOK, DefaultsInv, BuiltIn, Layers
<1>4. CASE Edit
  BY <1>4 DEF Edit, Inv, TypeOK, DefaultsInv
<1>5. CASE UNCHANGED vars
  BY <1>5 DEF vars, Inv, TypeOK, DefaultsInv
<1> QED BY <1>1, <1>2, <1>3, <1>4, <1>5 DEF Next

\* No option outlives its process, and none comes from another.
THEOREM SourcesTyped == Spec => []TypeOK
<1>1. Inv => TypeOK
  BY DEF Inv
<1> QED BY <1>1, InitInv, NextInv, PTL DEF Spec

\* Every daemon starts with what the priority gives it, dry_run apart.
THEOREM StartsByPriority == Spec => StartFollowsPriority
<1> DEFINE Step == ~up /\ up' => \A s \in Settings \ {"dry_run"} : Prioritised(s)
<1>1. Inv /\ [Next]_vars => [Step]_vars
  <2> SUFFICES ASSUME Inv, Next, ~up, up', NEW s \in Settings \ {"dry_run"}
               PROVE  Prioritised(s)
    OBVIOUS
  <2>1. Start
    BY DEF Next, Reload, Stop, Edit
  <2>2. PICK options \in SUBSET (Settings \cap Arguments) :
          args' = options /\ config' = Apply(options, DeepMerge(defaults, file))
    BY <2>1 DEF Start
  <2>3. defaults[s] = "default"
    BY DEF Inv, DefaultsInv, BuiltIn
  <2> QED BY <2>2, <2>3, MergedIsFileOrDefault, AppliedIsOptionOrMerged DEF Prioritised
<1> QED BY <1>1, InitInv, NextInv, PTL DEF Spec, StartFollowsPriority

\* Every reload shows the file as it is, in the hot settings of which no option was given:
\* DEFAULTS keeps nothing of the files read before.
THEOREM ReloadsFollowFile == Spec => ReloadFollowsFile
<1> DEFINE Shown(s) == config'[s] = IF s \in file.values THEN "file" ELSE "default"
           Step == Reload /\ source = "path" =>
                      \A s \in Settings \ (Frozen \cup args) :
                          SectionOf[s] # "network" => Shown(s)
<1>1. Inv /\ [Next]_vars => [Step]_vars
  <2> SUFFICES ASSUME Inv, Reload, source = "path", NEW s \in Settings \ (Frozen \cup args)
               PROVE  Shown(s)
    OBVIOUS
  <2>1. config'[s] = DeepMerge(defaults, file)[s]
    BY DEF Reload, CarryOver, Reread
  <2>2. defaults[s] = "default"
    BY DEF Inv, TypeOK
  <2> QED BY <2>1, <2>2, MergedIsFileOrDefault
<1> QED BY <1>1, InitInv, NextInv, PTL DEF Spec, ReloadFollowsFile

-----------------------------------------------------------------------------
(* The templates. *)

\* What setup.sh installs passes the validation, lets the daemon build its buffers and has
\* windows that the interval divides, and so has the default of generate_yaml.  A link at
\* its normal rate reaches the burst threshold, where the burst limit is enabled.
THEOREM TemplatesBoot ==
    \A c \in {Example, Default, Light} :
        c \in ValidConfigs /\ Bootable(c) /\ Spanned(c) /\ SetsOffBurst(c, c.higher)
<1>1. /\ 300 \div 10 = 30 /\ 180 \div 10 = 18 /\ 300 \div 5 = 60 /\ 120 \div 5 = 24
      /\ 180 \div 5 = 36
  OBVIOUS
<1>2. Example \in RawConfigs /\ Default \in RawConfigs /\ Light \in RawConfigs
  BY DEF Example, Default, Light, Template, Burst, RawConfigs, Positive, Bursts, Sources
<1>3. Valid(Example) /\ Valid(Default) /\ Valid(Light)
  BY DEF Example, Default, Light, Template, Valid
<1>4. /\ BufSize(Example) = 60 /\ BurstBufSize(Example) = 36
      /\ BufSize(Default) = 30 /\ BurstBufSize(Default) = 18
      /\ BufSize(Light) = 60 /\ BurstBufSize(Light) = 24
  BY <1>1 DEF Example, Default, Light, Template, Burst, BufSize, BurstBufSize
<1>5. Bootable(Example) /\ Spanned(Example)
  BY <1>4 DEF Example, Template, Burst, Bootable, Spanned
<1>6. Bootable(Default) /\ Spanned(Default) /\ Bootable(Light) /\ Spanned(Light)
  BY <1>4 DEF Default, Light, Template, Burst, Bootable, Spanned
<1>7. /\ SetsOffBurst(Example, Example.higher)
      /\ SetsOffBurst(Default, Default.higher) /\ SetsOffBurst(Light, Light.higher)
  BY DEF Example, Default, Light, Template, Burst, SetsOffBurst, BurstThresholdBytes
<1> QED BY <1>2, <1>3, <1>5, <1>6, <1>7 DEF ValidConfigs

\* With light a limited link stays below the burst threshold.  With the default of
\* generate_yaml it does not: the limited rate alone sets the limit again one burst window
\* after it was lifted, and so it would with the example file, were its burst limit enabled.
THEOREM LightCalmsBursts ==
    /\ ~SetsOffBurst(Light, Light.lower)
    /\ SetsOffBurst(Default, Default.lower) /\ SetsOffBurst(Example, Example.lower)
  BY DEF Example, Default, Light, Template, Burst, SetsOffBurst, BurstThresholdBytes

=============================================================================
