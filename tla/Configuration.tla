--------------------------- MODULE Configuration ---------------------------
(***************************************************************************)
(* The configuration of a run (config.rs, controller_types.rs) and the     *)
(* form the graphical front end edits it in (bin/tip-prep-gui/app.rs).     *)
(* A document is what a TOML file spells out: a function from some of the  *)
(* keys of a configuration to values.  Tables are flattened; strings that  *)
(* are only passed through (host, log path, verbosity) are left out, one   *)
(* optional string (layout_file) stands for both, one rate for three, and  *)
(* the timing and signal_stability tables are opaque values.               *)
(* Real numbers are counted in thousandths.                                *)
(***************************************************************************)
EXTENDS Integers, Sequences, TLC

CONSTANTS
  NaN,         \* the float that compares false with everything
  None,        \* Option::None, and the error of a Result
  Empty,       \* the empty text of a form field
  Junk,        \* a text that is no number, a value of the wrong type
  Names,       \* paths, and contents of the opaque tables
  Environment  \* the keys RUSTY_TIP__ variables override

\* What f spells out, and what g has for the keys it leaves out.
Over(f, g) == [k \in DOMAIN f \cup DOMAIN g |-> IF k \in DOMAIN f THEN f[k] ELSE g[k]]

\* `a <= b` of floats.
AtMost(a, b) == a # NaN /\ b # NaN /\ a <= b

-----------------------------------------------------------------------------
(***************************************************************************)
(* Defaults, validation and loading.                                       *)
(***************************************************************************)
DefaultPulseMethod ==
  [type |-> "stepping", voltage_bounds |-> <<2000, 6000>>, voltage_steps |-> 4,
   polarity |-> "positive", random_polarity_switch |-> None]

DefaultStability ==
  [check_stability |-> TRUE, stable_tip_allowed_change |-> 200, bias_range |-> <<10, 2000>>,
   bias_steps |-> 1000, scan_speed_m_s |-> 5]

\* AppConfig::default().
DefaultConfig ==
  Over([control_ports |-> <<6501, 6502, 6503, 6504>>, layout_file |-> None,
        data_port |-> 6590, stable_signal_samples |-> 100,
        sharp_tip_bounds |-> <<-2000, 0>>, max_cycles |-> 10000, initial_bias_v |-> -500,
        timing |-> "default", signal_stability |-> "default",
        pulse_method |-> DefaultPulseMethod, tcp_channel_mapping |-> None],
       DefaultStability)

Keys     == DOMAIN DefaultConfig
Required == {"control_ports", "data_port", "sharp_tip_bounds", "pulse_method"}

Floats   == Int \cup {NaN}
Switches == {None} \cup [enabled : BOOLEAN, every : Nat]

\* PulseMethod.
FixedMethods ==
  [type : {"fixed"}, polarity : {"positive", "negative"}, random_polarity_switch : Switches,
   voltage : Floats]
SteppingMethods ==
  [type : {"stepping"}, polarity : {"positive", "negative"}, random_polarity_switch : Switches,
   voltage_bounds : Floats \X Floats, voltage_steps : 0..(2^16 - 1)]
LinearMethods ==
  [type : {"linear"}, polarity : {"positive", "negative"}, random_polarity_switch : Switches,
   voltage_bounds : Floats \X Floats, linear_clamp : Floats \X Floats]
PulseMethods == FixedMethods \cup SteppingMethods \cup LinearMethods

Ports    == Seq(0..(2^16 - 1))
Channels == Seq([index : 0..(2^8 - 1), channel : 0..(2^8 - 1)])

\* The type of a field.  Tables and paths are named; a path that is spelled out is
\* not the empty text, which the form takes for none.
IsValue(key, v) ==
  CASE key = "control_ports" -> v \in Ports
    [] key \in {"data_port", "bias_steps"} -> v \in 0..(2^16 - 1)
    [] key \in {"stable_signal_samples", "max_cycles"} -> v \in Nat
    [] key \in {"sharp_tip_bounds", "bias_range"} -> v \in Floats \X Floats
    [] key \in {"initial_bias_v", "stable_tip_allowed_change", "scan_speed_m_s"} -> v \in Floats
    [] key = "check_stability" -> v \in BOOLEAN
    [] key = "pulse_method" -> v \in PulseMethods
    [] key = "tcp_channel_mapping" -> v \in Channels
    [] OTHER -> v \in Names

Values == Floats \cup BOOLEAN \cup Names \cup Ports \cup (Floats \X Floats) \cup PulseMethods
          \cup Channels

\* The special values are told apart from each other and from all others.
ASSUME ValuesAssumption ==
  /\ NaN \notin {None, Empty, Junk} /\ None \notin {Empty, Junk} /\ Empty # Junk
  /\ NaN \notin Int /\ "default" \in Names
  /\ \A v \in {None, Empty, Junk} : v \notin Values
  /\ None \notin [enabled : BOOLEAN, every : Nat]
  /\ \A K \in SUBSET Keys : None \notin [K -> Values \cup {None}]

\* A document spells out some keys; a value of the wrong type is Junk.
IsDocument(d) ==
  /\ DOMAIN d \subseteq Keys
  /\ \A k \in DOMAIN d : d[k] # Junk => IsValue(k, d[k])

\* The environment's values are as well typed as a file's.
ASSUME EnvironmentAssumption == IsDocument(Environment)

\* What serde puts for a key that is not spelled out: the field's own default,
\* and None for an Option, which is not AppConfig::default()'s value.
FieldDefaults == Over([layout_file |-> None, max_cycles |-> None], DefaultConfig)

\* The environment over the file; a missing required key or a value of the
\* wrong type is an error.
Deserialize(document) ==
  LET d == Over(Environment, document)
  IN IF Required \subseteq DOMAIN d /\ \A k \in DOMAIN d : d[k] # Junk
       THEN Over(d, FieldDefaults) ELSE None

\* toml::to_string_pretty: None is not written.
Serialize(config) == [k \in {k \in Keys : config[k] # None} |-> config[k]]

\* Two strictly positive bounds, in order; the checks of both validators, which
\* reject what compares true and so let NaN through.
BoundsValid(bounds) ==
  /\ \A i \in 1..2 : ~AtMost(bounds[i], 0)
  /\ ~AtMost(bounds[2], bounds[1])

\* StabilityConfig::validate.
StabilityValid(c) ==
  /\ BoundsValid(c.bias_range)
  /\ ~AtMost(c.stable_tip_allowed_change, 0)
  /\ c.bias_steps # 0

\* PulseMethod::validate.
PulseMethodValid(m) ==
  CASE m.type = "fixed"    -> ~AtMost(m.voltage, 0)
    [] m.type = "stepping" -> BoundsValid(m.voltage_bounds) /\ m.voltage_steps # 0
    [] m.type = "linear"   -> /\ BoundsValid(m.voltage_bounds)
                              /\ ~AtMost(m.linear_clamp[2], m.linear_clamp[1])

\* AppConfig::validate.
Valid(config) == StabilityValid(config) /\ PulseMethodValid(config.pulse_method)

\* A plausible bug: the check for an existing file is the only one.
LoadConfig_Unvalidated(document) ==
  IF document = None THEN None ELSE Deserialize(document)

\* load_config, and load_config_with_fallback when it is given a path: None for
\* a file that is not there, does not parse or does not pass validation.
LoadConfig(document) ==
  LET config == IF document = None THEN None ELSE Deserialize(document)
  IN IF config # None /\ Valid(config) THEN config ELSE None

-----------------------------------------------------------------------------
(***************************************************************************)
(* The form: a record of texts.  A text is the number it spells, Empty or  *)
(* Junk; choices and check boxes are values.                               *)
(***************************************************************************)

\* The ratio between a quantity and the unit the form shows it in (V and mV,
\* A and pA, m/s and nm/s).
UnitRatio == 1000

IsReal(text)           == text \notin {Empty, Junk}
IsUnsigned(text, bits) == text \notin {Empty, Junk, NaN} /\ text \in 0..(2^bits - 1)
IsCount(text)          == text \notin {Empty, Junk, NaN} /\ text \in Nat  \* 32 and 64 bits
Scaled(value)          == IF value = NaN THEN NaN ELSE value * UnitRatio
Unscaled(text)         == IF text = NaN THEN NaN ELSE text \div UnitRatio

TextOf(option)   == IF option = None THEN Empty ELSE option
OptionOf(text)   == IF text = Empty THEN None ELSE text

Texts == Floats \cup {Empty, Junk}

\* The type of a field of EditableConfig.
IsText(field, t) ==
  CASE field \in {"check_stability", "random_polarity_enabled"} -> t \in BOOLEAN
    [] field = "pulse_method_type" -> t \in {"fixed", "stepping", "linear"}
    [] field = "pulse_polarity" -> t \in {"positive", "negative"}
    [] field = "tcp_channel_mappings" -> t \in Seq([index : Texts, channel : Texts])
    [] field = "layout_file" -> t \in Names \cup {Empty}
    [] field = "signal_stability" -> t \in Names
    [] OTHER -> t \in Texts

\* EditableConfig::default(): not the same polarity as AppConfig::default().
DefaultForm ==
  [control_port |-> 6501, layout_file |-> Empty, data_port |-> 6590,
   stable_signal_samples |-> 100, sharp_tip_lower |-> -2000, sharp_tip_upper |-> 0,
   max_cycles |-> 10000, initial_bias_v |-> Scaled(-500),
   check_stability |-> TRUE, stable_tip_allowed_change |-> 200,
   bias_range_lower |-> 10, bias_range_upper |-> 2000, bias_steps |-> 1000,
   scan_speed_nm_s |-> Scaled(5),
   pulse_method_type |-> "stepping", pulse_voltage |-> 6000,
   pulse_voltage_min |-> 2000, pulse_voltage_max |-> 6000, pulse_polarity |-> "negative",
   voltage_steps |-> 4, linear_clamp_min |-> -20000, linear_clamp_max |-> 0,
   random_polarity_enabled |-> FALSE, random_polarity_switch_every |-> 10,
   tcp_channel_mappings |-> << >>, signal_stability |-> "default"]

\* A plausible bug: a switch that is there counts as enabled.
SwitchFields_AlwaysEnabled(switch) ==
  [random_polarity_enabled      |-> switch # None,
   random_polarity_switch_every |-> IF switch = None THEN 10 ELSE switch.every]

SwitchFields(switch) ==
  [random_polarity_enabled      |-> switch # None /\ switch.enabled,
   random_polarity_switch_every |-> IF switch = None THEN 10 ELSE switch.every]

\* The pulse-method part of from_app_config: the fields of the other methods
\* get fixed texts.
PulseFields(m) ==
  Over([pulse_method_type |-> m.type, pulse_polarity |-> m.polarity,
        pulse_voltage     |-> IF m.type = "fixed" THEN m.voltage ELSE 6000,
        pulse_voltage_min |-> IF m.type = "fixed" THEN 2000 ELSE m.voltage_bounds[1],
        pulse_voltage_max |-> IF m.type = "fixed" THEN 6000 ELSE m.voltage_bounds[2],
        voltage_steps     |-> IF m.type = "stepping" THEN m.voltage_steps ELSE 4,
        linear_clamp_min  |-> IF m.type = "linear" THEN m.linear_clamp[1] ELSE -20000,
        linear_clamp_max  |-> IF m.type = "linear" THEN m.linear_clamp[2] ELSE 0],
       SwitchFields(m.random_polarity_switch))

FromAppConfig(c) ==
  Over([control_port |-> IF c.control_ports = << >> THEN 6501 ELSE Head(c.control_ports),
        layout_file |-> TextOf(c.layout_file), data_port |-> c.data_port,
        stable_signal_samples |-> c.stable_signal_samples,
        sharp_tip_lower |-> c.sharp_tip_bounds[1], sharp_tip_upper |-> c.sharp_tip_bounds[2],
        max_cycles |-> TextOf(c.max_cycles), initial_bias_v |-> Scaled(c.initial_bias_v),
        check_stability |-> c.check_stability,
        stable_tip_allowed_change |-> c.stable_tip_allowed_change,
        bias_range_lower |-> c.bias_range[1], bias_range_upper |-> c.bias_range[2],
        bias_steps |-> c.bias_steps,
        scan_speed_nm_s |-> IF c.scan_speed_m_s = None THEN Empty ELSE Scaled(c.scan_speed_m_s),
        tcp_channel_mappings |-> IF c.tcp_channel_mapping = None THEN << >>
                                 ELSE c.tcp_channel_mapping,
        signal_stability |-> c.signal_stability],
       PulseFields(c.pulse_method))

-----------------------------------------------------------------------------
\* The pulse method of the chosen type, None if a text it needs is no number;
\* what the other types need is not looked at.
ToPulseMethod(f) ==
  LET switch == IF f.random_polarity_enabled
                  THEN [enabled |-> TRUE, every |-> f.random_polarity_switch_every] ELSE None
      bounds == <<f.pulse_voltage_min, f.pulse_voltage_max>>
      Bounds == IsReal(f.pulse_voltage_min) /\ IsReal(f.pulse_voltage_max)
      Parsed ==
        /\ f.random_polarity_enabled => IsCount(f.random_polarity_switch_every)
        /\ CASE f.pulse_method_type = "fixed"    -> IsReal(f.pulse_voltage)
             [] f.pulse_method_type = "stepping" -> Bounds /\ IsUnsigned(f.voltage_steps, 16)
             [] f.pulse_method_type = "linear"   ->
                  Bounds /\ IsReal(f.linear_clamp_min) /\ IsReal(f.linear_clamp_max)
  IN IF ~Parsed THEN None
     ELSE CASE f.pulse_method_type = "fixed" ->
                 [type |-> "fixed", polarity |-> f.pulse_polarity,
                  random_polarity_switch |-> switch, voltage |-> f.pulse_voltage]
            [] f.pulse_method_type = "stepping" ->
                 [type |-> "stepping", polarity |-> f.pulse_polarity,
                  random_polarity_switch |-> switch, voltage_bounds |-> bounds,
                  voltage_steps |-> f.voltage_steps]
            [] f.pulse_method_type = "linear" ->
                 [type |-> "linear", polarity |-> f.pulse_polarity,
                  random_polarity_switch |-> switch, voltage_bounds |-> bounds,
                  linear_clamp |-> <<f.linear_clamp_min, f.linear_clamp_max>>]

\* Every number outside the pulse method is spelled in a way that parses.
Parses(f) ==
  /\ IsUnsigned(f.control_port, 16) /\ IsUnsigned(f.data_port, 16)
  /\ IsCount(f.stable_signal_samples) /\ IsUnsigned(f.bias_steps, 16)
  /\ \A text \in {f.sharp_tip_lower, f.sharp_tip_upper, f.initial_bias_v,
                  f.stable_tip_allowed_change, f.bias_range_lower, f.bias_range_upper} :
       IsReal(text)
  /\ f.max_cycles # Empty => IsCount(f.max_cycles)
  /\ f.scan_speed_nm_s # Empty => IsReal(f.scan_speed_nm_s)
  /\ \A i \in DOMAIN f.tcp_channel_mappings : \A text \in {f.tcp_channel_mappings[i].index,
                                                            f.tcp_channel_mappings[i].channel} :
       IsUnsigned(text, 8)

\* A plausible bug: signal_stability falls back to its default, as timing does.
Unedited_Defaults(f) == [timing |-> "default", signal_stability |-> "default"]

\* The tables the form has no widgets for: one is carried along, the other is not.
Unedited(f) == [timing |-> "default", signal_stability |-> f.signal_stability]

\* The AppConfig to_app_config ends with.
Assembled(f) ==
  Over([control_ports |-> <<f.control_port>>, layout_file |-> OptionOf(f.layout_file),
        data_port |-> f.data_port, stable_signal_samples |-> f.stable_signal_samples,
        sharp_tip_bounds |-> <<f.sharp_tip_lower, f.sharp_tip_upper>>,
        max_cycles |-> OptionOf(f.max_cycles), initial_bias_v |-> Unscaled(f.initial_bias_v),
        check_stability |-> f.check_stability,
        stable_tip_allowed_change |-> f.stable_tip_allowed_change,
        bias_range |-> <<f.bias_range_lower, f.bias_range_upper>>, bias_steps |-> f.bias_steps,
        scan_speed_m_s |-> IF f.scan_speed_nm_s = Empty THEN None ELSE Unscaled(f.scan_speed_nm_s),
        pulse_method |-> ToPulseMethod(f),
        tcp_channel_mapping |-> IF f.tcp_channel_mappings = << >> THEN None
                                ELSE f.tcp_channel_mappings],
       Unedited(f))

\* to_app_config: None is its "Invalid ...".  Nothing here calls validate().
ToAppConfig(f) ==
  IF Parses(f) /\ ToPulseMethod(f) # None THEN Assembled(f) ELSE None
=============================================================================
