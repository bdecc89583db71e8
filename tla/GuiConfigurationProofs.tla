----------------------- MODULE GuiConfigurationProofs -----------------------
(***************************************************************************)
(* Proofs about GuiConfiguration, for any files, environment and edits     *)
(* whose values are of the types of their fields.                          *)
(***************************************************************************)
EXTENDS GuiConfiguration, TLAPS

\* The fields of AppConfig that are an Option.
Optional == {"layout_file", "max_cycles", "scan_speed_m_s", "tcp_channel_mapping"}

\* AppConfig.
IsConfig(c) ==
  /\ DOMAIN c = Keys
  /\ \A k \in Keys : IsValue(k, c[k]) \/ (k \in Optional /\ c[k] = None)

\* EditableConfig.
IsForm(f) ==
  /\ DOMAIN f = DOMAIN DefaultForm
  /\ \A field \in DOMAIN f : IsText(field, f[field])

-----------------------------------------------------------------------------
(***************************************************************************)
(* Loading.                                                                *)
(***************************************************************************)

\* How the special values differ from the others.
ValuesApart ==
  /\ NaN \notin Int /\ NaN # None /\ NaN # Empty /\ NaN # Junk
  /\ \A v \in Int : v # NaN /\ v # None /\ v # Empty /\ v # Junk
  /\ None # Empty /\ None # Junk /\ Empty # Junk
  /\ \A v \in Floats : v # None /\ v # Empty /\ v # Junk
  /\ \A v \in Names : v # None /\ v # Empty /\ v # Junk
  /\ \A v \in PulseMethods : v # None
  /\ \A v \in Channels : v # None
  /\ \A s \in [enabled : BOOLEAN, every : Nat] : s # None
  /\ "default" \in Names

\* The keys of a configuration, and its special values.
LEMMA Constants ==
  /\ Keys = {"control_ports", "layout_file", "data_port", "stable_signal_samples",
             "sharp_tip_bounds", "max_cycles", "initial_bias_v", "timing", "signal_stability",
             "pulse_method", "tcp_channel_mapping", "check_stability",
             "stable_tip_allowed_change", "bias_range", "bias_steps", "scan_speed_m_s"}
  /\ ValuesApart
<1>1. Keys = {"control_ports", "layout_file", "data_port", "stable_signal_samples",
              "sharp_tip_bounds", "max_cycles", "initial_bias_v", "timing", "signal_stability",
              "pulse_method", "tcp_channel_mapping", "check_stability",
              "stable_tip_allowed_change", "bias_range", "bias_steps", "scan_speed_m_s"}
  BY DEF Keys, DefaultConfig, DefaultStability, Over
<1>2. ValuesApart
  BY ValuesAssumption DEF ValuesApart, Values, Floats
<1> QED  BY <1>1, <1>2

\* Whatever spells out what is required, with values of the right types, loads, and
\* every key of what it gives has a value of the right type.
LEMMA LoadedType ==
  ASSUME NEW d, IsDocument(d), NEW layered, layered = Over(Environment, d),
         Required \subseteq DOMAIN layered, \A k \in DOMAIN layered : layered[k] # Junk
  PROVE  /\ Deserialize(d) # None /\ IsConfig(Deserialize(d))
         /\ \A k \in Keys :
              Deserialize(d)[k] = IF k \in DOMAIN layered THEN layered[k] ELSE FieldDefaults[k]
<1> DEFINE c == Over(layered, FieldDefaults)
<1>2. Deserialize(d) = c
  BY DEF Deserialize
<1>3. /\ DOMAIN layered = DOMAIN Environment \cup DOMAIN d
      /\ \A k \in DOMAIN layered : IsValue(k, layered[k])
  <2>1. \A k \in DOMAIN layered : layered[k] = IF k \in DOMAIN Environment THEN Environment[k] ELSE d[k]
    BY DEF Over
  <2>2. DOMAIN layered = DOMAIN Environment \cup DOMAIN d
    BY DEF Over
  <2> QED  BY <2>1, <2>2, EnvironmentAssumption DEF IsDocument
<1>4. DOMAIN FieldDefaults = Keys
  BY Constants DEF FieldDefaults, DefaultConfig, DefaultStability, Over
<1>5. \A k \in Keys : IsValue(k, FieldDefaults[k]) \/ (k \in Optional /\ FieldDefaults[k] = None)
  <2>1. /\ FieldDefaults.control_ports = <<6501, 6502, 6503, 6504>>
        /\ FieldDefaults.layout_file = None /\ FieldDefaults.data_port = 6590
        /\ FieldDefaults.stable_signal_samples = 100
        /\ FieldDefaults.sharp_tip_bounds = <<-2000, 0>> /\ FieldDefaults.max_cycles = None
        /\ FieldDefaults.initial_bias_v = -500 /\ FieldDefaults.timing = "default"
        /\ FieldDefaults.signal_stability = "default"
        /\ FieldDefaults.pulse_method = DefaultPulseMethod
        /\ FieldDefaults.tcp_channel_mapping = None
    BY DEF FieldDefaults, DefaultConfig, DefaultStability, Over
  <2>2. /\ FieldDefaults.stable_tip_allowed_change = 200
        /\ FieldDefaults.bias_range = <<10, 2000>> /\ FieldDefaults.bias_steps = 1000
        /\ FieldDefaults.scan_speed_m_s = 5
    BY DEF FieldDefaults, DefaultConfig, DefaultStability, Over
  <2>3. DefaultPulseMethod \in PulseMethods
    BY DEF DefaultPulseMethod, PulseMethods, SteppingMethods, Floats, Switches
  <2>4. /\ IsValue("control_ports", FieldDefaults.control_ports)
        /\ IsValue("tcp_channel_mapping", << >>)
    BY <2>1 DEF IsValue, Ports, Channels
  <2>5. /\ IsValue("data_port", FieldDefaults.data_port)
        /\ IsValue("bias_steps", FieldDefaults.bias_steps)
        /\ IsValue("stable_signal_samples", FieldDefaults.stable_signal_samples)
    BY <2>1, <2>2 DEF IsValue
  <2>6. /\ IsValue("sharp_tip_bounds", FieldDefaults.sharp_tip_bounds)
        /\ IsValue("bias_range", FieldDefaults.bias_range)
        /\ IsValue("initial_bias_v", FieldDefaults.initial_bias_v)
        /\ IsValue("stable_tip_allowed_change", FieldDefaults.stable_tip_allowed_change)
        /\ IsValue("scan_speed_m_s", FieldDefaults.scan_speed_m_s)
    BY <2>1, <2>2 DEF IsValue, Floats
  <2>7. /\ IsValue("check_stability", FieldDefaults.check_stability)
        /\ IsValue("pulse_method", FieldDefaults.pulse_method)
    <3>1. FieldDefaults.check_stability = TRUE
      BY DEF FieldDefaults, DefaultConfig, DefaultStability, Over
    <3>2. FieldDefaults.check_stability \in BOOLEAN
      BY <3>1, Zenon
    <3>3. IsValue("check_stability", FieldDefaults.check_stability)
      BY <3>2 DEF IsValue
    <3>4. IsValue("pulse_method", FieldDefaults.pulse_method)
      BY <2>1, <2>3 DEF IsValue
    <3> QED  BY <3>3, <3>4
  <2>8. "default" \in Names
    BY ValuesAssumption
  <2>9. /\ IsValue("timing", FieldDefaults.timing)
        /\ IsValue("signal_stability", FieldDefaults.signal_stability)
    BY <2>1, <2>8 DEF IsValue
  <2> QED
    BY Constants, <2>1, <2>4, <2>5, <2>6, <2>7, <2>9 DEF Optional
<1>6. DOMAIN c = Keys /\ \A k \in Keys : c[k] = IF k \in DOMAIN layered THEN layered[k] ELSE FieldDefaults[k]
  <2>1. DOMAIN layered \subseteq Keys
    BY <1>3, EnvironmentAssumption DEF IsDocument
  <2> QED  BY <2>1, <1>4 DEF Over
<1>7. c = [k \in Keys |-> c[k]]
  BY <1>4, <1>6 DEF Over
<1> HIDE DEF c
<1>8. IsConfig(c)
  BY <1>3, <1>5, <1>6 DEF IsConfig
<1>9. c # None
  <2>1. \A k \in Keys : c[k] \in Values \cup {None}
    BY <1>8, Constants DEF IsConfig, IsValue, Values, Optional, Floats
  <2> QED  BY <1>7, <2>1, ValuesAssumption
<1> QED  BY <1>2, <1>6, <1>8, <1>9
-----------------------------------------------------------------------------
(***************************************************************************)
(* The form and back.                                                      *)
(***************************************************************************)

\* A configuration as to_app_config makes it.
Normal(c) ==
  /\ c.control_ports # << >> /\ c.control_ports = <<Head(c.control_ports)>>
  /\ Method(c) = c.pulse_method /\ c.timing = "default"
  /\ c.tcp_channel_mapping = IF Mapping(c) = << >> THEN None ELSE Mapping(c)

\* What a form that parses stands for has the types of a configuration.
LEMMA AssembledType ==
  ASSUME NEW f, IsForm(f), Parses(f), ToPulseMethod(f) # None
  PROVE  IsConfig(Assembled(f)) /\ Normal(Assembled(f)) /\ Assembled(f) # None
<1> DEFINE c == Assembled(f)
<1>1. /\ c.control_ports = <<f.control_port>> /\ c.layout_file = OptionOf(f.layout_file)
      /\ c.data_port = f.data_port /\ c.stable_signal_samples = f.stable_signal_samples
      /\ c.sharp_tip_bounds = <<f.sharp_tip_lower, f.sharp_tip_upper>>
      /\ c.max_cycles = OptionOf(f.max_cycles)
      /\ c.initial_bias_v = Unscaled(f.initial_bias_v)
      /\ c.check_stability = f.check_stability
  BY DEF Assembled, Over
<1>2. /\ c.stable_tip_allowed_change = f.stable_tip_allowed_change
      /\ c.bias_range = <<f.bias_range_lower, f.bias_range_upper>>
      /\ c.bias_steps = f.bias_steps
      /\ c.scan_speed_m_s
           = IF f.scan_speed_nm_s = Empty THEN None ELSE Unscaled(f.scan_speed_nm_s)
      /\ c.pulse_method = ToPulseMethod(f)
      /\ c.tcp_channel_mapping = IF f.tcp_channel_mappings = << >> THEN None
                                 ELSE f.tcp_channel_mappings
      /\ c.timing = "default" /\ c.signal_stability = f.signal_stability
  BY DEF Assembled, Over, Unedited
<1>3. DOMAIN c = Keys /\ c = [k \in Keys |-> c[k]]
  BY Constants DEF Assembled, Over, Unedited
<1> HIDE DEF c
<1>4. /\ f.layout_file \in Names \cup {Empty} /\ f.check_stability \in BOOLEAN
      /\ f.signal_stability \in Names
      /\ f.pulse_method_type \in {"fixed", "stepping", "linear"}
      /\ f.pulse_polarity \in {"positive", "negative"}
      /\ f.tcp_channel_mappings \in Seq([index : Texts, channel : Texts])
  <2>1. \A k \in {"layout_file", "check_stability", "signal_stability", "pulse_method_type",
                  "pulse_polarity", "tcp_channel_mappings"} : IsText(k, f[k])
    BY DEF IsForm, DefaultForm
  <2>2. IsText("tcp_channel_mappings", f.tcp_channel_mappings)
    BY <2>1
  <2>3. f.tcp_channel_mappings \in Seq([index : Texts, channel : Texts])
    BY <2>2 DEF IsText
  <2> QED  BY <2>1, <2>3 DEF IsText
<1>5. \A k \in {"sharp_tip_lower", "sharp_tip_upper", "initial_bias_v",
                "stable_tip_allowed_change", "bias_range_lower", "bias_range_upper",
                "scan_speed_nm_s", "pulse_voltage", "pulse_voltage_min", "pulse_voltage_max",
                "linear_clamp_min", "linear_clamp_max"} : f[k] \in Texts
  BY DEF IsForm, IsText, DefaultForm
<1>6. \A t \in Texts : IsReal(t) => t \in Floats
  BY DEF IsReal, Texts, Floats
<1>7. \A v \in Floats : Unscaled(v) \in Floats
  BY DEF Unscaled, Floats, UnitRatio
<1>8. /\ IsValue("control_ports", c.control_ports) /\ IsValue("data_port", c.data_port)
      /\ IsValue("bias_steps", c.bias_steps)
      /\ IsValue("stable_signal_samples", c.stable_signal_samples)
  <2>1. f.control_port \in 0 .. (2^16 - 1) /\ f.data_port \in 0 .. (2^16 - 1)
        /\ f.bias_steps \in 0 .. (2^16 - 1) /\ f.stable_signal_samples \in Nat
    BY DEF Parses, IsUnsigned, IsCount
  <2>2. <<f.control_port>> \in Seq(0 .. (2^16 - 1))
    <3>1. \A T : \A x \in T : <<x>> \in Seq(T)
      OBVIOUS
    <3> QED  BY <2>1, <3>1, Zenon
  <2> QED  BY <1>1, <1>2, <2>1, <2>2 DEF IsValue, Ports
<1>9. /\ IsValue("sharp_tip_bounds", c.sharp_tip_bounds) /\ IsValue("bias_range", c.bias_range)
      /\ IsValue("initial_bias_v", c.initial_bias_v)
      /\ IsValue("stable_tip_allowed_change", c.stable_tip_allowed_change)
  <2>1. /\ f.sharp_tip_lower \in Floats /\ f.sharp_tip_upper \in Floats
        /\ f.bias_range_lower \in Floats /\ f.bias_range_upper \in Floats
        /\ f.initial_bias_v \in Floats /\ f.stable_tip_allowed_change \in Floats
    BY <1>5, <1>6 DEF Parses
  <2> QED  BY <1>1, <1>2, <1>7, <2>1 DEF IsValue
<1>10. /\ IsValue("check_stability", c.check_stability) /\ IsValue("timing", c.timing)
       /\ IsValue("signal_stability", c.signal_stability)
  <2>1. "default" \in Names
    BY Constants DEF ValuesApart
  <2> QED  BY <1>1, <1>2, <1>4, <2>1 DEF IsValue
<1>11. /\ IsValue("layout_file", c.layout_file) \/ c.layout_file = None
       /\ IsValue("max_cycles", c.max_cycles) \/ c.max_cycles = None
       /\ IsValue("scan_speed_m_s", c.scan_speed_m_s) \/ c.scan_speed_m_s = None
  <2>1. /\ f.max_cycles # Empty => f.max_cycles \in Nat
        /\ f.scan_speed_nm_s # Empty => f.scan_speed_nm_s \in Floats
    BY <1>5, <1>6 DEF Parses, IsCount
  <2> QED  BY <1>1, <1>2, <1>4, <1>7, <2>1 DEF IsValue, OptionOf
<1>12. IsValue("tcp_channel_mapping", c.tcp_channel_mapping) \/ c.tcp_channel_mapping = None
  <2> DEFINE s == f.tcp_channel_mappings
             T == [index : Texts, channel : Texts]
             A == [index : 0 .. (2^8 - 1), channel : 0 .. (2^8 - 1)]
  <2>0. s \in Seq(T)
    BY <1>4
  <2>1. ASSUME NEW i \in DOMAIN s
        PROVE  s[i] \in A
    <3>1. s[i] \in T
      <4> HIDE DEF T, s
      <4> QED  BY <2>0
    <3>2. s[i] = [index |-> s[i].index, channel |-> s[i].channel]
      BY <3>1
    <3>3. s[i].index \in 0 .. (2^8 - 1) /\ s[i].channel \in 0 .. (2^8 - 1)
      BY DEF Parses, IsUnsigned
    <3> QED  BY <3>2, <3>3
  <2>2. s \in Seq(A)
    <3> HIDE DEF A, T
    <3> QED  BY <2>0, <2>1
  <2> QED  BY <1>2, <2>2 DEF IsValue, Channels
<1>13. IsValue("pulse_method", c.pulse_method)
  <2> DEFINE p == ToPulseMethod(f)
             switch == IF f.random_polarity_enabled
                         THEN [enabled |-> TRUE, every |-> f.random_polarity_switch_every] ELSE None
             bounds == <<f.pulse_voltage_min, f.pulse_voltage_max>>
  <2>1. switch \in Switches
    <3>1. f.random_polarity_enabled => f.random_polarity_switch_every \in Nat
      BY DEF ToPulseMethod, IsCount
    <3> QED  BY <3>1 DEF Switches
  <2>2. f.pulse_method_type # "fixed" => bounds \in Floats \X Floats
    BY <1>4, <1>5, <1>6 DEF ToPulseMethod
  <2> HIDE DEF switch, bounds
  <2>6. f.pulse_polarity \in {"positive", "negative"}
    BY <1>4
  <2>3. CASE f.pulse_method_type = "fixed"
    <3>1. p = [type |-> "fixed", polarity |-> f.pulse_polarity,
               random_polarity_switch |-> switch, voltage |-> f.pulse_voltage]
      BY <2>3 DEF ToPulseMethod, switch
    <3>2. f.pulse_voltage \in Floats
      BY <1>5, <1>6, <2>3 DEF ToPulseMethod
    <3>3. p \in FixedMethods
      BY <2>6, <2>1, <3>1, <3>2 DEF FixedMethods
    <3> QED  BY <1>2, <3>3 DEF IsValue, PulseMethods
  <2>4. CASE f.pulse_method_type = "stepping"
    <3>1. p = [type |-> "stepping", polarity |-> f.pulse_polarity,
               random_polarity_switch |-> switch, voltage_bounds |-> bounds,
               voltage_steps |-> f.voltage_steps]
      BY <2>4 DEF ToPulseMethod, switch, bounds
    <3>2. f.voltage_steps \in 0 .. (2^16 - 1)
      BY <2>4 DEF ToPulseMethod, IsUnsigned
    <3>3. p \in SteppingMethods
      <4> DEFINE U == 0 .. (2^16 - 1)
                 B == Floats \X Floats
      <4>1. f.voltage_steps \in U /\ bounds \in B
        BY <2>2, <2>4, <3>2
      <4> HIDE DEF U, B
      <4>2. p \in [type : {"stepping"}, polarity : {"positive", "negative"},
                   random_polarity_switch : Switches, voltage_bounds : B, voltage_steps : U]
        BY <2>1, <2>6, <3>1, <4>1
      <4> QED  BY <4>2 DEF SteppingMethods, U, B
    <3> QED  BY <1>2, <3>3 DEF IsValue, PulseMethods
  <2>5. CASE f.pulse_method_type = "linear"
    <3> DEFINE clamp == <<f.linear_clamp_min, f.linear_clamp_max>>
    <3>1. p = [type |-> "linear", polarity |-> f.pulse_polarity,
               random_polarity_switch |-> switch, voltage_bounds |-> bounds,
               linear_clamp |-> clamp]
      BY <2>5 DEF ToPulseMethod, switch, bounds
    <3>2. clamp \in Floats \X Floats
      BY <1>5, <1>6, <2>5 DEF ToPulseMethod
    <3>3. p \in LinearMethods
      BY <2>1, <2>2, <2>5, <2>6, <3>1, <3>2 DEF LinearMethods
    <3> QED  BY <1>2, <3>3 DEF IsValue, PulseMethods
  <2> QED  BY <1>4, <2>3, <2>4, <2>5
<1>14. IsConfig(c)
  BY Constants, <1>3, <1>8, <1>9, <1>10, <1>11, <1>12, <1>13 DEF IsConfig, Optional
<1>15. c # None
  <2>1. \A k \in Keys : c[k] \in Values \cup {None}
    BY Constants, <1>14 DEF IsConfig, IsValue, Values, Optional, Floats
  <2> QED  BY <1>3, <2>1, ValuesAssumption
<1>16. Normal(c)
  <2>1. LET switch == ToPulseMethod(f).random_polarity_switch
        IN  switch = None \/ switch.enabled
    BY <1>4 DEF ToPulseMethod
  <2>2. Method(c) = c.pulse_method
    BY <1>2, <2>1 DEF Method
  <2>3. c.control_ports # << >> /\ c.control_ports = <<Head(c.control_ports)>>
    BY <1>1
  <2> QED  BY <1>2, <2>2, <2>3 DEF Normal, Mapping
<1> QED  BY <1>14, <1>15, <1>16 DEF c

\* A configuration made into a form and back is the one it was: nothing is refused,
\* and the method, the mapping and the first port come back.
LEMMA RoundTrip ==
  ASSUME NEW c, IsConfig(c),
         NEW f, f = FromAppConfig(c)
  PROVE  /\ IsForm(f)
         /\ ToAppConfig(f) # None
         /\ \A k \in Plain : ToAppConfig(f)[k] = c[k]
         /\ ToAppConfig(f).control_ports
              = IF c.control_ports = << >> THEN <<6501>> ELSE <<Head(c.control_ports)>>
         /\ ToAppConfig(f).pulse_method = Method(c)
         /\ ToAppConfig(f).tcp_channel_mapping = IF Mapping(c) = << >> THEN None ELSE Mapping(c)
         /\ ToAppConfig(f).timing = "default"
<1> DEFINE m == c.pulse_method
<1>1. /\ f.control_port = IF c.control_ports = << >> THEN 6501 ELSE Head(c.control_ports)
      /\ f.layout_file = TextOf(c.layout_file) /\ f.data_port = c.data_port
      /\ f.stable_signal_samples = c.stable_signal_samples
      /\ f.sharp_tip_lower = c.sharp_tip_bounds[1] /\ f.sharp_tip_upper = c.sharp_tip_bounds[2]
      /\ f.max_cycles = TextOf(c.max_cycles) /\ f.initial_bias_v = Scaled(c.initial_bias_v)
  BY DEF FromAppConfig, Over
<1>2. /\ f.check_stability = c.check_stability
      /\ f.stable_tip_allowed_change = c.stable_tip_allowed_change
      /\ f.bias_range_lower = c.bias_range[1] /\ f.bias_range_upper = c.bias_range[2]
      /\ f.bias_steps = c.bias_steps
      /\ f.scan_speed_nm_s = IF c.scan_speed_m_s = None THEN Empty ELSE Scaled(c.scan_speed_m_s)
      /\ f.tcp_channel_mappings = IF c.tcp_channel_mapping = None THEN << >>
                                  ELSE c.tcp_channel_mapping
      /\ f.signal_stability = c.signal_stability
  BY DEF FromAppConfig, Over
<1>3. \A k \in {"pulse_method_type", "pulse_polarity", "pulse_voltage", "pulse_voltage_min",
                "pulse_voltage_max", "voltage_steps", "linear_clamp_min", "linear_clamp_max",
                "random_polarity_enabled", "random_polarity_switch_every"} :
        f[k] = PulseFields(m)[k]
  <2>1. DOMAIN PulseFields(m)
          = {"pulse_method_type", "pulse_polarity", "pulse_voltage", "pulse_voltage_min",
             "pulse_voltage_max", "voltage_steps", "linear_clamp_min", "linear_clamp_max",
             "random_polarity_enabled", "random_polarity_switch_every"}
    BY DEF PulseFields, SwitchFields, Over
  <2> QED  BY <2>1 DEF FromAppConfig, Over
<1>4. /\ f.pulse_method_type = m.type /\ f.pulse_polarity = m.polarity
      /\ f.pulse_voltage     = IF m.type = "fixed" THEN m.voltage ELSE 6000
      /\ f.pulse_voltage_min = IF m.type = "fixed" THEN 2000 ELSE m.voltage_bounds[1]
      /\ f.pulse_voltage_max = IF m.type = "fixed" THEN 6000 ELSE m.voltage_bounds[2]
      /\ f.voltage_steps     = IF m.type = "stepping" THEN m.voltage_steps ELSE 4
      /\ f.linear_clamp_min  = IF m.type = "linear" THEN m.linear_clamp[1] ELSE -20000
      /\ f.linear_clamp_max  = IF m.type = "linear" THEN m.linear_clamp[2] ELSE 0
  BY <1>3 DEF PulseFields, SwitchFields, Over
<1>5. /\ f.random_polarity_enabled = SwitchFields(m.random_polarity_switch).random_polarity_enabled
      /\ f.random_polarity_switch_every
           = SwitchFields(m.random_polarity_switch).random_polarity_switch_every
  BY <1>3 DEF PulseFields, SwitchFields, Over
<1>6. DOMAIN f = DOMAIN DefaultForm
  BY DEF FromAppConfig, PulseFields, SwitchFields, Over, DefaultForm
<1>7. /\ c.control_ports \in Ports /\ c.data_port \in 0 .. (2^16 - 1)
      /\ c.stable_signal_samples \in Nat /\ c.bias_steps \in 0 .. (2^16 - 1)
      /\ c.sharp_tip_bounds \in Floats \X Floats /\ c.bias_range \in Floats \X Floats
      /\ c.initial_bias_v \in Floats /\ c.stable_tip_allowed_change \in Floats
  BY Constants DEF IsConfig, IsValue, Optional
<1>8. /\ c.check_stability \in BOOLEAN /\ m \in PulseMethods
      /\ c.timing \in Names /\ c.signal_stability \in Names
      /\ c.layout_file \in Names \cup {None} /\ c.max_cycles \in Nat \cup {None}
      /\ c.scan_speed_m_s \in Floats \cup {None}
      /\ c.tcp_channel_mapping \in Channels \cup {None}
  BY Constants DEF IsConfig, IsValue, Optional
<1>9. ValuesApart
  BY Constants
<1>10. /\ m.type \in {"fixed", "stepping", "linear"} /\ m.polarity \in {"positive", "negative"}
       /\ m.random_polarity_switch \in Switches
       /\ m.type = "fixed" => m.voltage \in Floats
       /\ m.type # "fixed" => m.voltage_bounds \in Floats \X Floats
       /\ m.type = "stepping" => m.voltage_steps \in 0 .. (2^16 - 1)
       /\ m.type = "linear" => m.linear_clamp \in Floats \X Floats
  BY <1>8 DEF PulseMethods, FixedMethods, SteppingMethods, LinearMethods
<1>11. \A v \in Floats : Scaled(v) \in Floats /\ Unscaled(Scaled(v)) = v
  BY <1>9 DEF Scaled, Unscaled, UnitRatio, Floats, ValuesApart
<1>12. Parses(f)
  <2>1. IsUnsigned(f.control_port, 16) /\ IsUnsigned(f.data_port, 16)
        /\ IsCount(f.stable_signal_samples) /\ IsUnsigned(f.bias_steps, 16)
    <3>1. f.control_port \in 0 .. (2^16 - 1)
      <4>1. 6501 \in 0 .. (2^16 - 1)
        OBVIOUS
      <4>2. \A T : \A s \in Seq(T) : s # << >> => Head(s) \in T
        OBVIOUS
      <4>3. c.control_ports # << >> => Head(c.control_ports) \in 0 .. (2^16 - 1)
        BY <1>7, <4>2, Zenon DEF Ports
      <4> QED  BY <1>1, <4>1, <4>3
    <3> QED  BY <3>1, <1>1, <1>2, <1>7, <1>9 DEF IsUnsigned, IsCount, ValuesApart
  <2>2. /\ f.sharp_tip_lower \in Floats /\ f.sharp_tip_upper \in Floats
        /\ f.stable_tip_allowed_change \in Floats /\ f.initial_bias_v \in Floats
        /\ f.bias_range_lower \in Floats /\ f.bias_range_upper \in Floats
    BY <1>1, <1>2, <1>7, <1>11
  <2>3. f.max_cycles # Empty => IsCount(f.max_cycles)
    BY <1>1, <1>8, <1>9 DEF TextOf, IsCount, ValuesApart
  <2>4. f.scan_speed_nm_s # Empty => IsReal(f.scan_speed_nm_s)
    BY <1>2, <1>8, <1>9, <1>11 DEF IsReal, ValuesApart
  <2>5. ASSUME NEW i \in DOMAIN f.tcp_channel_mappings
        PROVE  /\ IsUnsigned(f.tcp_channel_mappings[i].index, 8)
               /\ IsUnsigned(f.tcp_channel_mappings[i].channel, 8)
    <3>1. f.tcp_channel_mappings \in Channels
      BY <1>2, <1>8 DEF Channels
    <3>2. /\ f.tcp_channel_mappings[i].index \in 0 .. (2^8 - 1)
          /\ f.tcp_channel_mappings[i].channel \in 0 .. (2^8 - 1)
      <4>1. \A T : \A s \in Seq(T) : \A j \in DOMAIN s : s[j] \in T
        OBVIOUS
      <4>2. f.tcp_channel_mappings[i] \in [index : 0 .. (2^8 - 1), channel : 0 .. (2^8 - 1)]
        BY <3>1, <4>1, Zenon DEF Channels
      <4> QED  BY <4>2
    <3> QED  BY <3>2, <1>9 DEF IsUnsigned, ValuesApart
  <2> QED  BY <2>1, <2>2, <2>3, <2>4, <2>5, <1>9 DEF Parses, IsReal, ValuesApart
<1>13. ToPulseMethod(f) = Method(c) /\ ToPulseMethod(f) # None
  <2> DEFINE old == m.random_polarity_switch
             new == IF f.random_polarity_enabled
                      THEN [enabled |-> TRUE, every |-> f.random_polarity_switch_every] ELSE None
  <2>1. /\ f.random_polarity_enabled <=> old # None /\ old.enabled
        /\ f.random_polarity_enabled => f.random_polarity_switch_every = old.every
    BY <1>5 DEF SwitchFields
  <2>2. old # None => old = [enabled |-> old.enabled, every |-> old.every] /\ old.enabled \in BOOLEAN
                      /\ old.every \in Nat
    BY <1>10 DEF Switches
  <2>3. /\ new = IF old # None /\ ~old.enabled THEN None ELSE old
        /\ f.random_polarity_enabled => IsCount(f.random_polarity_switch_every)
    <3>1. CASE old # None /\ old.enabled
      <4>1. old = [enabled |-> TRUE, every |-> old.every]
        BY <2>2, <3>1
      <4>2. f.random_polarity_enabled /\ f.random_polarity_switch_every = old.every
        BY <2>1, <3>1
      <4>3. IsCount(f.random_polarity_switch_every)
        BY <2>2, <3>1, <4>2, <1>9 DEF IsCount, ValuesApart
      <4>4. new = old
        BY <4>1, <4>2
      <4> QED  BY <3>1, <4>3, <4>4
    <3>2. CASE ~(old # None /\ old.enabled)
      BY <2>1, <3>2
    <3> QED  BY <3>1, <3>2
  <2>4. Method(c) = [m EXCEPT !.random_polarity_switch = new]
    BY <2>3, <1>8 DEF Method, PulseMethods, FixedMethods, SteppingMethods, LinearMethods
  <2>5. new \in Switches
    BY <1>10, <2>3 DEF Switches
  <2>6. Method(c) # None
    <3>1. Method(c) \in PulseMethods
      BY <1>8, <2>4, <2>5 DEF PulseMethods, FixedMethods, SteppingMethods, LinearMethods
    <3> QED  BY <1>9, <3>1 DEF ValuesApart
  <2> HIDE DEF new
  <2>7. CASE m.type = "fixed"
    <3>1. m = [type |-> "fixed", polarity |-> m.polarity, random_polarity_switch |-> old,
               voltage |-> m.voltage]
      BY <1>8, <2>7 DEF PulseMethods, FixedMethods, SteppingMethods, LinearMethods
    <3>2. Method(c) = [type |-> "fixed", polarity |-> m.polarity, random_polarity_switch |-> new,
                       voltage |-> m.voltage]
      BY <2>4, <3>1
    <3>3. IsReal(f.pulse_voltage)
      BY <1>4, <1>9, <1>10, <2>7 DEF IsReal, ValuesApart
    <3>4. /\ f.pulse_polarity = m.polarity
          /\ m.voltage = f.pulse_voltage
      BY <1>4, <1>10, <2>7
    <3>5. ToPulseMethod(f)
            = [type |-> "fixed", polarity |-> m.polarity, random_polarity_switch |-> new,
                       voltage |-> m.voltage]
      BY <1>4, <2>3, <2>7, <3>3, <3>4 DEF ToPulseMethod, new
    <3> QED  BY <2>6, <3>2, <3>5
  <2>8. CASE m.type = "stepping"
    <3>1. m = [type |-> "stepping", polarity |-> m.polarity, random_polarity_switch |-> old,
               voltage_bounds |-> m.voltage_bounds, voltage_steps |-> m.voltage_steps]
      BY <1>8, <2>8 DEF PulseMethods, FixedMethods, SteppingMethods, LinearMethods
    <3>2. Method(c) = [type |-> "stepping", polarity |-> m.polarity, random_polarity_switch |-> new,
                       voltage_bounds |-> m.voltage_bounds, voltage_steps |-> m.voltage_steps]
      BY <2>4, <3>1
    <3>3. /\ IsReal(f.pulse_voltage_min) /\ IsReal(f.pulse_voltage_max)
          /\ IsUnsigned(f.voltage_steps, 16)
      BY <1>4, <1>9, <1>10, <2>8 DEF IsReal, IsUnsigned, ValuesApart
    <3>4. /\ f.pulse_polarity = m.polarity
          /\ m.voltage_bounds = <<f.pulse_voltage_min, f.pulse_voltage_max>>
          /\ m.voltage_steps = f.voltage_steps
      BY <1>4, <1>10, <2>8
    <3>5. ToPulseMethod(f)
            = [type |-> "stepping", polarity |-> m.polarity, random_polarity_switch |-> new,
                       voltage_bounds |-> m.voltage_bounds, voltage_steps |-> m.voltage_steps]
      BY <1>4, <2>3, <2>8, <3>3, <3>4 DEF ToPulseMethod, new
    <3> QED  BY <2>6, <3>2, <3>5
  <2>9. CASE m.type = "linear"
    <3>1. m = [type |-> "linear", polarity |-> m.polarity, random_polarity_switch |-> old,
               voltage_bounds |-> m.voltage_bounds, linear_clamp |-> m.linear_clamp]
      BY <1>8, <2>9 DEF PulseMethods, FixedMethods, SteppingMethods, LinearMethods
    <3>2. Method(c) = [type |-> "linear", polarity |-> m.polarity, random_polarity_switch |-> new,
                       voltage_bounds |-> m.voltage_bounds, linear_clamp |-> m.linear_clamp]
      BY <2>4, <3>1
    <3>3. /\ IsReal(f.pulse_voltage_min) /\ IsReal(f.pulse_voltage_max)
          /\ IsReal(f.linear_clamp_min) /\ IsReal(f.linear_clamp_max)
      BY <1>4, <1>9, <1>10, <2>9 DEF IsReal, ValuesApart
    <3>4. /\ f.pulse_polarity = m.polarity
          /\ m.voltage_bounds = <<f.pulse_voltage_min, f.pulse_voltage_max>>
          /\ m.linear_clamp = <<f.linear_clamp_min, f.linear_clamp_max>>
      BY <1>4, <1>10, <2>9
    <3>5. ToPulseMethod(f)
            = [type |-> "linear", polarity |-> m.polarity, random_polarity_switch |-> new,
                       voltage_bounds |-> m.voltage_bounds, linear_clamp |-> m.linear_clamp]
      BY <1>4, <2>3, <2>9, <3>3, <3>4 DEF ToPulseMethod, new
    <3> QED  BY <2>6, <3>2, <3>5
  <2> QED  BY <1>10, <2>7, <2>8, <2>9
<1>14. ToAppConfig(f) = Assembled(f)
  BY <1>12, <1>13 DEF ToAppConfig
<1>15. /\ Assembled(f).control_ports = <<f.control_port>>
       /\ Assembled(f).layout_file = OptionOf(f.layout_file)
       /\ Assembled(f).data_port = f.data_port
       /\ Assembled(f).stable_signal_samples = f.stable_signal_samples
       /\ Assembled(f).sharp_tip_bounds = <<f.sharp_tip_lower, f.sharp_tip_upper>>
       /\ Assembled(f).max_cycles = OptionOf(f.max_cycles)
       /\ Assembled(f).initial_bias_v = Unscaled(f.initial_bias_v)
       /\ Assembled(f).check_stability = f.check_stability
  BY DEF Assembled, Over
<1>16. /\ Assembled(f).stable_tip_allowed_change = f.stable_tip_allowed_change
       /\ Assembled(f).bias_range = <<f.bias_range_lower, f.bias_range_upper>>
       /\ Assembled(f).bias_steps = f.bias_steps
       /\ Assembled(f).scan_speed_m_s
            = IF f.scan_speed_nm_s = Empty THEN None ELSE Unscaled(f.scan_speed_nm_s)
       /\ Assembled(f).pulse_method = ToPulseMethod(f)
       /\ Assembled(f).tcp_channel_mapping = IF f.tcp_channel_mappings = << >> THEN None
                                             ELSE f.tcp_channel_mappings
       /\ Assembled(f).timing = "default" /\ Assembled(f).signal_stability = f.signal_stability
  BY DEF Assembled, Over, Unedited
<1>17. /\ f.layout_file # Empty => f.layout_file \in Names
       /\ OptionOf(f.layout_file) = c.layout_file /\ OptionOf(f.max_cycles) = c.max_cycles
       /\ <<f.sharp_tip_lower, f.sharp_tip_upper>> = c.sharp_tip_bounds
       /\ <<f.bias_range_lower, f.bias_range_upper>> = c.bias_range
       /\ Unscaled(f.initial_bias_v) = c.initial_bias_v
  BY <1>1, <1>2, <1>7, <1>8, <1>9, <1>11 DEF TextOf, OptionOf, ValuesApart
<1>18. \A k \in Plain : Assembled(f)[k] = c[k]
  <2>1. Plain = {"layout_file", "data_port", "stable_signal_samples", "sharp_tip_bounds",
                 "max_cycles", "initial_bias_v", "signal_stability", "check_stability",
                 "stable_tip_allowed_change", "bias_range", "bias_steps", "scan_speed_m_s"}
    BY Constants DEF Plain
  <2>2. Assembled(f).scan_speed_m_s = c.scan_speed_m_s
    BY <1>2, <1>8, <1>9, <1>11, <1>16 DEF ValuesApart
  <2> QED  BY <1>1, <1>2, <1>15, <1>16, <1>17, <2>1, <2>2
<1>19. Assembled(f).tcp_channel_mapping = IF Mapping(c) = << >> THEN None ELSE Mapping(c)
  BY <1>2, <1>16 DEF Mapping
<1>20. IsForm(f)
  <2>1. /\ IsText("control_port", f.control_port)
        /\ IsText("layout_file", f.layout_file) /\ IsText("data_port", f.data_port)
        /\ IsText("stable_signal_samples", f.stable_signal_samples)
        /\ IsText("sharp_tip_lower", f.sharp_tip_lower)
        /\ IsText("sharp_tip_upper", f.sharp_tip_upper)
        /\ IsText("max_cycles", f.max_cycles) /\ IsText("initial_bias_v", f.initial_bias_v)
    <3>1. f.control_port \in Int
      BY <1>12 DEF Parses, IsUnsigned
    <3> QED  BY <1>1, <1>7, <1>8, <1>11, <3>1 DEF IsText, Texts, Floats, TextOf
  <2>2. /\ IsText("check_stability", f.check_stability)
        /\ IsText("stable_tip_allowed_change", f.stable_tip_allowed_change)
        /\ IsText("bias_range_lower", f.bias_range_lower)
        /\ IsText("bias_range_upper", f.bias_range_upper)
        /\ IsText("bias_steps", f.bias_steps) /\ IsText("scan_speed_nm_s", f.scan_speed_nm_s)
        /\ IsText("signal_stability", f.signal_stability)
    BY <1>2, <1>7, <1>8, <1>11 DEF IsText, Texts, Floats
  <2>3. /\ IsText("pulse_method_type", f.pulse_method_type)
        /\ IsText("pulse_polarity", f.pulse_polarity)
        /\ IsText("pulse_voltage", f.pulse_voltage)
        /\ IsText("pulse_voltage_min", f.pulse_voltage_min)
        /\ IsText("pulse_voltage_max", f.pulse_voltage_max)
        /\ IsText("voltage_steps", f.voltage_steps)
        /\ IsText("linear_clamp_min", f.linear_clamp_min)
        /\ IsText("linear_clamp_max", f.linear_clamp_max)
    BY <1>4, <1>10 DEF IsText, Texts, Floats
  <2>4. /\ IsText("random_polarity_enabled", f.random_polarity_enabled)
        /\ IsText("random_polarity_switch_every", f.random_polarity_switch_every)
    BY <1>5, <1>10 DEF IsText, Texts, Floats, SwitchFields, Switches
  <2>5. IsText("tcp_channel_mappings", f.tcp_channel_mappings)
    <3>1. f.tcp_channel_mappings \in Channels
      BY <1>2, <1>8 DEF Channels
    <3> DEFINE A == [index : 0 .. (2^8 - 1), channel : 0 .. (2^8 - 1)]
               B == [index : Texts, channel : Texts]
    <3>2. A \subseteq B
      BY DEF Texts, Floats
    <3>3. f.tcp_channel_mappings \in Seq(A)
      BY <3>1 DEF Channels
    <3>4. f.tcp_channel_mappings \in Seq(B)
      <4> HIDE DEF A, B
      <4> QED  BY <3>2, <3>3
    <3> QED  BY <3>4 DEF IsText
  <2> QED  BY <1>6, <2>1, <2>2, <2>3, <2>4, <2>5 DEF IsForm, DefaultForm
<1>21. Assembled(f) # None
  BY <1>12, <1>13, <1>20, AssembledType
<1> QED  BY <1>1, <1>13, <1>14, <1>15, <1>16, <1>18, <1>19, <1>20, <1>21

-----------------------------------------------------------------------------
(***************************************************************************)
(* The tab and the run.                                                    *)
(***************************************************************************)

\* Every file is a document, and the form has the types of its fields.
Typed ==
  /\ disk = [p \in Paths |-> disk[p]] /\ saved = [p \in Paths |-> saved[p]]
  /\ \A p \in Paths : disk[p] # None => IsDocument(disk[p])
  /\ IsForm(form)

\* A form that was loaded and not edited since is that of a valid configuration.
SourceInForm ==
  source # None => IsConfig(source) /\ Valid(source) /\ form = FromAppConfig(source)

\* What was saved last at a path is still there.
SavedOnDisk ==
  \A p \in Paths : saved[p] # None =>
    IsConfig(saved[p]) /\ Normal(saved[p]) /\ disk[p] = Serialize(saved[p])

\* LoadedIsRun: a configuration that was loaded and not edited since is the one a run
\* gets, valid as it was, and is never refused.
THEOREM LoadedIsRunHolds == Spec => [](LoadedIsRun /\ Typed /\ SourceInForm /\ SavedOnDisk)
<1> DEFINE Inv == LoadedIsRun /\ Typed /\ SourceInForm /\ SavedOnDisk
<1>1. ASSUME NEW c, IsConfig(c), Valid(c), NEW r, r = ToAppConfig(FromAppConfig(c))
      PROVE  /\ r # None /\ Valid(r)
             /\ \A k \in Plain : r[k] = c[k]
             /\ Port(c) \in {None, Port(r)} /\ Method(r) = Method(c) /\ Mapping(r) = Mapping(c)
  <2>1. /\ r # None /\ \A k \in Plain : r[k] = c[k]
        /\ r.control_ports = IF c.control_ports = << >> THEN <<6501>> ELSE <<Head(c.control_ports)>>
        /\ r.pulse_method = Method(c)
        /\ r.tcp_channel_mapping = IF Mapping(c) = << >> THEN None ELSE Mapping(c)
    BY <1>1, RoundTrip
  <2>2. c.pulse_method \in PulseMethods
    BY <1>1, Constants DEF IsConfig, IsValue, Optional
  <2>3. Method(r) = Method(c)
    BY <2>1, <2>2 DEF Method, PulseMethods, FixedMethods, SteppingMethods, LinearMethods
  <2>4. Port(c) \in {None, Port(r)}
    BY <2>1 DEF Port
  <2>5. Mapping(r) = Mapping(c)
    BY <2>1 DEF Mapping
  <2>6. StabilityValid(r)
    BY <1>1, <2>1, Constants DEF Valid, StabilityValid, Plain
  <2>7. PulseMethodValid(r.pulse_method)
    BY <1>1, <2>1, <2>2 DEF Valid, PulseMethodValid, Method, PulseMethods, FixedMethods,
       SteppingMethods, LinearMethods
  <2> QED  BY <2>1, <2>3, <2>4, <2>5, <2>6, <2>7 DEF Valid
<1>2. IsForm(DefaultForm) /\ IsDocument(<< >>)
  <2>1. IsDocument(<< >>)
    BY DEF IsDocument
  <2>2. Scaled(-500) \in Int /\ Scaled(5) \in Int
    BY Constants DEF Scaled, UnitRatio, ValuesApart
  <2>3. "default" \in Names
    BY Constants DEF ValuesApart
  <2> DEFINE Switched == {"check_stability", "random_polarity_enabled"}
             Chosen   == {"pulse_method_type", "pulse_polarity", "tcp_channel_mappings",
                          "layout_file", "signal_stability"}
  <2>4. \A k \in Switched : IsText(k, DefaultForm[k])
    <3>1. /\ IsText("check_stability", TRUE) /\ IsText("random_polarity_enabled", FALSE)
          /\ DefaultForm.check_stability = TRUE /\ DefaultForm.random_polarity_enabled = FALSE
      BY DEF IsText, DefaultForm
    <3> QED  BY <3>1
  <2>5. \A k \in Chosen : IsText(k, DefaultForm[k])
    <3>1. /\ DefaultForm.pulse_method_type = "stepping" /\ DefaultForm.pulse_polarity = "negative"
          /\ DefaultForm.tcp_channel_mappings = << >> /\ DefaultForm.layout_file = Empty
          /\ DefaultForm.signal_stability = "default"
      BY DEF DefaultForm
    <3>2. IsText("tcp_channel_mappings", << >>)
      BY DEF IsText
    <3>3. /\ IsText("pulse_method_type", "stepping") /\ IsText("pulse_polarity", "negative")
          /\ IsText("layout_file", Empty) /\ IsText("signal_stability", "default")
      BY <2>3 DEF IsText
    <3> QED  BY <3>1, <3>2, <3>3
  <2>6. \A k \in DOMAIN DefaultForm \ (Switched \cup Chosen) : IsText(k, DefaultForm[k])
    <3>1. \A k \in DOMAIN DefaultForm \ (Switched \cup Chosen) : DefaultForm[k] \in Int
      BY <2>2 DEF DefaultForm
    <3> QED  BY <3>1 DEF IsText, Texts, Floats
  <2> QED  BY <2>1, <2>4, <2>5, <2>6 DEF IsForm
<1>3. ASSUME NEW d, d # None => IsDocument(d), NEW c, c = LoadConfig(d), c # None
      PROVE  IsConfig(c) /\ Valid(c)
  <2>1. c = Deserialize(d) /\ d # None /\ Valid(c)
    BY <1>3 DEF LoadConfig
  <2>2. /\ Required \subseteq DOMAIN Over(Environment, d)
        /\ \A k \in DOMAIN Over(Environment, d) : Over(Environment, d)[k] # Junk
    BY <1>3, <2>1 DEF Deserialize
  <2> QED  BY <1>3, <2>1, <2>2, LoadedType
<1>4. ASSUME NEW f, IsForm(f), NEW c, c = ToAppConfig(f), c # None
      PROVE  /\ IsConfig(c) /\ Normal(c) /\ IsDocument(Serialize(c))
  <2>1. IsConfig(c) /\ Normal(c)
    BY <1>4, AssembledType DEF ToAppConfig
  <2>2. IsDocument(Serialize(c))
    BY <2>1 DEF Serialize, IsDocument, IsConfig
  <2> QED  BY <2>1, <2>2
<1>5. Init => Inv
  BY <1>2, FilesAssumption DEF Init, LoadedIsRun, Typed, SourceInForm, SavedOnDisk
<1>6. Inv /\ [Next]_vars => Inv'
  <2> SUFFICES ASSUME Inv, [Next]_vars PROVE Inv'
    OBVIOUS
  <2> USE DEF Typed, SourceInForm, SavedOnDisk, LoadedIsRun, tab, session, files
  <2>1. ASSUME NEW p \in Paths, Load(p) PROVE Inv'
    <3>1. CASE LoadConfig(disk[p]) = None
      BY <2>1, <3>1 DEF Load
    <3>2. CASE LoadConfig(disk[p]) # None
      <4>1. IsConfig(source') /\ Valid(source') /\ form' = FromAppConfig(source')
        BY <2>1, <3>2, <1>3 DEF Load
      <4>2. IsForm(form')
        BY <4>1, RoundTrip
      <4> QED  BY <2>1, <3>2, <4>1, <4>2 DEF Load
    <3> QED  BY <3>1, <3>2
  <2>2. ASSUME NEW p \in Paths, Save(p) PROVE Inv'
    <3> DEFINE config == ToAppConfig(form)
    <3>1. CASE config = None
      <4>1. source = None
        BY <3>1, <1>1
      <4> QED  BY <2>2, <3>1, <4>1 DEF Save
    <3>2. CASE config # None
      <4>1. IsConfig(config) /\ Normal(config) /\ IsDocument(Serialize(config))
        BY <3>2, <1>4
      <4> HIDE DEF config
      <4>2. CASE disk' = [disk EXCEPT ![p] = Serialize(config)] /\ saved' = [saved EXCEPT ![p] = config]
                 /\ message' = "saved"
        BY <2>2, <3>2, <4>1, <4>2 DEF Save
      <4>3. CASE UNCHANGED files /\ message' = "writeFailed"
        BY <2>2, <4>3 DEF Save
      <4>4. CASE disk' = [disk EXCEPT ![p] = << >>] /\ saved' = [saved EXCEPT ![p] = None]
                 /\ message' = "writeFailed"
        BY <2>2, <4>4, <1>2 DEF Save
      <4> QED  BY <2>2, <3>2, <4>2, <4>3, <4>4 DEF Save, config
    <3> QED  BY <3>1, <3>2
  <2>3. ASSUME NEW p \in Paths, ReplaceFile(p) PROVE Inv'
    BY <2>3, FilesAssumption DEF ReplaceFile
  <2>4. CASE Edit
    <3>1. IsForm(form')
      BY <2>4, FilesAssumption DEF Edit, IsForm
    <3> QED  BY <2>4, <3>1 DEF Edit
  <2>5. CASE Reset
    BY <2>5, <1>2 DEF Reset
  <2>6. CASE Start
    <3> DEFINE config == ToAppConfig(form)
    <3>1. CASE config = None
      <4>1. source = None
        BY <3>1, <1>1
      <4> QED  BY <2>6, <3>1, <4>1 DEF Start
    <3>2. CASE config # None
      <4>1. source # None =>
              /\ Valid(config) /\ \A k \in Plain : config[k] = source[k]
              /\ Port(source) \in {None, Port(config)} /\ Method(config) = Method(source)
              /\ Mapping(config) = Mapping(source)
        BY <1>1
      <4>2. run' = config /\ runSource' = source /\ message' = "started"
            /\ UNCHANGED <<tab, files>>
        BY <2>6, <3>2 DEF Start
      <4> HIDE DEF config
      <4> QED  BY <4>1, <4>2
    <3> QED  BY <3>1, <3>2
  <2>7. CASE RunEnds
    BY <2>7 DEF RunEnds
  <2>8. CASE UNCHANGED vars
    BY <2>8 DEF vars
  <2> QED  BY <2>1, <2>2, <2>3, <2>4, <2>5, <2>6, <2>7, <2>8 DEF Next
<1> QED  BY <1>5, <1>6, PTL DEF Spec

\* SavedReloads: what the tab saves, it loads again or refuses.  An environment with a
\* value of the wrong type is left out: with one, no file loads.
THEOREM SavedReloadsHolds ==
  ASSUME \A k \in DOMAIN Environment : Environment[k] # Junk
  PROVE  Spec => SavedReloads
<1>1. ASSUME NEW v, NEW k \in Keys, IsValue(k, v)
      PROVE  v # None /\ v # Junk
  <2>1. v \in Values
    BY <1>1, Constants DEF IsValue, Values, Floats
  <2> QED  BY <2>1, ValuesAssumption
<1>2. ASSUME NEW c, IsConfig(c), NEW d, d = Serialize(c)
      PROVE  LET r == Deserialize(d)
             IN /\ IsConfig(r) /\ r # None
                /\ \A k \in Keys \ {"scan_speed_m_s"} : r[k] = Over(Environment, c)[k]
                /\ Valid(r) <=> Valid(Over(Environment, c))
  <2> DEFINE layered == Over(Environment, d)
             r == Deserialize(d)
             e == Over(Environment, c)
  <2>1. /\ DOMAIN d \subseteq Keys
        /\ \A k \in Keys : k \in DOMAIN d <=> c[k] # None
        /\ \A k \in DOMAIN d : d[k] = c[k]
    BY <1>2 DEF Serialize
  <2>2. \A k \in DOMAIN d : IsValue(k, d[k])
    BY <1>2, <2>1 DEF IsConfig
  <2>3. IsDocument(d)
    BY <2>1, <2>2 DEF IsDocument
  <2>4. DOMAIN Environment \subseteq Keys
    BY EnvironmentAssumption DEF IsDocument
  <2>5. /\ DOMAIN layered = DOMAIN Environment \cup DOMAIN d
        /\ \A k \in DOMAIN layered :
             layered[k] = IF k \in DOMAIN Environment THEN Environment[k] ELSE d[k]
    BY DEF Over
  <2> HIDE DEF layered
  <2>6. \A k \in DOMAIN layered : layered[k] # Junk
    BY <1>1, <2>1, <2>2, <2>5
  <2>7. Required \subseteq DOMAIN layered
    <3>1. \A k \in Required : k \in Keys /\ c[k] # None
      BY <1>1, <1>2, Constants DEF Required, IsConfig, Optional
    <3> QED  BY <2>1, <2>5, <3>1
  <2>8. /\ r # None /\ IsConfig(r)
        /\ \A k \in Keys : r[k] = IF k \in DOMAIN layered THEN layered[k] ELSE FieldDefaults[k]
    BY <2>3, <2>6, <2>7, LoadedType DEF layered
  <2>9. \A k \in Keys \ {"scan_speed_m_s"} : r[k] = e[k]
    <3>1. \A k \in {"layout_file", "max_cycles", "tcp_channel_mapping"} : FieldDefaults[k] = None
      BY DEF FieldDefaults, DefaultConfig, DefaultStability, Over
    <3>2. \A k \in Keys \ {"scan_speed_m_s"} : c[k] = None => FieldDefaults[k] = None
      BY <1>1, <1>2, <3>1 DEF IsConfig, Optional
    <3>3. \A k \in Keys : e[k] = IF k \in DOMAIN Environment THEN Environment[k] ELSE c[k]
      BY <1>2 DEF Over, IsConfig
    <3> HIDE DEF e, r
    <3> QED  BY <2>1, <2>5, <2>8, <3>2, <3>3
  <2>10. Valid(r) <=> Valid(e)
    <3> HIDE DEF e, r
    <3> QED  BY <2>9, Constants DEF Valid, StabilityValid
  <2> HIDE DEF e, r
  <2> QED  BY <2>8, <2>9, <2>10 DEF e, r
<1>3. ASSUME NEW c, IsConfig(c), Normal(c), NEW r, IsConfig(r),
             NEW K, \A k \in K : k \in Keys /\ r[k] = c[k]
      PROVE  \A k \in K : ToAppConfig(FromAppConfig(r))[k] = c[k]
  <2> DEFINE t == ToAppConfig(FromAppConfig(r))
  <2>1. /\ \A k \in Plain : t[k] = r[k]
        /\ t.control_ports = IF r.control_ports = << >> THEN <<6501>> ELSE <<Head(r.control_ports)>>
        /\ t.pulse_method = Method(r)
        /\ t.tcp_channel_mapping = IF Mapping(r) = << >> THEN None ELSE Mapping(r)
        /\ t.timing = "default"
    BY <1>3, RoundTrip
  <2> HIDE DEF t
  <2>2. "control_ports" \in K => t.control_ports = c.control_ports
    BY <1>3, <2>1 DEF Normal
  <2>3. "pulse_method" \in K => t.pulse_method = c.pulse_method
    BY <1>3, <2>1 DEF Normal, Method
  <2>4. "tcp_channel_mapping" \in K => t.tcp_channel_mapping = c.tcp_channel_mapping
    BY <1>3, <2>1 DEF Normal, Mapping
  <2>5. "timing" \in K => t.timing = c.timing
    BY <1>3, <2>1 DEF Normal
  <2> QED  BY <1>3, <2>1, <2>2, <2>3, <2>4, <2>5 DEF Plain, t
<1>4. ASSUME SavedOnDisk, NEW p \in Paths, Load(p), saved[p] # None
      PROVE  LET c == saved[p]
             IN IF Valid(Over(Environment, c))
                  THEN \A k \in Keys \ (DOMAIN Environment \cup {"scan_speed_m_s"}) :
                         ToAppConfig(form')[k] = c[k]
                  ELSE UNCHANGED form /\ message' = "loadFailed"
  <2> DEFINE c == saved[p]
             r == Deserialize(disk[p])
             K == Keys \ (DOMAIN Environment \cup {"scan_speed_m_s"})
  <2>1. IsConfig(c) /\ Normal(c) /\ disk[p] = Serialize(c)
    BY <1>4 DEF SavedOnDisk
  <2>2. /\ IsConfig(r) /\ r # None
        /\ \A k \in Keys \ {"scan_speed_m_s"} : r[k] = Over(Environment, c)[k]
        /\ Valid(r) <=> Valid(Over(Environment, c))
    BY <2>1, <1>2
  <2>3. disk[p] # None
    <3>1. \A k \in Keys : c[k] \in Values \cup {None}
      BY Constants, <2>1 DEF IsConfig, IsValue, Values, Optional, Floats
    <3>2. Serialize(c) \in [{k \in Keys : c[k] # None} -> Values \cup {None}]
      BY <3>1 DEF Serialize
    <3> QED  BY <2>1, <3>2, ValuesAssumption
  <2>4. LoadConfig(disk[p]) = IF Valid(r) THEN r ELSE None
    BY <2>2, <2>3 DEF LoadConfig
  <2>5. \A k \in K : k \in Keys /\ r[k] = c[k]
    BY <2>1, <2>2 DEF Over, IsConfig
  <2> HIDE DEF r, K
  <2>6. CASE Valid(r)
    <3>1. form' = FromAppConfig(r)
      BY <1>4, <2>2, <2>4, <2>6 DEF Load
    <3>2. \A k \in K : ToAppConfig(FromAppConfig(r))[k] = c[k]
      BY <1>3, <2>1, <2>2, <2>5
    <3> QED  BY <2>2, <2>6, <3>1, <3>2 DEF K
  <2>7. CASE ~Valid(r)
    BY <1>4, <2>2, <2>3, <2>4, <2>7 DEF Load
  <2> QED  BY <2>6, <2>7
<1>5. SavedOnDisk /\ [Next]_vars =>
        [\A p \in Paths : Load(p) /\ saved[p] # None =>
           LET c == saved[p]
           IN IF Valid(Over(Environment, c))
                THEN \A k \in Keys \ (DOMAIN Environment \cup {"scan_speed_m_s"}) :
                       ToAppConfig(form')[k] = c[k]
                ELSE UNCHANGED form /\ message' = "loadFailed"]_vars
  BY <1>4
<1> QED  BY <1>5, LoadedIsRunHolds, PTL DEF Spec, SavedReloads
=============================================================================
