------------------------ MODULE MCGuiConfiguration ------------------------
(***************************************************************************)
(* An instance of GuiConfiguration: documents that use every pulse method, *)
(* leave out optional keys, carry a NaN or fail each stage of loading.     *)
(***************************************************************************)
EXTENDS GuiConfiguration

FixedMethod ==
  [type |-> "fixed", voltage |-> 8000, polarity |-> "negative",
   random_polarity_switch |-> [enabled |-> FALSE, every |-> 5]]

LinearMethod ==
  [type |-> "linear", voltage_bounds |-> <<1000, 9000>>, linear_clamp |-> <<-15000, -1000>>,
   polarity |-> "positive", random_polarity_switch |-> [enabled |-> TRUE, every |-> 3]]

\* Only what has no default, with the timings of a demo.
Sparse ==
  [control_ports |-> <<6501, 6502>>, data_port |-> 6590, sharp_tip_bounds |-> <<-3000, 0>>,
   pulse_method |-> FixedMethod, timing |-> "compressed"]

Complete ==
  [DefaultConfig EXCEPT !.pulse_method = LinearMethod, !.signal_stability = "loose",
                        !.control_ports = << >>, !.layout_file = "layout.lyt",
                        !.stable_tip_allowed_change = NaN, !.scan_speed_m_s = 60,
                        !.tcp_channel_mapping = <<[index |-> 76, channel |-> 18]>>]

Reversed  == [bias_range |-> <<2000, 10>>] @@ Sparse
Malformed == [max_cycles |-> Junk] @@ Sparse
Partial   == [data_port |-> 6590]

MCDocuments == {Sparse, Complete, Reversed, Malformed, Partial}

MCEdits ==
  {<<"pulse_voltage_min", -2000>>, <<"scan_speed_nm_s", Empty>>, <<"control_port", Junk>>,
   <<"pulse_method_type", "stepping">>, <<"random_polarity_enabled", TRUE>>,
   <<"initial_bias_v", NaN>>, <<"max_cycles", Empty>>,
   <<"tcp_channel_mappings", <<[index |-> Empty, channel |-> Empty]>>>>}

MCNames == {"default", "compressed", "loose", "layout.lyt"}

\* The environment sets a key that no edit sets.
MCEnvironment == [stable_signal_samples |-> 64]

\* What load_config_with_fallback uses when it finds no file must pass its own
\* validation, and so must what the form starts with.
ASSUME Valid(DefaultConfig) /\ Valid(ToAppConfig(DefaultForm))
=============================================================================
