-------------------------- MODULE MCPassiveServer --------------------------
(* One constant "T" and one program "P": every handler in its accepting and *)
(* in its refusing form, messages that ask for no reply, and a function     *)
(* that an adapter drops.                                                   *)
EXTENDS PassiveServer

MCRequests ==
  {Request("S1F1", "other", <<>>), Request("S1F3", "list", <<>>),
   Request("S2F13", "list", <<"T">>), Request("S2F13", "list", <<>>),
   Request("S2F15", "list", <<"T", Malformed, "T">>), Request("S2F15", "list", <<"U">>),
   Request("S2F15", "other", <<>>),
   Request("S2F31", "ascii", <<>>), Request("S2F31", "other", <<>>),
   Request("S2F41", "list", <<>>), Request("S1F17", "other", <<>>),
   Request("S7F1", "list", <<"P">>), Request("S7F3", "binary", <<"P">>),
   Request("S7F3", "other", <<"P">>), Request("S7F5", "ascii", <<"P">>),
   Request("S10F3", "list", <<>>), Request("S10F3", "other", <<>>),
   Unasked(Request("S2F15", "list", <<"T">>)), Unasked(Request("S9F1", "other", <<>>)),
   Request("S9F1", "other", <<>>), Request("S99F1", "other", <<>>),
   Request("undecodable", "other", <<>>)}

MCOtherRequests ==
  {Request("S2F15", "list", <<"T">>), Request("S7F3", "ascii", <<"P">>)}

MCAdapters == <<{}, {"S99F1"}>>

=============================================================================
