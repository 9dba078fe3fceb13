----------------------------- MODULE MCCmdLine -----------------------------
(* Instances of CmdLine.  "Modern" is a template, "x" is not.                *)
EXTENDS CmdLine, TLC

MCKey == {"iso", "image", "memory"}
MCValue == {"x", "Modern"}
MCTemplateOf ==
  [v \in MCValue \cup {"Generic"} |->
     CASE v = "Generic" -> [memory |-> "x"]
       [] v = "Modern"  -> [memory |-> "Modern"]
       [] OTHER         -> [k \in {} |-> "x"]]
=============================================================================
