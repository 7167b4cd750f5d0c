------------------------------- MODULE MCListener -------------------------------
(* Bounds for Listener. *)
EXTENDS Listener

\* Nodes that set the listener's context, those they need, and one for text.
ContextNodes ==
    {"BashCommandSequence", "BashPipeline", "Block", "ClassDefinition", "MethodDefinition",
     "ConstructorDefinition", "DatamemberDeclaration", "ObjectInstantiation", "DeleteStatement",
     "BashFunction", "IncludeStatement", "ObjectAssignment", "ValueAssignment",
     "ObjectReference", "ArrayIndex", "Supershell", "DynamicCast", "DynamicCastTarget"}

\* Every node, not very deep, and the nodes of the context, deeper and with more errors.
BroadAndDeep ==
    {[nodes |-> AllNodes,     depth |-> 6, files |-> 1, errors |-> 1],
     [nodes |-> ContextNodes, depth |-> 8, files |-> 2, errors |-> 2]}

Deep == {[nodes |-> ContextNodes, depth |-> 8, files |-> 2, errors |-> 1]}
================================================================================
