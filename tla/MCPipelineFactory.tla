------------------------- MODULE MCPipelineFactory -------------------------
(***************************************************************************)
(* One plugin that every kind of socket uses, one that only reloads bring  *)
(* in, and a pipeline without a library; two callbacks.                    *)
(***************************************************************************)
EXTENDS PipelineFactory, TLC

MCProxyPipelines == <<"stream">>

MCProtocolPipelines == <<"stream">>

MCGatewayPipelines == <<"stream", "wire">>

MCReloads == {<<"wire">>, <<"wire", "stream">>, <<"stream", "missing">>}

MCSymmetry == Permutations(Callbacks)

=============================================================================
