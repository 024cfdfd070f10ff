------------------------------ MODULE MCBench ------------------------------
(***************************************************************************)
(* The push-button counter, the two pictures and the reference pipeline,   *)
(* for one run of TLC.  They share no wire, so only one of them is on the  *)
(* bench and gets clock edges; the others lie beside it, in one of their   *)
(* states at power-up.                                                     *)
(***************************************************************************)
EXTENDS VgaPipeline, VgaBoards, SevenSegCounter

VARIABLE design  \* what is on the bench

\* The designs that are not on the bench have one state at power-up.
BenchInit ==
  /\ design \in {"counter", "boards", "pipeline"}
  /\ CounterInit /\ BoardsInit /\ Init
  /\ design # "counter" => r_LED1 = 0
  /\ design # "boards" => on = {}
  /\ design # "pipeline" => <<g_Video, o_HSync, o_VSync, o_Video>> = <<{}, 1, 1, {}>>

CounterRests ==
  UNCHANGED <<r_State, r_Count, r_SW1, r_Count1, r_LED1, hex_encoding, level, run>>

BoardsRest ==
  UNCHANGED <<o_CountCol, o_CountRow, o_HSync_PG, o_VSync_PG, lit, hRun, vRun,
              on, s_HSync, s_VSync, s_lit, s_hRun, s_vRun>>

PipelineRests ==
  UNCHANGED <<col, row, g_HCount, g_VCount, g_Col, g_Row, g_HSync, g_VSync, g_Video,
              p_HCount, p_VCount, p_Col, p_Row, r_Video, o_HSync, o_VSync, o_Video, age>>

BenchNext ==
  /\ UNCHANGED design
  /\ \/ design = "counter" /\ CounterNext /\ BoardsRest /\ PipelineRests
     \/ design = "boards" /\ BoardsNext /\ CounterRests /\ PipelineRests
     \/ design = "pipeline" /\ Next /\ CounterRests /\ BoardsRest

BenchSpec == BenchInit /\ [][BenchNext]_<<design, counterVars, boardVars, vars>>
=============================================================================
