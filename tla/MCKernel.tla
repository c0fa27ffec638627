------------------------------ MODULE MCKernel ------------------------------
(***************************************************************************)
(* Fifo, MultipleReaderFifo and Suspension for TLC, which looks at one at  *)
(* a time: the two others stay as they are at the start.                   *)
(***************************************************************************)
EXTENDS Fifo, Suspension

CONSTANTS NumReaders, MaxPuts, PutsInGet, GetsInPut,
          t1, data, written

VARIABLES kind, mBuffer, mWriteX, mReadX, overflowCnt, readerCnt, mWpc, i, wLoaded, val,
          mRpc, rLoaded, mRVal, putsMet, getsMet, last, skipped

Multiple == INSTANCE MultipleReaderFifo
            WITH buffer <- mBuffer, writeX <- mWriteX, readX <- mReadX,
                 wpc <- mWpc, rpc <- mRpc, rVal <- mRVal

mVars == <<mBuffer, mWriteX, mReadX, overflowCnt, readerCnt, mWpc, i, wLoaded, val,
           mRpc, rLoaded, mRVal, putsMet, getsMet, last, skipped>>

MCInit ==
    /\ kind \in {"Fifo", "MultipleReaderFifo", "Suspension"}
    /\ Init /\ Multiple!Init /\ SuspensionInit
    /\ LET v == CHOOSE v \in Val : TRUE IN
       kind # "Fifo" => wVal = v /\ \A e \in {got, rVal} \cup {buffer[x] : x \in Index} : e = <<v, v>>

MCNext ==
    \/ kind = "Fifo" /\ Next /\ UNCHANGED <<kind, mVars, suspensionVars>>
    \/ kind = "MultipleReaderFifo" /\ Multiple!Next /\ UNCHANGED <<kind, vars, suspensionVars>>
    \/ kind = "Suspension" /\ SuspensionNext /\ UNCHANGED <<kind, vars, mVars>>

MCSpec == MCInit /\ [][MCNext]_<<kind, vars, mVars, suspensionVars>>

(* What MultipleReaderFifo promises to its readers (fifo.h:306, 323).      *)
NewerOrCounted == Multiple!NewerOrCounted
=============================================================================
