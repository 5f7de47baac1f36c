--------------------------- MODULE MCSessionHost ---------------------------
(* The whole binary on a host with a single Android device, plugged in.    *)
EXTENDS SessionHost

CONSTANTS a1, h1

MCAndroid == {a1}
MCHandler == {h1}

\* Left to the run of the life cycle alone: a list that outlives a crash, and a
\* go-ios child that ends before anything else does.
Calm == late = {} /\ (tunnelGo = "done" => signal)

\* A status on its way arrives, or is lost with the process, before anything else
\* happens: it changes only what the backend shows, which no step here reads.
Prompt == (\E m \in DOMAIN flight : flight[m] > 0) => flight' # flight \/ proc' # proc

PluggedHost ==
    /\ HostInit /\ hw = [d \in Device |-> "connected"]
    /\ [][HostNext /\ Calm' /\ Prompt]_hostVars
=============================================================================
