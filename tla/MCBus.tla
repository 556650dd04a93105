------------------------------- MODULE MCBus -------------------------------
(* Small configurations of Bus for TLC. *)
EXTENDS Bus, TLC

\* One option per transport kind and flow, by name.
Options == {"file_read", "file_write", "file_write_read",
            "connect_receive", "connect_send", "connect_send_receive",
            "listen_receive", "listen_send", "listen_send_receive",
            "exec_receive", "exec_send", "exec_send_receive"}

KindOfOption(o) ==
  CASE o \in {"file_read", "file_write", "file_write_read"} -> "file"
    [] o \in {"connect_receive", "connect_send", "connect_send_receive"} -> "outgoing"
    [] o \in {"listen_receive", "listen_send", "listen_send_receive"} -> "incoming"
    [] o \in {"exec_receive", "exec_send", "exec_send_receive"} -> "exec"
FlowOfOption(o) ==
  CASE o \in {"file_read", "connect_receive", "listen_receive", "exec_receive"}
         -> "receive"
    [] o \in {"file_write", "connect_send", "listen_send", "exec_send"} -> "send"
    [] o \in {"file_write_read", "connect_send_receive", "listen_send_receive",
              "exec_send_receive"} -> "send_receive"

MCKind == [t \in Transports |-> KindOfOption(t)]
MCFlowOf == [t \in Transports |-> FlowOfOption(t)]

Symmetry == Permutations(Conns)
=============================================================================
