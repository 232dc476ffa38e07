---------------------------- MODULE AtArguments -----------------------------
(***************************************************************************)
(* AtParser with lines that carry arguments: a response begins with what   *)
(* the command expects, and goes on with arguments that are written as     *)
(* AtText writes those of a command. The client reads them with the format *)
(* they were written with.                                                 *)
(***************************************************************************)
EXTENDS AtParser, AtText

CONSTANT Prefix  \* what a response with arguments begins with

\* The format buffer holds an IPv6 address, a string is not cut, and what carries
\* arguments fits into the receive buffer.
ASSUME ArgumentsAssumption ==
    /\ FormatBufLen >= 42
    /\ Prefix \in Seq(Printing)
    /\ \A m \in Messages :
           m.args # <<>> =>
               /\ m.args \in Seq(Argument)
               /\ \A i \in 1 .. Len(m.args) :
                      m.args[i].kind \in {"s", "$"} => KeepsEscapes(m.args[i].text)
               /\ m.text = Prefix \o Arguments(m.args)
               /\ Len(m.text) < RxBufferLen

-----------------------------------------------------------------------------
\* The arguments of a message that is taken for the response come out of it as they
\* went in, all of them: strings with quotes, commas, brackets, escapes and bytes
\* that do not print, lists and hex strings that are converted in the buffer they
\* are read from, addresses, and in whatever place.
ArgumentsArrive ==
    \A i \in DOMAIN log :
        LET args == Lines[i].args
        IN  args # <<>> /\ log[i].kind = "rsp" /\ log[i].expected = Prefix =>
              ParseParams(log[i].params, Formats(args)) = [ret |-> Len(args), vals |-> args]
=============================================================================
