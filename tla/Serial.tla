--------------------------------- MODULE Serial ---------------------------------
(***************************************************************************)
(* How a serial line is set up: what CSerial makes of the configured speed *)
(* and of the settings that a script gives, as sets of termios flags.      *)
(***************************************************************************)
EXTENDS Naturals, Sequences

\* CSerial::intToBaudRate knows these speeds; any other is brUnknown.
BaudRates ==
  {0, 50, 75, 110, 134, 150, 200, 300, 600, 1200, 1800, 2400, 4800, 9600, 19200, 38400, 57600,
   115200, 230400, 460800, 500000, 576000, 921600, 1000000, 1152000, 1500000, 2000000, 2500000,
   3000000, 3500000, 4000000}

EParity == {"pOdd", "pEven", "pNone"}
EStopBits == {"sbOne", "sbTwo"}
EFlowControl == {"fcHard", "fcSoft", "fcNone"}
EBitsPerByte == {"CS5", "CS6", "CS7", "CS8"}

Software == {"IXON", "IXOFF", "IXANY"}

\* CSerial::setOptions: every word starts at zero, then each setting has its turn.
SetOptions(parity, stopBits, flowControl, bitsPerByte) ==
  [cflag |-> {"CLOCAL", "CREAD", bitsPerByte}
             \cup (CASE parity = "pOdd" -> {"PARENB", "PARODD"}
                     [] parity = "pEven" -> {"PARENB"}
                     [] parity = "pNone" -> {})
             \cup (IF stopBits = "sbTwo" THEN {"CSTOPB"} ELSE {})
             \cup (IF flowControl = "fcHard" THEN {"CRTSCTS"} ELSE {}),
   lflag |-> {"ICANON"},
   iflag |-> IF flowControl = "fcSoft" THEN Software ELSE {},
   oflag |-> {}]

\* CSerial::endlToString, as codes; what is no ECommandEndl ends like ceCR.
EndlToString(endl) ==
  CASE endl = "ceLF" -> <<10>>
    [] endl = "ceCRLF" -> <<13, 10>>
    [] endl = "ceSUB" -> <<26>>
    [] endl = "ceNULL" -> <<0>>
    [] endl = "ceETX" -> <<3>>
    [] OTHER -> <<13>>

=============================================================================
