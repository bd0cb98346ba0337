---------------------------- MODULE MCSmartLink -----------------------------
(***************************************************************************)
(* Payloads and noise for SmartLink.                                       *)
(***************************************************************************)
EXTENDS SmartLink

CONSTANTS s1, s2

MCStations == {s1, s2}

\* "!", "k/P", "*i#S8": every flag of a round carries one nibble.
PlainPayloads == {<<33>>, <<107, 47, 80>>, <<42, 105, 35, 83, 56>>}
ShortPayloads == {<<33>>, <<107, 47, 80>>}

\* "wuminghui,8888888", the argument README.md gives as the example.
ReadmePayload == {<<119, 117, 109, 105, 110, 103, 104, 117, 105, 44,
                    56, 56, 56, 56, 56, 56, 56>>}

\* Frames of another station: two that pass for the halves of START, ones under
\* flags no round of ShortPayloads uses, one recvfrom cuts, and one too short.
MCNoise == [len : {LenBase + 7, LenBase + 16 * 6 + 15, LenBase + 16 * 80, 3227, 10, -1},
            src : {s2}]

NoNoise == {}

ASSUME ShortPayloadsAssumption == ShortPayloads \cap Payloads \subseteq Deliverable
=============================================================================
