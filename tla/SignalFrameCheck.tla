--------------------------- MODULE SignalFrameCheck ---------------------------
(***************************************************************************)
(* validate_signal_frame(): the check that aetus_enqueue_signal_frame()    *)
(* and encode_signal_frame() make, with the size_t arithmetic it rests on. *)
(***************************************************************************)
EXTENDS Integers, Sequences

CONSTANTS
    NULL,
    SamplesMax,      \* AETUS_SIGNAL_SAMPLES_MAX
    ChannelsMax,     \* AETUS_SIGNAL_CHANNELS_MAX
    SizeMax          \* SIZE_MAX, scaled

\* An encoding that is not of the enumeration has no width.
signal_sample_width_bytes(encoding) ==
    CASE encoding \in {"int16_le", "uint16_le"} -> 2
      [] encoding \in {"float32_le", "int32_le"} -> 4
      [] OTHER -> 0

Refused == SizeMax + 1

\* Mutant of expected_signal_samples_size: no overflow checks.
expected_signal_samples_size_wraps(f) ==
    (((f.sample_count * Len(f.channels)) % (SizeMax + 1))
        * signal_sample_width_bytes(f.encoding)) % (SizeMax + 1)

\* What sample count, channels and encoding make, or Refused for an unsupported
\* encoding and for a product that size_t cannot hold.
expected_signal_samples_size(f) ==
    LET channels == Len(f.channels)
        width == signal_sample_width_bytes(f.encoding)
        total == (f.sample_count * channels) % (SizeMax + 1)
    IN  IF width = 0 \/ (channels # 0 /\ f.sample_count > SizeMax \div channels) THEN Refused
        ELSE IF total # 0 /\ total > SizeMax \div width THEN Refused
        ELSE (total * width) % (SizeMax + 1)

validate_signal_frame(f) ==
    /\ f.stream_key.nul > 0
    /\ f.sample_interval_ns # {} /\ f.sample_count > 0
    /\ Len(f.channels) \in 1..ChannelsMax
    /\ f.samples_size > 0 /\ f.samples # NULL /\ f.samples_size <= SamplesMax
    /\ \A i \in DOMAIN f.channels : f.channels[i].key.nul > 0
    /\ expected_signal_samples_size(f) = f.samples_size

-------------------------------------------------------------------------------

\* The guard "a > SIZE_MAX / b" is exact: a product that passes it does not wrap.
LEMMA GuardIsExact ==
    ASSUME NEW a \in Nat, NEW b \in Nat \ {0}, NEW max \in Nat, ~(a > max \div b)
    PROVE  a * b \in Nat /\ a * b <= max /\ (a * b) % (max + 1) = a * b
<1> DEFINE q == max \div b
<1>1. q \in Nat /\ q * b <= max
  OBVIOUS
<1>2. a <= q
  BY <1>1
<1> HIDE DEF q
<1>3. a * b <= q * b
  BY <1>1, <1>2
<1>4. a * b \in Nat /\ q * b \in Nat
  BY <1>1
<1>5. a * b <= max
  BY <1>1, <1>3, <1>4
<1>6. \A x \in Nat : x <= max => x % (max + 1) = x
  OBVIOUS
<1> QED  BY <1>4, <1>5, <1>6

\* A frame that validate_signal_frame() accepts has exactly the samples it claims, as
\* whole numbers, whatever counts the caller gave and however wide size_t is.
THEOREM ValidFrameIsWhole ==
    ASSUME SamplesMax \in Nat, SizeMax \in Nat, SamplesMax <= SizeMax,
           NEW f, f.sample_count \in Nat, Len(f.channels) \in Nat,
           validate_signal_frame(f)
    PROVE  f.sample_count * Len(f.channels) * signal_sample_width_bytes(f.encoding)
             = f.samples_size
<1> DEFINE n == f.sample_count
           k == Len(f.channels)
           w == signal_sample_width_bytes(f.encoding)
           total == (n * k) % (SizeMax + 1)
<1>1. n \in Nat \ {0} /\ k \in Nat \ {0} /\ w \in {0, 2, 4}
  BY DEF validate_signal_frame, signal_sample_width_bytes
<1>2. f.samples_size <= SamplesMax /\ expected_signal_samples_size(f) = f.samples_size
  BY DEF validate_signal_frame
<1>3. expected_signal_samples_size(f)
        = IF w = 0 \/ (k # 0 /\ n > SizeMax \div k) THEN Refused
          ELSE IF total # 0 /\ total > SizeMax \div w THEN Refused
          ELSE (total * w) % (SizeMax + 1)
  BY DEF expected_signal_samples_size
<1> HIDE DEF n, k, w
<1>4. f.samples_size # Refused
  BY <1>2 DEF Refused
<1>5. w \in Nat \ {0} /\ ~(n > SizeMax \div k)
  BY <1>1, <1>2, <1>3, <1>4
<1>6. n * k \in Nat /\ total = n * k
  BY <1>1, <1>5, GuardIsExact
<1>7. n * k # 0
  BY <1>1
<1>8. ~(total > SizeMax \div w) /\ f.samples_size = (total * w) % (SizeMax + 1)
  <2> HIDE DEF total
  <2> QED  BY <1>2, <1>3, <1>4, <1>5, <1>6, <1>7
<1>9. (total * w) % (SizeMax + 1) = total * w
  <2> HIDE DEF total
  <2> QED  BY <1>5, <1>6, <1>8, GuardIsExact
<1>10. f.samples_size = (n * k) * w
  <2> HIDE DEF total
  <2> QED  BY <1>6, <1>8, <1>9
<1> QED  BY <1>10 DEF n, k, w
===============================================================================
