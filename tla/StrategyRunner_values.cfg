SPECIFICATION Spec
CONSTANTS
    Names = {"bool", "u", "i", "wide", "f32", "char", "vec", "string", "option", "result", "tuple",
             "heap", "bset", "bmap", "range", "nonzero", "int_range", "above", "chars",
             "one_of", "weighted", "vec_of", "text", "filter", "tree", "composed", "flat_map",
             "point", "shape", "both", "borrowed", "prop", "broken", "deque", "list", "hset", "hmap",
             "array", "duration", "rc", "ip", "socket", "wrapping", "ordering", "f64_range",
             "just", "gap", "apart", "lengths", "pair", "email", "url", "uuid", "ipv4", "date"}
    Others = {"Pass", "Discard", "Skip"}
    NoValue = NoValue
    Values <- MCValues
    Subjects <- MCSubjects
    Configs <- MCConfigs
    Sizes = {1, 2, 3}
    MinBits = 2
    WideBits = 4
    Unit = 2
    FloatMax = 6
    MaxCode = 8
    Surrogates = {5, 6}
    LowerA = 3
    NanosPerSec = 2
    Octets = 1
    MaxWord = 1
INVARIANTS InDomain ExactMinimum
PROPERTIES StrictlySmaller ImplementsRunner
