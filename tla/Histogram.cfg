SPECIFICATION Spec
CONSTANTS
    h1 = h1
    h2 = h2
    Width = 6
    kSubBits = 2
    Histograms <- TwoHistograms
    Samples <- Edges
    Percentages <- Asked
    MaxCount <- Bounds
    Precision = 18
INVARIANTS StandsForSamples PercentileConservative
